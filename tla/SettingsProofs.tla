---------------------------- MODULE SettingsProofs ----------------------------
(***************************************************************************)
(* Proofs about Settings, for any number of changes, failures and losses of *)
(* power.  The inductive invariant is a proof outline: for every list of    *)
(* requests what holds before each of them.                                *)
(***************************************************************************)
EXTENDS Settings, SequenceTheorems, TLAPS

Images == {"auto", "daylight"}
Sounds == {"auto", "linein"}
Videos == {"H264", "H265"}
Names == {"H264_HIGH", "H265_MAIN", "H264_MAIN"}
Bit == {0, 1}
Zones == {"UTC", "CET"}
Attrs == [v : Videos, p : {"MAIN", "HIGH"}]
Words == [cp : {"H264_HIGH", "H265_MAIN"}, v : Videos, p : {"MAIN", "HIGH"}]

FileType ==
  [image : Images, audio : Sounds \cup {"none"}, speaker : {-1, 50, 100}, zone : Zones, auto : Bit,
   pref : Bit, wifi : Bit, res : Profiles, floor : Nat, main : [Profiles -> Videos],
   codec : [Profiles -> Words]]
LiveType ==
  [image : Images, audio : Sounds, speaker : {0, 50, 100}, main : Videos, codec : Attrs,
   res : Profiles \cup {"none"}, pending : BOOLEAN, old : Videos, zone : Zones, auto : Bit,
   wifi : Bit, clock : Nat, rtc : Nat]
ShownType ==
  [image : Images \cup {"none"}, speaker : {-1, 50, 100}, audio : Sounds \cup {"none"},
   main : Videos \cup {"none"}, codec : Names \cup {"none"}, res : Profiles, zone : Zones,
   auto : Bit, pref : Bit, wifi : Bit]
UiType ==
  [up : BOOLEAN, available : BOOLEAN, prof : Profiles, audio : Sounds, auto : Bit,
   shown : ShownType]
ChosenType ==
  [image : SUBSET Images, speaker : SUBSET {50, 100}, audio : SUBSET Sounds,
   main : [Profiles -> SUBSET Videos], codec : [Profiles -> SUBSET Names], res : SUBSET Profiles,
   zone : SUBSET Zones, auto : SUBSET Bit, clock : SUBSET Nat, pref : SUBSET Bit,
   wifi : SUBSET Bit]
JobOK ==
  /\ job = [name |-> job.name, to |-> job.to, ok |-> job.ok, kept |-> job.kept, todo |-> job.todo]
  /\ job.name \in Keys \cup {"none", "boot", "recover"}
  /\ job.ok \in BOOLEAN /\ job.kept \in BOOLEAN
  /\ IsChoice => job.to \in Options[job.name]
  /\ job.name = "none" => job = NoJob
  /\ job.name # "none" => ui.up
  /\ job.name \in {"boot", "recover"} \/ ~ui.up => ~ui.available
TypeOK ==
  /\ file \in FileType /\ live \in LiveType /\ ui \in UiType /\ chosen \in ChosenType
  /\ belied \in BOOLEAN /\ unsaved \in BOOLEAN
  /\ faults \in Nat /\ changes \in Nat /\ cuts \in Nat

-----------------------------------------------------------------------------
(* What holds of each setting while nothing has failed, outside the job     *)
(* that changes it.                                                        *)
Doing(names) == job.name \in names
ZoneRight ==
  /\ ~Doing({"zone"}) => file.zone \in chosen.zone
  /\ ui.up /\ ~Doing({"zone"}) => ui.shown.zone = file.zone
  /\ ui.up /\ ~Doing({"zone", "boot"}) => live.zone = file.zone
AutoRight ==
  /\ ~Doing({"auto"}) => file.auto \in chosen.auto /\ live.auto \in {0, file.auto}
  /\ ui.up /\ ~Doing({"auto"}) => ui.shown.auto = file.auto
  /\ ui.up /\ ~Doing({"auto", "boot"}) => live.auto = file.auto
WifiRight ==
  /\ ~Doing({"wifi"}) => file.wifi \in chosen.wifi /\ live.wifi \in {0, file.wifi}
  /\ ui.up /\ ~Doing({"wifi"}) => ui.shown.wifi = file.wifi
  /\ ui.up /\ ~Doing({"wifi", "boot"}) => live.wifi = file.wifi
PrefRight ==
  /\ ~Doing({"pref"}) => file.pref \in chosen.pref
  /\ ui.up /\ ~Doing({"pref"}) => ui.shown.pref = file.pref
SpeakerRight ==
  /\ ~Doing({"speaker"}) => LoadSpeaker \in chosen.speaker
  /\ ui.up /\ ~Doing({"speaker", "boot"}) => live.speaker = LoadSpeaker /\ ui.shown.speaker = LoadSpeaker
AudioLater == live.audio = LoadAudio \/ (live.res = "none" /\ ~live.pending)
AudioRight ==
  /\ LoadAudio \in chosen.audio
  /\ ui.up => ui.audio = LoadAudio
  /\ ~ui.up => AudioLater
  /\ ui.up /\ ~Doing({"audio", "boot"}) => live.audio = LoadAudio
  /\ Idle => ui.shown.audio = live.audio
FloorRight == \E c \in chosen.clock : file.floor >= c
ClockRight == \E c \in chosen.clock : live.clock >= c
TimeRight ==
  /\ ~Doing({"clock"}) => FloorRight
  /\ ui.up /\ ~Doing({"clock", "boot"}) => ClockRight
ResRight ==
  /\ ~Doing({"res"}) => file.res \in chosen.res
  /\ ui.up /\ ~Doing({"res"}) => ui.prof = file.res
  /\ Idle => ui.shown.res = ui.prof
MainRight ==
  /\ \A p \in Profiles : ~(Doing({"main"}) /\ p = ui.prof) => file.main[p] \in chosen.main[p]
  /\ Idle => ui.shown.main = live.main
CodecRight ==
  /\ \A p \in Profiles : ~(Doing({"codec"}) /\ p = ui.prof) => CodecName(file.codec[p]) \in chosen.codec[p]
  /\ Idle => ui.shown.codec = CodecName(live.codec)
Right ==
  faults = 0 => /\ ZoneRight /\ AutoRight /\ WifiRight /\ PrefRight /\ SpeakerRight /\ AudioRight
                /\ TimeRight /\ ResRight /\ MainRight /\ CodecRight
                /\ ~unsaved /\ job.kept

-----------------------------------------------------------------------------
(* The camera.                                                             *)
Sure == ui.available /\ ~belied
AsSaved(p) == live.main = file.main[p] /\ live.codec = Attr(file.codec[p])
AsShown == Sure => live.res = ui.prof /\ (unsaved \/ AsSaved(ui.prof))

Start == job.ok /\ job.kept
ImageOutline ==
  \/ job.todo = <<Must("image", job.to), Keep("image", job.to)>> /\ Start
  \/ job.todo = <<Keep("image", job.to)>> /\ Start
  \/ job.todo = <<>> /\ (Start => file.image = job.to)
SpeakerOutline ==
  \/ /\ job.todo = <<Must("speaker", job.to), Keep("speaker", job.to)>> /\ Start
     /\ faults = 0 => LoadSpeaker \in chosen.speaker
  \/ /\ job.todo = <<Keep("speaker", job.to)>> /\ Start
     /\ faults = 0 => LoadSpeaker \in chosen.speaker /\ live.speaker = job.to
  \/ /\ job.todo = <<>> /\ (Start => file.speaker = job.to)
     /\ faults = 0 => Start /\ live.speaker = job.to
AudioOutline ==
  \/ job.todo = <<Must("audio", job.to)>> /\ Start
  \/ job.todo = <<>> /\ (faults = 0 => Start /\ live.audio = job.to)
PrefOutline ==
  \/ /\ job.todo = <<Must("save", <<"pref", job.to>>)>> /\ Start
     /\ faults = 0 => file.pref \in chosen.pref
  \/ job.todo = <<>> /\ (Start => file.pref = job.to) /\ (faults = 0 => Start)
ZoneOutline ==
  \/ /\ job.todo = <<Must("save", <<"zone", job.to>>), Must("zone", job.to)>> /\ Start
     /\ faults = 0 => file.zone \in chosen.zone
  \/ job.todo = <<Must("zone", job.to)>> /\ Start /\ file.zone = job.to
  \/ /\ job.todo = <<>> /\ (Start => file.zone = job.to)
     /\ faults = 0 => Start /\ live.zone = job.to
AutoOutline ==
  \/ /\ job.todo = <<Must("save", <<"auto", job.to>>), Must("auto", job.to)>> /\ Start
     /\ faults = 0 => file.auto \in chosen.auto
  \/ job.todo = <<Must("auto", job.to)>> /\ Start /\ file.auto = job.to
  \/ /\ job.todo = <<>> /\ (Start => file.auto = job.to)
     /\ faults = 0 => Start /\ live.auto = job.to
ClockOutline ==
  \/ /\ job.todo = <<Must("clock", job.to), Floor, Must("rtc", 0)>> /\ Start
     /\ faults = 0 => FloorRight
  \/ /\ job.todo = <<Floor, Must("rtc", 0)>> /\ Start /\ live.clock >= job.to
     /\ faults = 0 => FloorRight
  \/ job.todo = <<Must("rtc", 0)>> /\ Start /\ live.clock >= job.to /\ file.floor >= job.to
  \/ /\ job.todo = <<>> /\ (Start => file.floor >= job.to)
     /\ faults = 0 => Start /\ live.clock >= job.to
WifiOutline ==
  \/ /\ job.todo = <<Note("wifi", job.to), May("save", <<"wifi", job.to>>)>> /\ Start
     /\ faults = 0 => file.wifi \in chosen.wifi
  \/ /\ job.todo = <<May("save", <<"wifi", job.to>>)>> /\ job.kept
     /\ faults = 0 => Start /\ live.wifi = job.to /\ file.wifi \in chosen.wifi
  \/ /\ job.todo = <<>>
     /\ faults = 0 => Start /\ live.wifi = job.to /\ file.wifi = job.to

MainChosen == faults = 0 => file.main[ui.prof] \in chosen.main[ui.prof]
MainOutline ==
  \/ job.todo = <<Must("main", job.to), Keep("main", job.to)>> /\ Start /\ AsShown /\ MainChosen
  \/ /\ job.todo = <<Keep("main", job.to)>> /\ Start /\ MainChosen
     /\ Sure => /\ live.res = ui.prof /\ live.main = job.to
                /\ unsaved \/ live.codec = Attr(file.codec[ui.prof])
  \/ /\ job.todo = <<>>
     /\ job.ok /\ job.kept => file.main[ui.prof] = job.to /\ AsShown
     /\ ~job.ok => AsShown /\ MainChosen
     /\ Sure => live.res = ui.prof

NameChosen == faults = 0 => CodecName(file.codec[ui.prof]) \in chosen.codec[ui.prof]
CodecIn ==
  /\ Start
  /\ Sure => /\ live.res = ui.prof /\ live.codec = Attr(Parts(job.to))
             /\ unsaved \/ live.main = file.main[ui.prof]
CodecOutline ==
  \/ /\ job.todo = <<Must("codec", Attr(Parts(job.to))), Keep("cp", job.to), Keep("v", Parts(job.to).v),
                     Keep("p", Parts(job.to).p)>>
     /\ Start /\ AsShown /\ NameChosen
  \/ /\ job.todo = <<Keep("cp", job.to), Keep("v", Parts(job.to).v), Keep("p", Parts(job.to).p)>>
     /\ CodecIn /\ NameChosen
  \/ /\ job.todo = <<Keep("v", Parts(job.to).v), Keep("p", Parts(job.to).p)>>
     /\ CodecIn /\ NameChosen /\ file.codec[ui.prof].cp = job.to
  \/ /\ job.todo = <<Keep("p", Parts(job.to).p)>>
     /\ CodecIn /\ file.codec[ui.prof].cp = job.to /\ file.codec[ui.prof].v = Parts(job.to).v
     /\ faults = 0 => CodecName(file.codec[ui.prof]) \in {job.to, "H264_MAIN"}
  \/ /\ job.todo = <<>>
     /\ job.ok /\ job.kept => file.codec[ui.prof] = Parts(job.to) /\ AsShown
     /\ ~job.ok => AsShown /\ NameChosen
     /\ Sure => live.res = ui.prof

(* A change of resolution, and its way back.                                *)
Settle == <<May("sync", 0), May("audio", ui.audio)>>
BackCodec == <<OrElse("codec", Attr(file.codec[ui.prof]), Settle)>> \o Settle
BackMain == <<OrElse("main", file.main[ui.prof], Settle),
              OrElse("codec", Attr(file.codec[ui.prof]), Settle)>> \o Settle
ResEnd(to) == <<MustElse("sync", 0, Rollback), MustElse("audio", ui.audio, Rollback), Keep("res", to)>>
ResCodec(to) == <<MustElse("codec", Attr(file.codec[to]), Rollback)>> \o ResEnd(to)
ResMain(to) == Encoders(to, Rollback) \o ResEnd(to)
OldRes == faults = 0 => file.res \in chosen.res /\ ui.prof = file.res
ResOutline ==
  \/ job.todo = Orders("res", job.to) /\ Start /\ AsShown /\ OldRes
  \/ job.todo = ResMain(job.to) /\ Start /\ OldRes /\ (Sure => live.res = job.to)
  \/ /\ job.todo = ResCodec(job.to) /\ Start /\ OldRes
     /\ Sure => live.res = job.to /\ live.main = file.main[job.to]
  \/ /\ \/ job.todo = ResEnd(job.to)
        \/ job.todo = <<MustElse("audio", ui.audio, Rollback), Keep("res", job.to)>>
        \/ job.todo = <<Keep("res", job.to)>>
     /\ Start /\ OldRes /\ (Sure => live.res = job.to /\ AsSaved(job.to))
  \/ job.todo = Rollback /\ ~job.ok /\ OldRes
  \/ job.todo = BackMain /\ ~job.ok /\ OldRes /\ (Sure => live.res = ui.prof)
  \/ /\ job.todo = BackCodec /\ ~job.ok /\ OldRes
     /\ Sure => live.res = ui.prof /\ live.main = file.main[ui.prof]
  \/ /\ \/ job.todo = Settle
        \/ job.todo = <<May("audio", ui.audio)>>
     /\ ~job.ok /\ AsShown /\ OldRes
  \/ /\ job.todo = <<>>
     /\ job.ok => (Sure => live.res = job.to /\ AsSaved(job.to))
     /\ job.ok /\ job.kept => file.res = job.to
     /\ ~job.ok => AsShown /\ OldRes

(* The start of the UI and the recovery.                                     *)
Well == job.ok /\ ~belied
StartedIt(p) == Well => live.res = p
StillSet(p) == Well => live.res = p /\ live.main = file.main[p]
CameraSet(p) == Well => live.res = p /\ AsSaved(p)

RecoverSound == <<Must("sync", 0), Must("audio", ui.audio)>>
RecoverCodec == <<MustElse("codec", Attr(file.codec[ui.prof]), <<>>)>> \o RecoverSound
RecoverMain == Encoders(ui.prof, <<>>) \o RecoverSound
RecoverOutline ==
  /\ job.kept /\ ~unsaved
  /\ \/ job.todo = Primary(ui.prof)
     \/ job.todo = RecoverMain /\ StartedIt(ui.prof)
     \/ job.todo = RecoverCodec /\ StillSet(ui.prof)
     \/ /\ job.todo \in {RecoverSound, <<Must("audio", ui.audio)>>, <<>>}
        /\ CameraSet(ui.prof)

Speak == <<May("speaker", LoadSpeaker)>>
BootSound == <<May("audio", LoadAudio)>> \o BootLast
BootCodec == <<MustElse("codec", Attr(file.codec[file.res]), BootApply)>> \o BootApply
BootMain == Encoders(file.res, BootApply) \o BootApply
BootRtc == <<May("rtc", 0)>> \o BootGraph
BootSave == <<OrElse("save", <<"floor", 0>>, BootGraph)>> \o BootRtc
RestoreRtc == <<May("rtc", 0)>> \o BootClock
Restore == <<May("clock", file.floor)>> \o RestoreRtc
BootOutline ==
  /\ job.kept /\ ~unsaved /\ ui.prof = file.res
  /\ \/ /\ \/ job.todo = <<May("zone", file.zone)>> \o Restore
           \/ job.todo = <<May("zone", file.zone)>> \o BootClock /\ (faults = 0 => live.clock >= file.floor)
        /\ faults = 0 => AudioLater
     \/ /\ \/ job.todo = Restore
           \/ job.todo \in {RestoreRtc, BootClock} /\ (faults = 0 => ClockRight)
        /\ faults = 0 => AudioLater /\ live.zone = file.zone
     \/ /\ job.todo \in {BootSave, BootRtc, BootGraph}
        /\ faults = 0 => AudioLater /\ live.zone = file.zone /\ ClockRight /\ live.auto = file.auto
     \/ /\ \/ job.todo = BootMain /\ StartedIt(file.res)
           \/ job.todo = BootCodec /\ StillSet(file.res)
           \/ job.todo \in {BootApply, BootSound} /\ CameraSet(file.res)
           \/ /\ CameraSet(file.res)
              /\ \/ job.todo = BootLast
                 \/ job.todo = Speak /\ (faults = 0 => live.wifi = file.wifi)
                 \/ job.todo = <<>> /\ (faults = 0 => /\ live.wifi = file.wifi /\ live.speaker = LoadSpeaker
                                                      /\ ui.shown.speaker = LoadSpeaker)
              /\ faults = 0 => live.audio = LoadAudio
        /\ faults = 0 => live.zone = file.zone /\ ClockRight /\ live.auto = file.auto

Outlined ==
  /\ job.name = "image" => ImageOutline
  /\ job.name = "speaker" => SpeakerOutline
  /\ job.name = "audio" => AudioOutline
  /\ job.name = "pref" => PrefOutline
  /\ job.name = "zone" => ZoneOutline
  /\ job.name = "auto" => AutoOutline
  /\ job.name = "clock" => ClockOutline
  /\ job.name = "wifi" => WifiOutline
  /\ job.name = "main" => MainOutline
  /\ job.name = "codec" => CodecOutline
  /\ job.name = "res" => ResOutline
  /\ job.name = "recover" => RecoverOutline
  /\ job.name = "boot" => BootOutline
Quiet == ~Doing({"main", "codec", "res", "boot", "recover"})
Inv == TypeOK /\ JobOK /\ Right /\ (Quiet => AsShown) /\ Outlined

-----------------------------------------------------------------------------
(* Lists: what is first and what is left.                                   *)
IsList(s) == \E S : s \in Seq(S)

LEMMA PutFirst ==
  ASSUME NEW a, NEW s, IsList(s)
  PROVE  /\ IsList(<<a>> \o s) /\ <<a>> \o s # <<>>
         /\ Head(<<a>> \o s) = a /\ Tail(<<a>> \o s) = s
<1>1. PICK S : s \in Seq(S)
  BY DEF IsList
<1> DEFINE T == S \cup {a}
           f == <<a>>
<1>2. S \subseteq T /\ a \in T
  OBVIOUS
<1>3. s \in Seq(T) /\ f \in Seq(T)
  BY <1>1, <1>2
<1>5. Len(f) = 1 /\ f[1] = a
  OBVIOUS
<1> HIDE DEF T, f
<1>4. /\ f \o s \in Seq(T) /\ Len(f \o s) = 1 + Len(s)
      /\ \A i \in 1 .. Len(f) : (f \o s)[i] = f[i]
      /\ \A i \in 1 .. Len(s) : (f \o s)[Len(f) + i] = s[i]
  BY <1>3, <1>5, ConcatProperties, SMTT(30)
<1>6. Len(s) \in Nat
  BY <1>3
<1>7. f \o s # <<>> /\ Head(f \o s) = a
  BY <1>4, <1>5, <1>6
<1>8. Tail(f \o s) \in Seq(T) /\ Len(Tail(f \o s)) = Len(s)
  BY <1>4, <1>6, <1>7
<1>9. \A i \in 1 .. Len(s) : Tail(f \o s)[i] = s[i]
  BY <1>4, <1>5, <1>6, <1>7
<1>10. Tail(f \o s) = s
  BY <1>3, <1>8, <1>9
<1> QED BY <1>4, <1>7, <1>10 DEF IsList, f

LEMMA PutTwo ==
  ASSUME NEW a, NEW b, NEW s, IsList(s)
  PROVE  <<a, b>> \o s = <<a>> \o (<<b>> \o s)
<1>1. PICK S : s \in Seq(S)
  BY DEF IsList
<1> DEFINE T == S \cup {a, b}
<1>2. S \subseteq T /\ a \in T /\ b \in T
  OBVIOUS
<1>3. s \in Seq(T) /\ <<a>> \in Seq(T) /\ <<b>> \in Seq(T)
  BY <1>1, <1>2
<1>4. <<a>> \o <<b>> = <<a, b>>
  <2> DEFINE f == <<a>>
             g == <<b>>
  <2>1. f \in Seq(T) /\ g \in Seq(T) /\ Len(f) = 1 /\ Len(g) = 1 /\ f[1] = a /\ g[1] = b
    BY <1>3
  <2>2. <<a, b>> \in Seq(T) /\ Len(<<a, b>>) = 2 /\ <<a, b>>[1] = a /\ <<a, b>>[2] = b
    BY <1>2
  <2> HIDE DEF f, g
  <2>3. /\ f \o g \in Seq(T) /\ Len(f \o g) = 2
        /\ \A i \in 1 .. Len(f) : (f \o g)[i] = f[i]
        /\ \A i \in 1 .. Len(g) : (f \o g)[Len(f) + i] = g[i]
    BY <2>1, ConcatProperties, SMTT(30)
  <2>4. (f \o g)[1] = a /\ (f \o g)[2] = b
    BY <2>1, <2>3
  <2> DEFINE h == <<a, b>>
  <2>5. h \in Seq(T) /\ Len(h) = 2 /\ h[1] = a /\ h[2] = b
    BY <2>2
  <2> HIDE DEF h
  <2>6. f \o g = h
    BY <2>3, <2>4, <2>5, SMTT(30)
  <2> QED BY <2>6 DEF f, g, h
<1>5. (<<a>> \o <<b>>) \o s = <<a>> \o (<<b>> \o s)
  <2> DEFINE f == <<a>>
             g == <<b>>
  <2>1. f \in Seq(T) /\ g \in Seq(T) /\ s \in Seq(T)
    BY <1>3
  <2> HIDE DEF f, g, T
  <2>2. (f \o g) \o s = f \o (g \o s)
    BY <2>1, ConcatAssociative
  <2> QED BY <2>2 DEF f, g
<1> QED BY <1>4, <1>5

LEMMA NothingFirst == ASSUME NEW s, IsList(s) PROVE <<>> \o s = s
  BY ConcatEmptySeq DEF IsList

LEMMA Explicit ==
  ASSUME NEW a, NEW b, NEW c, NEW d
  PROVE  /\ IsList(<<>>) /\ IsList(<<a>>) /\ IsList(<<a, b>>) /\ IsList(<<a, b, c>>)
         /\ <<a>> # <<>> /\ Head(<<a>>) = a /\ Tail(<<a>>) = <<>>
         /\ <<a, b>> # <<>> /\ Head(<<a, b>>) = a /\ Tail(<<a, b>>) = <<b>>
         /\ <<a, b, c>> # <<>> /\ Head(<<a, b, c>>) = a /\ Tail(<<a, b, c>>) = <<b, c>>
         /\ <<a, b, c, d>> # <<>> /\ Head(<<a, b, c, d>>) = a /\ Tail(<<a, b, c, d>>) = <<b, c, d>>
<1>1. /\ IsList(<<>>) /\ IsList(<<a>>) /\ IsList(<<a, b>>) /\ IsList(<<a, b, c>>)
  <2>1. /\ <<>> \in Seq({}) /\ <<a>> \in Seq({a}) /\ <<a, b>> \in Seq({a, b})
        /\ <<a, b, c>> \in Seq({a, b, c})
    OBVIOUS
  <2> QED BY <2>1 DEF IsList
<1> QED BY <1>1

-----------------------------------------------------------------------------
(* What a step of a list does: a call, a write.                             *)
Steps(r, rest, ok) ==
  /\ job' = [name |-> job.name, to |-> job.to, ok |-> job.ok /\ (ok \/ ~r.must),
             kept |-> job.kept /\ (ok \/ r.op # "keep"),
             todo |-> IF ok \/ r.rest THEN rest ELSE r.instead]
  /\ ok \in BOOLEAN
  /\ UNCHANGED <<chosen, unsaved, changes, cuts>>
  /\ faults' \in Nat /\ (faults' = 0 => faults = 0)
Shows(r, ok) ==
  ui' = IF job.name = "boot" /\ r.op = "speaker"
        THEN [ui EXCEPT !.shown.speaker = IF ok THEN r.arg ELSE -1] ELSE ui

LEMMA Advance ==
  ASSUME JobOK, NEW r, NEW ok \in BOOLEAN
  PROVE  Proceed(r, ok) =
           [name |-> job.name, to |-> job.to, ok |-> job.ok /\ (ok \/ ~r.must),
            kept |-> job.kept /\ (ok \/ r.op # "keep"),
            todo |-> IF ok \/ r.rest THEN Tail(job.todo) ELSE r.instead]
<1> DEFINE n == job.name
           t == job.to
           k == job.ok
           h == job.kept
           l == job.todo
           k2 == k /\ (ok \/ ~r.must)
           h2 == h /\ (ok \/ r.op # "keep")
           l2 == IF ok \/ r.rest THEN Tail(l) ELSE r.instead
<1>1. job = [name |-> n, to |-> t, ok |-> k, kept |-> h, todo |-> l]
  BY DEF JobOK
<1>2. After(job, r, ok) = [job EXCEPT !.ok = k2, !.todo = l2]
  BY DEF After
<1> HIDE DEF n, t, k, h, l, k2, l2
<1>3. After(job, r, ok) = [name |-> n, to |-> t, ok |-> k2, kept |-> h, todo |-> l2]
  BY <1>1, <1>2
<1>4. Proceed(r, ok) = [After(job, r, ok) EXCEPT !.kept = @ /\ (ok \/ r.op # "keep")]
  BY DEF Proceed
<1>5. Proceed(r, ok) = [After(job, r, ok) EXCEPT !.kept = h2]
  BY <1>3, <1>4
<1> HIDE DEF h2
<1>6. Proceed(r, ok) = [name |-> n, to |-> t, ok |-> k2, kept |-> h2, todo |-> l2]
  BY <1>3, <1>5
<1> QED BY <1>6 DEF n, t, k, h, l, k2, h2, l2

LEMMA CallStep ==
  ASSUME TypeOK, JobOK, UiStep, NEW r, r = Head(job.todo), ~IsSave(r),
         \A o \in Outcomes(r) : o.ok \in BOOLEAN /\ o.cost \in Nat
  PROVE  /\ UNCHANGED file
         /\ \E o \in Outcomes(r) :
              /\ Steps(r, Tail(job.todo), o.ok) /\ Shows(r, o.ok)
              /\ live' = o.l /\ faults' = faults + o.cost
              /\ belied' = (belied \/ o.wrong \/ (WayBack(r) /\ ~o.ok))
<1>1. PICK o \in Outcomes(r) :
        /\ Spend(o.cost) /\ live' = o.l
        /\ belied' = (belied \/ o.wrong \/ (WayBack(r) /\ ~o.ok))
        /\ job' = Proceed(r, o.ok)
        /\ Shows(r, o.ok)
        /\ UNCHANGED file
  BY DEF UiStep, Shows
<1>2. UNCHANGED <<chosen, unsaved, changes, cuts>>
  BY DEF UiStep
<1>3. faults' = faults + o.cost /\ faults' \in Nat /\ (faults' = 0 => faults = 0)
  BY <1>1 DEF Spend, TypeOK
<1>4. o.ok \in BOOLEAN
  OBVIOUS
<1>5. Steps(r, Tail(job.todo), o.ok)
  BY <1>1, <1>2, <1>3, <1>4, Advance DEF Steps
<1> QED BY <1>1, <1>3, <1>5

LEMMA SaveStep ==
  ASSUME TypeOK, JobOK, UiStep, NEW r, r = Head(job.todo), IsSave(r)
  PROVE  /\ UNCHANGED <<live, ui, belied>>
         /\ \/ Steps(r, Tail(job.todo), TRUE) /\ file' = Saved(r.arg[1], r.arg[2]) /\ ~Unset(r.arg)
            \/ /\ Steps(r, Tail(job.todo), FALSE) /\ UNCHANGED file
               /\ faults' = 0 => Unset(r.arg)
<1>1. UNCHANGED <<live, ui, belied, chosen, unsaved, changes, cuts>>
  BY DEF UiStep
<1>2. \/ ~Unset(r.arg) /\ file' = Saved(r.arg[1], r.arg[2]) /\ job' = Proceed(r, TRUE) /\ UNCHANGED faults
      \/ Unset(r.arg) /\ job' = Proceed(r, FALSE) /\ UNCHANGED <<file, faults>>
      \/ Spend(1) /\ job' = Proceed(r, FALSE) /\ UNCHANGED file
  BY DEF UiStep
<1>3. faults \in Nat
  BY DEF TypeOK
<1>4. CASE ~Unset(r.arg) /\ file' = Saved(r.arg[1], r.arg[2]) /\ job' = Proceed(r, TRUE) /\ UNCHANGED faults
  BY <1>1, <1>3, <1>4, Advance DEF Steps
<1>5. CASE Unset(r.arg) /\ job' = Proceed(r, FALSE) /\ UNCHANGED <<file, faults>>
  BY <1>1, <1>3, <1>5, Advance DEF Steps
<1>6. CASE Spend(1) /\ job' = Proceed(r, FALSE) /\ UNCHANGED file
  <2>1. faults' \in Nat /\ faults' # 0
    BY <1>3, <1>6 DEF Spend
  <2> QED BY <1>1, <1>6, <2>1, Advance DEF Steps
<1> QED BY <1>2, <1>4, <1>5, <1>6

(* The outcomes of each call.                                               *)
Outcome(o, l) ==
  /\ o.ok \in BOOLEAN /\ o.cost \in Nat /\ o.wrong \in BOOLEAN
  /\ o.l = live \/ o.l = l
  /\ o.ok => o.l = l
  /\ ~o.ok => o.l = live \/ o.wrong

LEMMA CallOutcomes ==
  ASSUME NEW l, NEW o \in Call(l)
  PROVE  Outcome(o, l) /\ (o.cost = 0 => o.ok)
<1>1. CASE o = Done(l)
  BY <1>1 DEF Does, Done, Outcome
<1>2. CASE o = Failed(live)
  BY <1>2 DEF Does, Failed, Outcome
<1>3. CASE o = Lost(l)
  <2> DEFINE w == l # live
  <2>1. o = Does(l, FALSE, 1, w)
    BY <1>3 DEF Lost
  <2>2. w \in BOOLEAN /\ (l = live \/ w)
    OBVIOUS
  <2> HIDE DEF w
  <2> QED BY <2>1, <2>2 DEF Does, Outcome
<1> QED BY <1>1, <1>2, <1>3 DEF Call

LEMMA ServiceOutcomes ==
  ASSUME NEW l, NEW o \in {Done(l), Failed(live)}
  PROVE  Outcome(o, l) /\ (o.cost = 0 => o.ok)
<1>1. CASE o = Done(l)
  BY <1>1 DEF Does, Done, Outcome
<1>2. CASE o = Failed(live)
  BY <1>2 DEF Does, Failed, Outcome
<1> QED BY <1>1, <1>2

LEMMA ImageOutcomes ==
  ASSUME NEW v, NEW o \in SetImage(v)
  PROVE  Outcome(o, [live EXCEPT !.image = v])
<1>1. CASE o = Refused
  BY <1>1 DEF Does, Refused, Outcome
<1>2. CASE o \in {Done([live EXCEPT !.image = v]), Failed(live)}
  BY <1>2, ServiceOutcomes
<1> QED BY <1>1, <1>2 DEF SetImage

LEMMA SyncOutcomes ==
  ASSUME NEW o \in SyncImage
  PROVE  /\ o.ok \in BOOLEAN /\ o.cost \in Nat /\ o.wrong \in BOOLEAN
         /\ o.l = live \/ o.l = [live EXCEPT !.image = file.image]
<1>1. CASE o = Refused
  BY <1>1 DEF Does, Refused
<1>2. CASE o = Done(live)
  BY <1>2 DEF Does, Done
<1>3. CASE o = Failed(live)
  BY <1>3 DEF Does, Failed
<1>4. CASE o = Does([live EXCEPT !.image = file.image], TRUE, 1, FALSE)
  BY <1>4 DEF Does
<1> QED BY <1>1, <1>2, <1>3, <1>4 DEF SyncImage

(* The encoders: only a pending trial is in the way of one.                 *)
Trial(channel, v) ==
  LET set == [live EXCEPT ![channel] = v]
  IN  IF channel = "main" /\ live.res # "none"
      THEN [set EXCEPT !.pending = TRUE, !.old = live.main] ELSE set
EncoderWill(o, channel, v) ==
  /\ o.ok \in BOOLEAN /\ o.cost \in Nat /\ o.wrong \in BOOLEAN
  /\ o.l = live \/ o.l = Trial(channel, v)
  /\ o.ok => (live[channel] = v /\ o.l = live) \/ o.l = Trial(channel, v)
  /\ ~o.ok => o.l = live \/ o.wrong
LEMMA EncoderOutcomes ==
  ASSUME NEW channel \in {"main", "codec"}, NEW v, NEW o \in Encoder(channel, v)
  PROVE  EncoderWill(o, channel, v)
<1>1. CASE o = Does(live, live[channel] = v, 0, FALSE)
  <2> DEFINE w == live[channel] = v
  <2>1. o = Does(live, w, 0, FALSE) /\ w \in BOOLEAN /\ (w => live[channel] = v)
    BY <1>1
  <2> HIDE DEF w
  <2> QED BY <2>1 DEF Does, EncoderWill
<1>2. CASE o = Failed(live)
  BY <1>2 DEF Does, Failed, EncoderWill
<1>3. CASE o \in Call(Trial(channel, v))
  BY <1>3, CallOutcomes DEF Outcome, EncoderWill
<1> QED BY <1>1, <1>2, <1>3 DEF Encoder, Trial

(* The graph: while nothing has failed only a pending trial refuses it.     *)
Graph(p) == [live EXCEPT !.res = p, !.main = "H264", !.codec = Attr(Parts("H264_HIGH"))]
StartWill(o, p) ==
  /\ o.ok \in BOOLEAN /\ o.cost \in Nat /\ o.wrong \in BOOLEAN
  /\ o.l = live \/ o.l = Graph(p) \/ o.l = [live EXCEPT !.res = "none"]
  /\ o.ok => ~live.pending /\ ((o.l = live /\ live.res = p) \/ o.l = Graph(p))
  /\ ~o.ok => o.l = live \/ o.wrong
  /\ o.cost = 0 /\ ~o.ok => live.pending /\ o.l = live
LEMMA StartOutcomes ==
  ASSUME NEW p, NEW o \in StartGraph(p), live.pending \in BOOLEAN
  PROVE  StartWill(o, p)
<1>1. CASE live.pending
  <2>1. StartGraph(p) = {Refused}
    BY <1>1 DEF StartGraph
  <2>2. o = Refused
    BY <2>1
  <2> QED BY <1>1, <2>2 DEF Does, Refused, StartWill
<1>2. CASE ~live.pending /\ live.res = p
  <2>1. o \in {Done(live), Lost(live)}
    BY <1>2 DEF StartGraph
  <2>2. CASE o = Done(live)
    BY <1>2, <2>2 DEF Does, Done, StartWill
  <2>3. CASE o = Lost(live)
    BY <1>2, <2>3 DEF Does, Lost, StartWill
  <2> QED BY <2>1, <2>2, <2>3
<1>3. CASE ~live.pending /\ live.res # p
  <2>1. o \in Call(Graph(p)) \/ o = Does([live EXCEPT !.res = "none"], FALSE, 2, TRUE)
    BY <1>3 DEF StartGraph, Graph
  <2>2. CASE o \in Call(Graph(p))
    BY <1>3, <2>2, CallOutcomes DEF Outcome, StartWill
  <2>3. CASE o = Does([live EXCEPT !.res = "none"], FALSE, 2, TRUE)
    BY <2>3 DEF Does, StartWill
  <2> QED BY <2>1, <2>2, <2>3
<1> QED BY <1>1, <1>2, <1>3

(* What each call leaves of what is in force.                               *)
CameraSame ==
  /\ live'.res = live.res /\ live'.main = live.main /\ live'.codec = live.codec
  /\ live'.pending = live.pending
SoundSame == live'.audio = live.audio /\ live'.speaker = live.speaker
ClockSame == live'.clock = live.clock
ServicesSame == live'.zone = live.zone /\ live'.auto = live.auto /\ live'.wifi = live.wifi
SystemSame == ServicesSame /\ ClockSame
Made(r, rest, ok) ==
  /\ Steps(r, rest, ok) /\ Shows(r, ok) /\ UNCHANGED file /\ live' \in LiveType
  /\ belied' \in BOOLEAN /\ (belied => belied') /\ (WayBack(r) /\ ~ok => belied')

LEMMA Makes ==
  ASSUME TypeOK, JobOK, UiStep, NEW r, r = Head(job.todo), ~IsSave(r),
         \A o \in Outcomes(r) :
           o.ok \in BOOLEAN /\ o.cost \in Nat /\ o.wrong \in BOOLEAN /\ o.l \in LiveType
  PROVE  \E o \in Outcomes(r) :
           /\ Made(r, Tail(job.todo), o.ok)
           /\ live' = o.l /\ (o.wrong => belied') /\ (faults' = 0 => o.cost = 0)
<1>1. PICK o \in Outcomes(r) :
        /\ Steps(r, Tail(job.todo), o.ok) /\ Shows(r, o.ok)
        /\ live' = o.l /\ faults' = faults + o.cost
        /\ belied' = (belied \/ o.wrong \/ (WayBack(r) /\ ~o.ok))
  BY CallStep
<1>2. UNCHANGED file
  BY CallStep
<1>3. Made(r, Tail(job.todo), o.ok)
  BY <1>1, <1>2 DEF Made, TypeOK
<1>4. faults' = 0 => o.cost = 0
  BY <1>1 DEF TypeOK
<1> QED BY <1>1, <1>3, <1>4

LEMMA MakesSpeaker ==
  ASSUME TypeOK, JobOK, UiStep, NEW r, r = Head(job.todo), r.op = "speaker", r.arg \in {50, 100}
  PROVE  \E ok \in BOOLEAN :
           /\ Made(r, Tail(job.todo), ok)
           /\ CameraSame /\ SystemSame /\ live'.audio = live.audio
           /\ ok => live'.speaker = r.arg
           /\ faults' = 0 => ok
<1> DEFINE l == [live EXCEPT !.speaker = r.arg]
<1>1. Outcomes(r) = Call(l) /\ ~IsSave(r)
  BY DEF Outcomes, SetValue, IsSave
<1>2. \A o \in Outcomes(r) : Outcome(o, l) /\ (o.cost = 0 => o.ok)
  BY <1>1, CallOutcomes
<1>3. /\ l \in LiveType /\ live \in LiveType
      /\ l.speaker = r.arg
      /\ l.res = live.res /\ l.main = live.main /\ l.codec = live.codec /\ l.pending = live.pending
      /\ l.audio = live.audio /\ l.zone = live.zone /\ l.auto = live.auto /\ l.wifi = live.wifi
      /\ l.clock = live.clock
  BY DEF TypeOK, LiveType
<1> HIDE DEF l
<1>4. \A o \in Outcomes(r) :
        o.ok \in BOOLEAN /\ o.cost \in Nat /\ o.wrong \in BOOLEAN /\ o.l \in LiveType
  BY <1>2, <1>3 DEF Outcome
<1>5. PICK o \in Outcomes(r) :
        /\ Made(r, Tail(job.todo), o.ok)
        /\ live' = o.l /\ (o.wrong => belied') /\ (faults' = 0 => o.cost = 0)
  BY <1>1, <1>4, Makes
<1>6. Outcome(o, l) /\ (o.cost = 0 => o.ok)
  BY <1>2
<1> QED BY <1>3, <1>5, <1>6 DEF Outcome, CameraSame, SoundSame, SystemSame, ServicesSame, ClockSame

LEMMA MakesAudio ==
  ASSUME TypeOK, JobOK, UiStep, NEW r, r = Head(job.todo), r.op = "audio", r.arg \in Sounds
  PROVE  \E ok \in BOOLEAN :
           /\ Made(r, Tail(job.todo), ok)
           /\ CameraSame /\ SystemSame /\ live'.speaker = live.speaker
           /\ live'.audio \in {live.audio, r.arg} /\ (ok => live'.audio = r.arg)
           /\ faults' = 0 => ok
<1> DEFINE l == [live EXCEPT !.audio = r.arg]
<1>1. Outcomes(r) = Call(l) /\ ~IsSave(r)
  BY DEF Outcomes, SetValue, IsSave
<1>2. \A o \in Outcomes(r) : Outcome(o, l) /\ (o.cost = 0 => o.ok)
  BY <1>1, CallOutcomes
<1>3. /\ l \in LiveType /\ live \in LiveType
      /\ l.audio = r.arg
      /\ l.res = live.res /\ l.main = live.main /\ l.codec = live.codec /\ l.pending = live.pending
      /\ l.speaker = live.speaker /\ l.zone = live.zone /\ l.auto = live.auto /\ l.wifi = live.wifi
      /\ l.clock = live.clock
  BY DEF TypeOK, LiveType
<1> HIDE DEF l
<1>4. \A o \in Outcomes(r) :
        o.ok \in BOOLEAN /\ o.cost \in Nat /\ o.wrong \in BOOLEAN /\ o.l \in LiveType
  BY <1>2, <1>3 DEF Outcome
<1>5. PICK o \in Outcomes(r) :
        /\ Made(r, Tail(job.todo), o.ok)
        /\ live' = o.l /\ (o.wrong => belied') /\ (faults' = 0 => o.cost = 0)
  BY <1>1, <1>4, Makes
<1>6. Outcome(o, l) /\ (o.cost = 0 => o.ok)
  BY <1>2
<1> QED BY <1>3, <1>5, <1>6 DEF Outcome, CameraSame, SoundSame, SystemSame, ServicesSame, ClockSame

LEMMA MakesImage ==
  ASSUME TypeOK, JobOK, UiStep, NEW r, r = Head(job.todo), r.op = "image", r.arg \in Images
  PROVE  \E ok \in BOOLEAN :
           /\ Made(r, Tail(job.todo), ok)
           /\ CameraSame /\ SoundSame /\ SystemSame
<1> DEFINE l == [live EXCEPT !.image = r.arg]
<1>1. Outcomes(r) = SetImage(r.arg) /\ ~IsSave(r)
  BY DEF Outcomes, IsSave
<1>2. \A o \in Outcomes(r) : Outcome(o, l)
  BY <1>1, ImageOutcomes
<1>3. /\ l \in LiveType /\ live \in LiveType
      /\ l.image = r.arg
      /\ l.res = live.res /\ l.main = live.main /\ l.codec = live.codec /\ l.pending = live.pending
      /\ l.audio = live.audio /\ l.speaker = live.speaker /\ l.zone = live.zone /\ l.auto = live.auto
      /\ l.wifi = live.wifi /\ l.clock = live.clock
  BY DEF TypeOK, LiveType
<1> HIDE DEF l
<1>4. \A o \in Outcomes(r) :
        o.ok \in BOOLEAN /\ o.cost \in Nat /\ o.wrong \in BOOLEAN /\ o.l \in LiveType
  BY <1>2, <1>3 DEF Outcome
<1>5. PICK o \in Outcomes(r) :
        /\ Made(r, Tail(job.todo), o.ok)
        /\ live' = o.l /\ (o.wrong => belied') /\ (faults' = 0 => o.cost = 0)
  BY <1>1, <1>4, Makes
<1>6. Outcome(o, l)
  BY <1>2
<1> QED BY <1>3, <1>5, <1>6 DEF Outcome, CameraSame, SoundSame, SystemSame, ServicesSame, ClockSame

LEMMA MakesZone ==
  ASSUME TypeOK, JobOK, UiStep, NEW r, r = Head(job.todo), r.op = "zone", r.arg \in Zones
  PROVE  \E ok \in BOOLEAN :
           /\ Made(r, Tail(job.todo), ok)
           /\ CameraSame /\ SoundSame /\ ClockSame /\ live'.auto = live.auto /\ live'.wifi = live.wifi
           /\ ok => live'.zone = r.arg
           /\ faults' = 0 => ok
<1> DEFINE l == [live EXCEPT !.zone = r.arg]
<1>1. Outcomes(r) = {Done(l), Failed(live)} /\ ~IsSave(r)
  BY DEF Outcomes, Service, IsSave
<1>2. \A o \in Outcomes(r) : Outcome(o, l) /\ (o.cost = 0 => o.ok)
  BY <1>1, ServiceOutcomes
<1>3. /\ l \in LiveType /\ live \in LiveType
      /\ l.zone = r.arg
      /\ l.res = live.res /\ l.main = live.main /\ l.codec = live.codec /\ l.pending = live.pending
      /\ l.audio = live.audio /\ l.speaker = live.speaker /\ l.auto = live.auto /\ l.wifi = live.wifi
      /\ l.clock = live.clock
  BY DEF TypeOK, LiveType
<1> HIDE DEF l
<1>4. \A o \in Outcomes(r) :
        o.ok \in BOOLEAN /\ o.cost \in Nat /\ o.wrong \in BOOLEAN /\ o.l \in LiveType
  BY <1>2, <1>3 DEF Outcome
<1>5. PICK o \in Outcomes(r) :
        /\ Made(r, Tail(job.todo), o.ok)
        /\ live' = o.l /\ (o.wrong => belied') /\ (faults' = 0 => o.cost = 0)
  BY <1>1, <1>4, Makes
<1>6. Outcome(o, l) /\ (o.cost = 0 => o.ok)
  BY <1>2
<1> QED BY <1>3, <1>5, <1>6 DEF Outcome, CameraSame, SoundSame, SystemSame, ServicesSame, ClockSame

LEMMA MakesAuto ==
  ASSUME TypeOK, JobOK, UiStep, NEW r, r = Head(job.todo), r.op = "auto", r.arg \in Bit
  PROVE  \E ok \in BOOLEAN :
           /\ Made(r, Tail(job.todo), ok)
           /\ CameraSame /\ SoundSame /\ ClockSame /\ live'.zone = live.zone /\ live'.wifi = live.wifi
           /\ live'.auto \in {live.auto, r.arg} /\ (ok => live'.auto = r.arg)
           /\ faults' = 0 => ok
<1> DEFINE l == [live EXCEPT !.auto = r.arg]
<1>1. Outcomes(r) = {Done(l), Failed(live)} /\ ~IsSave(r)
  BY DEF Outcomes, Service, IsSave
<1>2. \A o \in Outcomes(r) : Outcome(o, l) /\ (o.cost = 0 => o.ok)
  BY <1>1, ServiceOutcomes
<1>3. /\ l \in LiveType /\ live \in LiveType
      /\ l.auto = r.arg
      /\ l.res = live.res /\ l.main = live.main /\ l.codec = live.codec /\ l.pending = live.pending
      /\ l.audio = live.audio /\ l.speaker = live.speaker /\ l.zone = live.zone /\ l.wifi = live.wifi
      /\ l.clock = live.clock
  BY DEF TypeOK, LiveType
<1> HIDE DEF l
<1>4. \A o \in Outcomes(r) :
        o.ok \in BOOLEAN /\ o.cost \in Nat /\ o.wrong \in BOOLEAN /\ o.l \in LiveType
  BY <1>2, <1>3 DEF Outcome
<1>5. PICK o \in Outcomes(r) :
        /\ Made(r, Tail(job.todo), o.ok)
        /\ live' = o.l /\ (o.wrong => belied') /\ (faults' = 0 => o.cost = 0)
  BY <1>1, <1>4, Makes
<1>6. Outcome(o, l) /\ (o.cost = 0 => o.ok)
  BY <1>2
<1> QED BY <1>3, <1>5, <1>6 DEF Outcome, CameraSame, SoundSame, SystemSame, ServicesSame, ClockSame

LEMMA MakesWifi ==
  ASSUME TypeOK, JobOK, UiStep, NEW r, r = Head(job.todo), r.op = "wifi", r.arg \in Bit
  PROVE  \E ok \in BOOLEAN :
           /\ Made(r, Tail(job.todo), ok)
           /\ CameraSame /\ SoundSame /\ ClockSame /\ live'.zone = live.zone /\ live'.auto = live.auto
           /\ live'.wifi \in {live.wifi, r.arg} /\ (ok => live'.wifi = r.arg)
           /\ faults' = 0 => ok
<1> DEFINE l == [live EXCEPT !.wifi = r.arg]
<1>1. Outcomes(r) = {Done(l), Failed(live)} /\ ~IsSave(r)
  BY DEF Outcomes, Service, IsSave
<1>2. \A o \in Outcomes(r) : Outcome(o, l) /\ (o.cost = 0 => o.ok)
  BY <1>1, ServiceOutcomes
<1>3. /\ l \in LiveType /\ live \in LiveType
      /\ l.wifi = r.arg
      /\ l.res = live.res /\ l.main = live.main /\ l.codec = live.codec /\ l.pending = live.pending
      /\ l.audio = live.audio /\ l.speaker = live.speaker /\ l.zone = live.zone /\ l.auto = live.auto
      /\ l.clock = live.clock
  BY DEF TypeOK, LiveType
<1> HIDE DEF l
<1>4. \A o \in Outcomes(r) :
        o.ok \in BOOLEAN /\ o.cost \in Nat /\ o.wrong \in BOOLEAN /\ o.l \in LiveType
  BY <1>2, <1>3 DEF Outcome
<1>5. PICK o \in Outcomes(r) :
        /\ Made(r, Tail(job.todo), o.ok)
        /\ live' = o.l /\ (o.wrong => belied') /\ (faults' = 0 => o.cost = 0)
  BY <1>1, <1>4, Makes
<1>6. Outcome(o, l) /\ (o.cost = 0 => o.ok)
  BY <1>2
<1> QED BY <1>3, <1>5, <1>6 DEF Outcome, CameraSame, SoundSame, SystemSame, ServicesSame, ClockSame

LEMMA MakesClock ==
  ASSUME TypeOK, JobOK, UiStep, NEW r, r = Head(job.todo), r.op = "clock", r.arg \in Nat
  PROVE  \E ok \in BOOLEAN :
           /\ Made(r, Tail(job.todo), ok)
           /\ CameraSame /\ SoundSame /\ ServicesSame
           /\ ok => live'.clock = r.arg
           /\ faults' = 0 => ok
<1> DEFINE l == [live EXCEPT !.clock = r.arg]
<1>1. Outcomes(r) = {Done(l), Failed(live)} /\ ~IsSave(r)
  BY DEF Outcomes, SetClock, IsSave
<1>2. \A o \in Outcomes(r) : Outcome(o, l) /\ (o.cost = 0 => o.ok)
  BY <1>1, ServiceOutcomes
<1>3. /\ l \in LiveType /\ live \in LiveType
      /\ l.clock = r.arg
      /\ l.res = live.res /\ l.main = live.main /\ l.codec = live.codec /\ l.pending = live.pending
      /\ l.audio = live.audio /\ l.speaker = live.speaker /\ l.zone = live.zone /\ l.auto = live.auto
      /\ l.wifi = live.wifi
  BY DEF TypeOK, LiveType
<1> HIDE DEF l
<1>4. \A o \in Outcomes(r) :
        o.ok \in BOOLEAN /\ o.cost \in Nat /\ o.wrong \in BOOLEAN /\ o.l \in LiveType
  BY <1>2, <1>3 DEF Outcome
<1>5. PICK o \in Outcomes(r) :
        /\ Made(r, Tail(job.todo), o.ok)
        /\ live' = o.l /\ (o.wrong => belied') /\ (faults' = 0 => o.cost = 0)
  BY <1>1, <1>4, Makes
<1>6. Outcome(o, l) /\ (o.cost = 0 => o.ok)
  BY <1>2
<1> QED BY <1>3, <1>5, <1>6 DEF Outcome, CameraSame, SoundSame, SystemSame, ServicesSame, ClockSame

LEMMA MakesRtc ==
  ASSUME TypeOK, JobOK, UiStep, NEW r, r = Head(job.todo), r.op = "rtc"
  PROVE  \E ok \in BOOLEAN :
           /\ Made(r, Tail(job.todo), ok)
           /\ CameraSame /\ SoundSame /\ SystemSame
           /\ faults' = 0 => ok
<1> DEFINE l == [live EXCEPT !.rtc = live.clock]
<1>1. Outcomes(r) = {Done(l), Failed(live)} /\ ~IsSave(r)
  BY DEF Outcomes, IsSave
<1>2. \A o \in Outcomes(r) : Outcome(o, l) /\ (o.cost = 0 => o.ok)
  BY <1>1, ServiceOutcomes
<1>3. /\ l \in LiveType /\ live \in LiveType
      /\ l.rtc = live.clock
      /\ l.res = live.res /\ l.main = live.main /\ l.codec = live.codec /\ l.pending = live.pending
      /\ l.audio = live.audio /\ l.speaker = live.speaker /\ l.zone = live.zone /\ l.auto = live.auto
      /\ l.wifi = live.wifi /\ l.clock = live.clock
  BY DEF TypeOK, LiveType
<1> HIDE DEF l
<1>4. \A o \in Outcomes(r) :
        o.ok \in BOOLEAN /\ o.cost \in Nat /\ o.wrong \in BOOLEAN /\ o.l \in LiveType
  BY <1>2, <1>3 DEF Outcome
<1>5. PICK o \in Outcomes(r) :
        /\ Made(r, Tail(job.todo), o.ok)
        /\ live' = o.l /\ (o.wrong => belied') /\ (faults' = 0 => o.cost = 0)
  BY <1>1, <1>4, Makes
<1>6. Outcome(o, l) /\ (o.cost = 0 => o.ok)
  BY <1>2
<1> QED BY <1>3, <1>5, <1>6 DEF Outcome, CameraSame, SoundSame, SystemSame, ServicesSame, ClockSame

LEMMA MakesSync ==
  ASSUME TypeOK, JobOK, UiStep, NEW r, r = Head(job.todo), r.op = "sync"
  PROVE  \E ok \in BOOLEAN :
           /\ Made(r, Tail(job.todo), ok)
           /\ CameraSame /\ SoundSame /\ SystemSame
<1> DEFINE l == [live EXCEPT !.image = file.image]
<1>1. Outcomes(r) = SyncImage /\ ~IsSave(r)
  BY DEF Outcomes, IsSave
<1>2. \A o \in Outcomes(r) : /\ o.ok \in BOOLEAN /\ o.cost \in Nat /\ o.wrong \in BOOLEAN
                             /\ o.l = live \/ o.l = l
  BY <1>1, SyncOutcomes
<1>3. /\ l \in LiveType /\ live \in LiveType
      /\ l.image = file.image
      /\ l.res = live.res /\ l.main = live.main /\ l.codec = live.codec /\ l.pending = live.pending
      /\ l.audio = live.audio /\ l.speaker = live.speaker /\ l.zone = live.zone /\ l.auto = live.auto
      /\ l.wifi = live.wifi /\ l.clock = live.clock
  BY DEF TypeOK, LiveType, FileType
<1> HIDE DEF l
<1>4. \A o \in Outcomes(r) :
        o.ok \in BOOLEAN /\ o.cost \in Nat /\ o.wrong \in BOOLEAN /\ o.l \in LiveType
  BY <1>2, <1>3
<1>5. PICK o \in Outcomes(r) :
        /\ Made(r, Tail(job.todo), o.ok)
        /\ live' = o.l /\ (o.wrong => belied') /\ (faults' = 0 => o.cost = 0)
  BY <1>1, <1>4, Makes
<1>6. o.ok \in BOOLEAN /\ (o.l = live \/ o.l = l)
  BY <1>2
<1>7. CameraSame /\ SoundSame /\ SystemSame
  BY <1>3, <1>5, <1>6 DEF CameraSame, SoundSame, SystemSame, ServicesSame, ClockSame
<1> QED BY <1>5, <1>6, <1>7

LEMMA MakesMain ==
  ASSUME TypeOK, JobOK, UiStep, NEW r, r = Head(job.todo), r.op = "main", r.arg \in Videos
  PROVE  \E ok \in BOOLEAN :
           /\ Made(r, Tail(job.todo), ok)
           /\ SoundSame /\ SystemSame /\ live'.res = live.res /\ live'.codec = live.codec
           /\ ok => live'.main = r.arg
           /\ ~ok => live' = live \/ belied'
<1> DEFINE l == Trial("main", r.arg)
<1>1. Outcomes(r) = Encoder("main", r.arg) /\ ~IsSave(r)
  BY DEF Outcomes, IsSave
<1>2. \A o \in Outcomes(r) : EncoderWill(o, "main", r.arg)
  BY <1>1, EncoderOutcomes
<1>3. /\ l \in LiveType /\ live \in LiveType
      /\ l.main = r.arg
      /\ l.res = live.res /\ l.codec = live.codec /\ l.audio = live.audio /\ l.speaker = live.speaker
      /\ l.zone = live.zone /\ l.auto = live.auto /\ l.wifi = live.wifi /\ l.clock = live.clock
  BY DEF TypeOK, LiveType, Trial
<1> HIDE DEF l
<1>4. \A o \in Outcomes(r) :
        o.ok \in BOOLEAN /\ o.cost \in Nat /\ o.wrong \in BOOLEAN /\ o.l \in LiveType
  BY <1>2, <1>3 DEF EncoderWill, l
<1>5. PICK o \in Outcomes(r) :
        /\ Made(r, Tail(job.todo), o.ok)
        /\ live' = o.l /\ (o.wrong => belied') /\ (faults' = 0 => o.cost = 0)
  BY <1>1, <1>4, Makes
<1>6. EncoderWill(o, "main", r.arg)
  BY <1>2
<1> QED BY <1>3, <1>5, <1>6 DEF EncoderWill, l, CameraSame, SoundSame, SystemSame, ServicesSame, ClockSame

LEMMA MakesCodec ==
  ASSUME TypeOK, JobOK, UiStep, NEW r, r = Head(job.todo), r.op = "codec", r.arg \in Attrs
  PROVE  \E ok \in BOOLEAN :
           /\ Made(r, Tail(job.todo), ok)
           /\ SoundSame /\ SystemSame /\ live'.res = live.res /\ live'.main = live.main /\ live'.pending = live.pending
           /\ ok => live'.codec = r.arg
           /\ ~ok => live' = live \/ belied'
<1> DEFINE l == Trial("codec", r.arg)
<1>1. Outcomes(r) = Encoder("codec", r.arg) /\ ~IsSave(r)
  BY DEF Outcomes, IsSave
<1>2. \A o \in Outcomes(r) : EncoderWill(o, "codec", r.arg)
  BY <1>1, EncoderOutcomes
<1>3. /\ l \in LiveType /\ live \in LiveType
      /\ l.codec = r.arg
      /\ l.res = live.res /\ l.main = live.main /\ l.pending = live.pending /\ l.audio = live.audio
      /\ l.speaker = live.speaker /\ l.zone = live.zone /\ l.auto = live.auto /\ l.wifi = live.wifi
      /\ l.clock = live.clock
  BY DEF TypeOK, LiveType, Trial
<1> HIDE DEF l
<1>4. \A o \in Outcomes(r) :
        o.ok \in BOOLEAN /\ o.cost \in Nat /\ o.wrong \in BOOLEAN /\ o.l \in LiveType
  BY <1>2, <1>3 DEF EncoderWill, l
<1>5. PICK o \in Outcomes(r) :
        /\ Made(r, Tail(job.todo), o.ok)
        /\ live' = o.l /\ (o.wrong => belied') /\ (faults' = 0 => o.cost = 0)
  BY <1>1, <1>4, Makes
<1>6. EncoderWill(o, "codec", r.arg)
  BY <1>2
<1> QED BY <1>3, <1>5, <1>6 DEF EncoderWill, l, CameraSame, SoundSame, SystemSame, ServicesSame, ClockSame

LEMMA MakesStart ==
  ASSUME TypeOK, JobOK, UiStep, NEW r, r = Head(job.todo), r.op = "start", r.arg \in Profiles
  PROVE  \E ok \in BOOLEAN :
           /\ Made(r, Tail(job.todo), ok)
           /\ SoundSame /\ SystemSame
           /\ ok => live'.res = r.arg
           /\ ~ok => live' = live \/ belied'
           /\ faults' = 0 /\ ~ok => live.pending /\ live' = live
<1> DEFINE l == Graph(r.arg)
           n == [live EXCEPT !.res = "none"]
<1>1. Outcomes(r) = StartGraph(r.arg) /\ ~IsSave(r) /\ live.pending \in BOOLEAN
  BY DEF Outcomes, IsSave, TypeOK, LiveType
<1>2. \A o \in Outcomes(r) : StartWill(o, r.arg)
  BY <1>1, StartOutcomes
<1> DEFINE c == Attr(Parts("H264_HIGH"))
<1>3. "H264" \in Videos /\ c \in Attrs
  BY DEF Attr, Parts, Attrs, Videos
<1>4. l = [live EXCEPT !.res = r.arg, !.main = "H264", !.codec = c]
  BY DEF Graph
<1> HIDE DEF l, c
<1>5. /\ l \in LiveType /\ live \in LiveType /\ n \in LiveType
      /\ l.res = r.arg /\ l.audio = live.audio /\ l.speaker = live.speaker /\ l.zone = live.zone
      /\ l.auto = live.auto /\ l.wifi = live.wifi /\ l.clock = live.clock
      /\ n.audio = live.audio /\ n.speaker = live.speaker /\ n.zone = live.zone
      /\ n.auto = live.auto /\ n.wifi = live.wifi /\ n.clock = live.clock
  BY <1>3, <1>4 DEF TypeOK, LiveType
<1> HIDE DEF n
<1>6. \A o \in Outcomes(r) :
        o.ok \in BOOLEAN /\ o.cost \in Nat /\ o.wrong \in BOOLEAN /\ o.l \in LiveType
  BY <1>2, <1>5 DEF StartWill, l, n
<1>7. PICK o \in Outcomes(r) :
        /\ Made(r, Tail(job.todo), o.ok)
        /\ live' = o.l /\ (o.wrong => belied') /\ (faults' = 0 => o.cost = 0)
  BY <1>1, <1>6, Makes
<1>8. StartWill(o, r.arg)
  BY <1>2
<1>9. o.l = live \/ o.l = l \/ o.l = n
  BY <1>8 DEF StartWill, l, n
<1>10. o.ok => live'.res = r.arg
  BY <1>5, <1>7, <1>8 DEF StartWill, l
<1>11. /\ ~o.ok => live' = live \/ belied'
       /\ faults' = 0 /\ ~o.ok => live.pending /\ live' = live
  BY <1>7, <1>8 DEF StartWill
<1>12. SoundSame /\ SystemSame
  BY <1>5, <1>7, <1>9 DEF SoundSame, SystemSame, ServicesSame, ClockSame
<1> QED BY <1>7, <1>8, <1>10, <1>11, <1>12 DEF StartWill

-----------------------------------------------------------------------------
(* What a write leaves on the card.                                         *)
LEMMA SavedIs ==
  ASSUME NEW v
  PROVE  /\ Saved("image", v) = [file EXCEPT !.image = v]
         /\ Saved("speaker", v) = [file EXCEPT !.speaker = v]
         /\ Saved("pref", v) = [file EXCEPT !.pref = v]
         /\ Saved("zone", v) = [file EXCEPT !.zone = v]
         /\ Saved("auto", v) = [file EXCEPT !.auto = v]
         /\ Saved("wifi", v) = [file EXCEPT !.wifi = v]
         /\ Saved("res", v) = [file EXCEPT !.res = v]
         /\ Saved("floor", v) = [file EXCEPT !.floor = live.clock]
         /\ Saved("main", v) = [file EXCEPT !.main[ui.prof] = v]
         /\ Saved("cp", v) = [file EXCEPT !.codec[ui.prof]["cp"] = v]
         /\ Saved("v", v) = [file EXCEPT !.codec[ui.prof]["v"] = v]
         /\ Saved("p", v) = [file EXCEPT !.codec[ui.prof]["p"] = v]
<1>1. /\ Saved("image", v) = [file EXCEPT !.image = v]
      /\ Saved("speaker", v) = [file EXCEPT !.speaker = v]
      /\ Saved("pref", v) = [file EXCEPT !.pref = v]
  BY DEF Saved, SaveImage, SaveSpeaker, SavePreference
<1>2. /\ Saved("zone", v) = [file EXCEPT !.zone = v]
      /\ Saved("auto", v) = [file EXCEPT !.auto = v]
      /\ Saved("wifi", v) = [file EXCEPT !.wifi = v]
      /\ Saved("res", v) = [file EXCEPT !.res = v]
  BY DEF Saved, SaveTopLevel, SaveAutoTime, SaveWifi
<1>3. Saved("floor", v) = [file EXCEPT !.floor = live.clock]
  BY DEF Saved, SaveFloor
<1>4. Saved("main", v) = [file EXCEPT !.main[ui.prof] = v]
  BY DEF Saved, SaveEncoder
<1>5. /\ Saved("cp", v) = [file EXCEPT !.codec[ui.prof]["cp"] = v]
      /\ Saved("v", v) = [file EXCEPT !.codec[ui.prof]["v"] = v]
      /\ Saved("p", v) = [file EXCEPT !.codec[ui.prof]["p"] = v]
  BY DEF Saved, SaveEncoder
<1> QED BY <1>1, <1>2, <1>3, <1>4, <1>5

(* What is on the card outside the encoders.                                *)
PlainSame(keys) ==
  /\ "image" \notin keys => file'.image = file.image
  /\ "speaker" \notin keys => file'.speaker = file.speaker
  /\ "pref" \notin keys => file'.pref = file.pref
  /\ "zone" \notin keys => file'.zone = file.zone
  /\ "auto" \notin keys => file'.auto = file.auto
  /\ "wifi" \notin keys => file'.wifi = file.wifi
  /\ "res" \notin keys => file'.res = file.res
  /\ "floor" \notin keys => file'.floor = file.floor
  /\ "audio" \notin keys => file'.audio = file.audio
EncodersSame == file'.main = file.main /\ file'.codec = file.codec

Wrote(r, rest, ok) ==
  /\ Steps(r, rest, ok) /\ UNCHANGED <<live, ui, belied>> /\ file' \in FileType

PlainValue(key, v) ==
  \/ key = "image" /\ v \in Images
  \/ key = "speaker" /\ v \in {50, 100}
  \/ key \in {"pref", "auto", "wifi"} /\ v \in Bit
  \/ key = "zone" /\ v \in Zones
  \/ key = "res" /\ v \in Profiles
LEMMA WritePlain ==
  ASSUME TypeOK, JobOK, UiStep, NEW r, r = Head(job.todo), IsSave(r),
         PlainValue(r.arg[1], r.arg[2])
  PROVE  \E ok \in BOOLEAN :
           /\ Wrote(r, Tail(job.todo), ok) /\ PlainSame({r.arg[1]}) /\ EncodersSame
           /\ ok => file'[r.arg[1]] = r.arg[2]
           /\ ~ok => file' = file
           /\ faults' = 0 => ok
<1> DEFINE key == r.arg[1]
           v == r.arg[2]
<1>1. PlainValue(key, v) /\ key # "floor"
  BY DEF PlainValue
<1>2. ~Unset(r.arg)
  BY <1>1 DEF Unset
<1>3. file \in FileType
  BY DEF TypeOK
<1> DEFINE f == Saved(key, v)
<1>4. /\ f \in FileType /\ f[key] = v
      /\ f.audio = file.audio /\ f.main = file.main /\ f.codec = file.codec
      /\ key # "image" => f.image = file.image
      /\ key # "speaker" => f.speaker = file.speaker
      /\ key # "pref" => f.pref = file.pref
      /\ key # "zone" => f.zone = file.zone
      /\ key # "auto" => f.auto = file.auto
      /\ key # "wifi" => f.wifi = file.wifi
      /\ key # "res" => f.res = file.res
      /\ f.floor = file.floor
  <2>1. CASE key = "image" /\ v \in Images
    <3>2. Saved("image", v) = [file EXCEPT !.image = v]
      <4> HIDE DEF v
      <4> QED BY SavedIs
    <3>1. f = [file EXCEPT !.image = v]
      BY <2>1, <3>2
    <3> HIDE DEF f
    <3> QED BY <1>3, <2>1, <3>1 DEF FileType
  <2>2. CASE key = "speaker" /\ v \in {50, 100}
    <3>2. Saved("speaker", v) = [file EXCEPT !.speaker = v]
      <4> HIDE DEF v
      <4> QED BY SavedIs
    <3>1. f = [file EXCEPT !.speaker = v]
      BY <2>2, <3>2
    <3> HIDE DEF f
    <3> QED BY <1>3, <2>2, <3>1, SMTT(30) DEF FileType
  <2>3. CASE key = "pref" /\ v \in Bit
    <3>2. Saved("pref", v) = [file EXCEPT !.pref = v]
      <4> HIDE DEF v
      <4> QED BY SavedIs
    <3>1. f = [file EXCEPT !.pref = v]
      BY <2>3, <3>2
    <3> HIDE DEF f
    <3> QED BY <1>3, <2>3, <3>1 DEF FileType
  <2>4. CASE key = "auto" /\ v \in Bit
    <3>2. Saved("auto", v) = [file EXCEPT !.auto = v]
      <4> HIDE DEF v
      <4> QED BY SavedIs
    <3>1. f = [file EXCEPT !.auto = v]
      BY <2>4, <3>2
    <3> HIDE DEF f
    <3> QED BY <1>3, <2>4, <3>1 DEF FileType
  <2>5. CASE key = "wifi" /\ v \in Bit
    <3>2. Saved("wifi", v) = [file EXCEPT !.wifi = v]
      <4> HIDE DEF v
      <4> QED BY SavedIs
    <3>1. f = [file EXCEPT !.wifi = v]
      BY <2>5, <3>2
    <3> HIDE DEF f
    <3> QED BY <1>3, <2>5, <3>1 DEF FileType
  <2>6. CASE key = "zone" /\ v \in Zones
    <3>2. Saved("zone", v) = [file EXCEPT !.zone = v]
      <4> HIDE DEF v
      <4> QED BY SavedIs
    <3>1. f = [file EXCEPT !.zone = v]
      BY <2>6, <3>2
    <3> HIDE DEF f
    <3> QED BY <1>3, <2>6, <3>1 DEF FileType
  <2>7. CASE key = "res" /\ v \in Profiles
    <3>2. Saved("res", v) = [file EXCEPT !.res = v]
      <4> HIDE DEF v
      <4> QED BY SavedIs
    <3>1. f = [file EXCEPT !.res = v]
      BY <2>7, <3>2
    <3> HIDE DEF f
    <3> QED BY <1>3, <2>7, <3>1 DEF FileType
  <2> HIDE DEF f, key, v
  <2> QED BY <1>1, <2>1, <2>2, <2>3, <2>4, <2>5, <2>6, <2>7 DEF PlainValue
<1>5. \/ Steps(r, Tail(job.todo), TRUE) /\ file' = f
      \/ Steps(r, Tail(job.todo), FALSE) /\ UNCHANGED file /\ faults' # 0
  BY <1>2, SaveStep
<1>6. UNCHANGED <<live, ui, belied>>
  BY SaveStep
<1> HIDE DEF f
<1>7. CASE Steps(r, Tail(job.todo), TRUE) /\ file' = f
  BY <1>1, <1>3, <1>4, <1>6, <1>7 DEF Wrote, PlainSame, EncodersSame
<1>8. CASE Steps(r, Tail(job.todo), FALSE) /\ UNCHANGED file /\ faults' # 0
  BY <1>3, <1>6, <1>8 DEF Wrote, PlainSame, EncodersSame
<1> QED BY <1>5, <1>7, <1>8

LEMMA WriteFloor ==
  ASSUME TypeOK, JobOK, UiStep, NEW r, r = Head(job.todo), IsSave(r), r.arg = <<"floor", 0>>
  PROVE  \E ok \in BOOLEAN :
           /\ Wrote(r, Tail(job.todo), ok) /\ PlainSame({"floor"}) /\ EncodersSame
           /\ ok => file'.floor = live.clock
           /\ ~ok => file' = file
           /\ faults' = 0 => ok \/ live.clock = 0
<1>1. r.arg[1] = "floor" /\ r.arg[2] = 0
  OBVIOUS
<1>3. file \in FileType /\ live.clock \in Nat
  BY DEF TypeOK, LiveType
<1> DEFINE f == [file EXCEPT !.floor = live.clock]
<1>2. Saved("floor", 0) = f
  BY SavedIs
<1>4. /\ f \in FileType /\ f.floor = live.clock
      /\ f.audio = file.audio /\ f.main = file.main /\ f.codec = file.codec
      /\ f.image = file.image /\ f.speaker = file.speaker /\ f.pref = file.pref
      /\ f.zone = file.zone /\ f.auto = file.auto /\ f.wifi = file.wifi /\ f.res = file.res
  BY <1>3 DEF FileType
<1>5. \/ Steps(r, Tail(job.todo), TRUE) /\ file' = f
      \/ Steps(r, Tail(job.todo), FALSE) /\ UNCHANGED file /\ (faults' = 0 => live.clock = 0)
  BY <1>1, <1>2, SaveStep DEF Unset
<1>6. UNCHANGED <<live, ui, belied>>
  BY SaveStep
<1> HIDE DEF f
<1>7. CASE Steps(r, Tail(job.todo), TRUE) /\ file' = f
  BY <1>3, <1>4, <1>6, <1>7 DEF Wrote, PlainSame, EncodersSame
<1>8. CASE Steps(r, Tail(job.todo), FALSE) /\ UNCHANGED file /\ (faults' = 0 => live.clock = 0)
  BY <1>3, <1>6, <1>8 DEF Wrote, PlainSame, EncodersSame
<1> QED BY <1>5, <1>7, <1>8

LEMMA WriteMain ==
  ASSUME TypeOK, JobOK, UiStep, NEW r, r = Head(job.todo), IsSave(r),
         r.arg[1] = "main", r.arg[2] \in Videos
  PROVE  \E ok \in BOOLEAN :
           /\ Wrote(r, Tail(job.todo), ok) /\ PlainSame({}) /\ file'.codec = file.codec
           /\ \A p \in Profiles \ {ui.prof} : file'.main[p] = file.main[p]
           /\ ok => file'.main[ui.prof] = r.arg[2]
           /\ ~ok => file' = file
           /\ faults' = 0 => ok
<1> DEFINE v == r.arg[2]
<1>1. r.arg[1] = "main" /\ r.arg[2] = v
  OBVIOUS
<1>2. ~Unset(r.arg)
  BY <1>1 DEF Unset
<1>3. file \in FileType /\ ui.prof \in Profiles
  BY DEF TypeOK, UiType
<1> DEFINE m == [file.main EXCEPT ![ui.prof] = v]
           f == [file EXCEPT !.main = m]
<1>9. /\ m \in [Profiles -> Videos] /\ m[ui.prof] = v
      /\ \A p \in Profiles \ {ui.prof} : m[p] = file.main[p]
  BY <1>3 DEF FileType
<1> HIDE DEF v
<1>10. Saved("main", v) = f
  BY SavedIs
<1> HIDE DEF m
<1>4. /\ f \in FileType /\ f.main = m
      /\ f.audio = file.audio /\ f.floor = file.floor /\ f.codec = file.codec
      /\ f.image = file.image /\ f.speaker = file.speaker /\ f.pref = file.pref
      /\ f.zone = file.zone /\ f.auto = file.auto /\ f.wifi = file.wifi /\ f.res = file.res
  BY <1>3, <1>9 DEF FileType
<1>5. \/ Steps(r, Tail(job.todo), TRUE) /\ file' = f
      \/ Steps(r, Tail(job.todo), FALSE) /\ UNCHANGED file /\ faults' # 0
  BY <1>1, <1>2, <1>10, SaveStep
<1>6. UNCHANGED <<live, ui, belied>>
  BY SaveStep
<1> HIDE DEF f
<1>7. CASE Steps(r, Tail(job.todo), TRUE) /\ file' = f
  BY <1>1, <1>4, <1>6, <1>7, <1>9 DEF Wrote, PlainSame
<1>8. CASE Steps(r, Tail(job.todo), FALSE) /\ UNCHANGED file /\ faults' # 0
  BY <1>3, <1>6, <1>8 DEF Wrote, PlainSame
<1> QED BY <1>5, <1>7, <1>8

Word(part, v) ==
  \/ part = "cp" /\ v \in {"H264_HIGH", "H265_MAIN"}
  \/ part = "v" /\ v \in Videos
  \/ part = "p" /\ v \in {"MAIN", "HIGH"}
LEMMA WriteWord ==
  ASSUME TypeOK, JobOK, UiStep, NEW r, r = Head(job.todo), IsSave(r),
         Word(r.arg[1], r.arg[2])
  PROVE  \E ok \in BOOLEAN :
           /\ Wrote(r, Tail(job.todo), ok) /\ PlainSame({}) /\ file'.main = file.main
           /\ \A p \in Profiles \ {ui.prof} : file'.codec[p] = file.codec[p]
           /\ ok => file'.codec[ui.prof] = [file.codec[ui.prof] EXCEPT ![r.arg[1]] = r.arg[2]]
           /\ ~ok => file' = file
           /\ faults' = 0 => ok
<1> DEFINE part == r.arg[1]
           v == r.arg[2]
<1>1. r.arg[1] = part /\ r.arg[2] = v /\ part # "floor" /\ Word(part, v)
  BY DEF Word
<1> HIDE DEF part, v
<1>2. ~Unset(r.arg)
  BY <1>1 DEF Unset
<1>3. file \in FileType /\ ui.prof \in Profiles
  BY DEF TypeOK, UiType
<1> DEFINE w == [file.codec[ui.prof] EXCEPT ![part] = v]
           m == [file.codec EXCEPT ![ui.prof] = w]
           f == [file EXCEPT !.codec = m]
<1>11. w \in Words
  BY <1>1, <1>3 DEF FileType, Words, Word
<1>12. part \in {"cp", "v", "p"}
  BY <1>1 DEF Word
<1>13. Saved(part, v) = [file EXCEPT !.codec[ui.prof][part] = v]
  <2>1. part \in {"main", "cp", "v", "p"} /\ part \notin {"auto", "image", "main"}
    BY <1>12
  <2> QED BY <2>1 DEF Saved, SaveEncoder
<1>10. Saved(part, v) = f
  BY <1>13
<1> HIDE DEF w
<1>9. /\ m \in [Profiles -> Words] /\ m[ui.prof] = w
      /\ \A p \in Profiles \ {ui.prof} : m[p] = file.codec[p]
  BY <1>3, <1>11 DEF FileType
<1> HIDE DEF m
<1>4. /\ f \in FileType /\ f.codec = m
      /\ f.audio = file.audio /\ f.floor = file.floor /\ f.main = file.main
      /\ f.image = file.image /\ f.speaker = file.speaker /\ f.pref = file.pref
      /\ f.zone = file.zone /\ f.auto = file.auto /\ f.wifi = file.wifi /\ f.res = file.res
  BY <1>3, <1>9 DEF FileType
<1>5. \/ Steps(r, Tail(job.todo), TRUE) /\ file' = f
      \/ Steps(r, Tail(job.todo), FALSE) /\ UNCHANGED file /\ faults' # 0
  BY <1>1, <1>2, <1>10, SaveStep
<1>6. UNCHANGED <<live, ui, belied>>
  BY SaveStep
<1> HIDE DEF f
<1>7. CASE Steps(r, Tail(job.todo), TRUE) /\ file' = f
  BY <1>1, <1>4, <1>6, <1>7, <1>9 DEF Wrote, PlainSame, w
<1>8. CASE Steps(r, Tail(job.todo), FALSE) /\ UNCHANGED file /\ faults' # 0
  BY <1>3, <1>6, <1>8 DEF Wrote, PlainSame
<1> QED BY <1>5, <1>7, <1>8

-----------------------------------------------------------------------------
(* Types after a step.                                                      *)
LEMMA ShowsTypes ==
  ASSUME TypeOK, NEW r, NEW ok, Shows(r, ok), r.op = "speaker" => r.arg \in {50, 100}
  PROVE  /\ ui' \in UiType /\ ui'.up = ui.up /\ ui'.available = ui.available /\ ui'.prof = ui.prof
         /\ ui'.audio = ui.audio /\ ui'.shown.zone = ui.shown.zone
         /\ ui'.shown.auto = ui.shown.auto /\ ui'.shown.wifi = ui.shown.wifi
         /\ ui'.shown.pref = ui.shown.pref
         /\ ~(job.name = "boot" /\ r.op = "speaker") => ui' = ui
         /\ job.name = "boot" /\ r.op = "speaker" /\ ok => ui'.shown.speaker = r.arg
<1>1. ui \in UiType /\ ui.shown \in ShownType
  BY DEF TypeOK, UiType
<1>2. CASE ~(job.name = "boot" /\ r.op = "speaker")
  <2>1. ui' = ui
    BY <1>2 DEF Shows
  <2> QED BY <1>1, <1>2, <2>1
<1>3. CASE job.name = "boot" /\ r.op = "speaker"
  <2> DEFINE v == IF ok THEN r.arg ELSE -1
             s == [ui.shown EXCEPT !.speaker = v]
  <2>1. v \in {-1, 50, 100} /\ (ok => v = r.arg)
    BY <1>3
  <2>2. ui' = [ui EXCEPT !.shown = s]
    BY <1>3 DEF Shows
  <2> HIDE DEF v
  <2>3. /\ s \in ShownType /\ s.zone = ui.shown.zone /\ s.auto = ui.shown.auto
        /\ s.wifi = ui.shown.wifi /\ s.pref = ui.shown.pref /\ s.speaker = v
    BY <1>1, <2>1 DEF ShownType
  <2> HIDE DEF s
  <2>4. /\ ui' \in UiType /\ ui'.shown = s /\ ui'.up = ui.up /\ ui'.available = ui.available
        /\ ui'.prof = ui.prof /\ ui'.audio = ui.audio
    BY <1>1, <2>2, <2>3 DEF UiType
  <2> QED BY <1>3, <2>1, <2>3, <2>4
<1> QED BY <1>2, <1>3

LEMMA StepsTypes ==
  ASSUME JobOK, job.name # "none", NEW r, NEW rest, NEW ok, Steps(r, rest, ok),
         ui'.up = ui.up, ui'.available = ui.available
  PROVE  /\ JobOK' /\ job'.name = job.name /\ job'.to = job.to
         /\ job'.ok = (job.ok /\ (ok \/ ~r.must)) /\ job'.kept = (job.kept /\ (ok \/ r.op # "keep"))
         /\ job'.ok <=> job.ok /\ (ok \/ ~r.must)
         /\ job'.kept <=> job.kept /\ (ok \/ r.op # "keep")
         /\ ok \/ r.rest => job'.todo = rest
         /\ ~ok /\ ~r.rest => job'.todo = r.instead
<1> DEFINE k == job.ok /\ (ok \/ ~r.must)
           h == job.kept /\ (ok \/ r.op # "keep")
           l == IF ok \/ r.rest THEN rest ELSE r.instead
<1>1. k \in BOOLEAN /\ h \in BOOLEAN
  OBVIOUS
<1>2. job' = [name |-> job.name, to |-> job.to, ok |-> k, kept |-> h, todo |-> l]
  BY DEF Steps
<1>3. (ok \/ r.rest => l = rest) /\ (~ok /\ ~r.rest => l = r.instead)
  OBVIOUS
<1> HIDE DEF k, h, l
<1>4. /\ job'.name = job.name /\ job'.to = job.to /\ job'.ok = k /\ job'.kept = h /\ job'.todo = l
      /\ job' = [name |-> job'.name, to |-> job'.to, ok |-> job'.ok, kept |-> job'.kept,
                 todo |-> job'.todo]
  BY <1>2
<1>5. JobOK'
  BY <1>1, <1>4 DEF JobOK, IsChoice
<1>6. /\ job'.ok = (job.ok /\ (ok \/ ~r.must)) /\ job'.kept = (job.kept /\ (ok \/ r.op # "keep"))
      /\ job'.ok <=> job.ok /\ (ok \/ ~r.must)
      /\ job'.kept <=> job.kept /\ (ok \/ r.op # "keep")
  BY <1>4 DEF k, h
<1> QED BY <1>3, <1>4, <1>5, <1>6

LEMMA MadeTypes ==
  ASSUME TypeOK, JobOK, job.name # "none", NEW r, NEW rest, NEW ok, Made(r, rest, ok),
         r.op = "speaker" => r.arg \in {50, 100}
  PROVE  TypeOK' /\ JobOK'
<1>1. ui' \in UiType /\ ui'.up = ui.up /\ ui'.available = ui.available
  BY ShowsTypes DEF Made
<1>2. JobOK'
  BY <1>1, StepsTypes DEF Made
<1>3. TypeOK'
  BY <1>1 DEF Made, Steps, TypeOK
<1> QED BY <1>2, <1>3

LEMMA WroteTypes ==
  ASSUME TypeOK, JobOK, job.name # "none", NEW r, NEW rest, NEW ok, Wrote(r, rest, ok)
  PROVE  TypeOK' /\ JobOK'
<1>1. JobOK'
  BY StepsTypes DEF Wrote
<1>2. TypeOK'
  BY DEF Wrote, Steps, TypeOK
<1> QED BY <1>1, <1>2

(* A step leaves right what is not of its own job.                          *)
UiKept ==
  /\ ui'.up = ui.up /\ ui'.prof = ui.prof /\ ui'.audio = ui.audio
  /\ ui'.shown.zone = ui.shown.zone /\ ui'.shown.auto = ui.shown.auto
  /\ ui'.shown.wifi = ui.shown.wifi /\ ui'.shown.pref = ui.shown.pref
  /\ ui'.shown.speaker = ui.shown.speaker \/ job.name = "boot"
LiveKept ==
  /\ live'.zone = live.zone \/ job.name \in {"zone", "boot"}
  /\ live'.auto = live.auto \/ job.name = "auto" \/ (job.name = "boot" /\ live'.auto = file.auto)
  /\ live'.wifi = live.wifi \/ job.name = "wifi" \/ (job.name = "boot" /\ live'.wifi = file.wifi)
  /\ live'.speaker = live.speaker \/ job.name \in {"speaker", "boot"}
  /\ live'.audio \in {live.audio, ui.audio} \/ job.name \in {"audio", "boot"}
  /\ live'.clock = live.clock \/ job.name \in {"clock", "boot"}
FileKept ==
  /\ file'.zone = file.zone \/ job.name = "zone"
  /\ file'.auto = file.auto \/ job.name = "auto"
  /\ file'.wifi = file.wifi \/ job.name = "wifi"
  /\ file'.pref = file.pref \/ job.name = "pref"
  /\ file'.speaker = file.speaker \/ job.name = "speaker"
  /\ file'.res = file.res \/ job.name = "res"
  /\ file'.audio = file.audio
  /\ file'.floor = file.floor \/ job.name = "clock" \/ (faults' = 0 => FloorRight')
  /\ \A p \in Profiles : file'.main[p] = file.main[p] \/ (job.name = "main" /\ p = ui.prof)
  /\ \A p \in Profiles : file'.codec[p] = file.codec[p] \/ (job.name = "codec" /\ p = ui.prof)
LEMMA StaysRight ==
  ASSUME TypeOK, JobOK, Right, job.name # "none", job'.name = job.name,
         UNCHANGED <<chosen, unsaved>>, faults' = 0 => faults = 0 /\ job'.kept,
         UiKept, LiveKept, FileKept
  PROVE  Right'
<1> SUFFICES ASSUME faults' = 0
             PROVE  /\ ZoneRight' /\ AutoRight' /\ WifiRight' /\ PrefRight' /\ SpeakerRight'
                    /\ AudioRight' /\ TimeRight' /\ ResRight' /\ MainRight' /\ CodecRight'
                    /\ ~unsaved' /\ job'.kept
  BY DEF Right
<1>1. /\ ZoneRight /\ AutoRight /\ WifiRight /\ PrefRight /\ SpeakerRight /\ AudioRight
      /\ TimeRight /\ ResRight /\ MainRight /\ CodecRight /\ ~unsaved
  BY DEF Right
<1>2. ui.up /\ ~Idle' /\ ui'.up
  BY DEF JobOK, Idle, UiKept
<1>3. ZoneRight'
  BY <1>1, <1>2 DEF ZoneRight, Doing, UiKept, LiveKept, FileKept
<1>4. AutoRight'
  BY <1>1, <1>2 DEF AutoRight, Doing, UiKept, LiveKept, FileKept
<1>5. WifiRight'
  BY <1>1, <1>2 DEF WifiRight, Doing, UiKept, LiveKept, FileKept
<1>6. PrefRight'
  BY <1>1, <1>2 DEF PrefRight, Doing, UiKept, LiveKept, FileKept
<1>7. SpeakerRight'
  BY <1>1, <1>2 DEF SpeakerRight, Doing, LoadSpeaker, UiKept, LiveKept, FileKept
<1>8. AudioRight'
  BY <1>1, <1>2 DEF AudioRight, Doing, LoadAudio, UiKept, LiveKept, FileKept
<1>9. TimeRight'
  BY <1>1, <1>2 DEF TimeRight, FloorRight, ClockRight, Doing, UiKept, LiveKept, FileKept
<1>10. ResRight'
  BY <1>1, <1>2 DEF ResRight, Doing, UiKept, LiveKept, FileKept
<1>11. MainRight'
  BY <1>1, <1>2 DEF MainRight, Doing, UiKept, LiveKept, FileKept
<1>12. CodecRight'
  <2>1. ASSUME NEW p \in Profiles, ~(Doing({"codec"}) /\ p = ui.prof)
        PROVE  CodecName(file'.codec[p]) \in chosen'.codec[p]
    BY <1>1, <2>1 DEF CodecRight, Doing, FileKept
  <2> QED BY <1>2, <2>1 DEF CodecRight, Doing, UiKept, LiveKept, FileKept
<1> QED BY <1>1, <1>3, <1>4, <1>5, <1>6, <1>7, <1>8, <1>9, <1>10, <1>11, <1>12

-----------------------------------------------------------------------------
(* The lists as one request and the list that is left.                      *)
LEMMA Join ==
  ASSUME NEW a, NEW b, NEW c, IsList(a), IsList(b), IsList(c)
  PROVE  IsList(a \o b) /\ (a \o b) \o c = a \o (b \o c)
<1>1. PICK A : a \in Seq(A)
  BY DEF IsList
<1>2. PICK B : b \in Seq(B)
  BY DEF IsList
<1>3. PICK C : c \in Seq(C)
  BY DEF IsList
<1> DEFINE S == A \cup B \cup C
<1>4. A \subseteq S /\ B \subseteq S /\ C \subseteq S
  OBVIOUS
<1> HIDE DEF S
<1>5. a \in Seq(S) /\ b \in Seq(S) /\ c \in Seq(S)
  BY <1>1, <1>2, <1>3, <1>4
<1>6. a \o b \in Seq(S)
  BY <1>5, ConcatProperties
<1>7. (a \o b) \o c = a \o (b \o c)
  BY <1>5, ConcatAssociative
<1> QED BY <1>6, <1>7 DEF IsList

LEMMA OneThenTwo ==
  ASSUME NEW a, NEW b, NEW c, NEW s, IsList(s)
  PROVE  (<<a>> \o <<b, c>>) \o s = <<a>> \o (<<b>> \o (<<c>> \o s))
<1>1. IsList(<<a>>) /\ IsList(<<b, c>>)
  BY Explicit
<1>2. (<<a>> \o <<b, c>>) \o s = <<a>> \o (<<b, c>> \o s)
  BY <1>1, Join
<1>3. <<b, c>> \o s = <<b>> \o (<<c>> \o s)
  BY PutTwo
<1> QED BY <1>2, <1>3

LEMMA PutThree == ASSUME NEW a, NEW b, NEW c PROVE <<a, b, c>> = <<a>> \o <<b, c>>
<1> DEFINE T == {a, b, c}
           f == <<a>>
           g == <<b, c>>
           h == <<a, b, c>>
<1>1. /\ f \in Seq(T) /\ Len(f) = 1 /\ f[1] = a
      /\ g \in Seq(T) /\ Len(g) = 2 /\ g[1] = b /\ g[2] = c
      /\ h \in Seq(T) /\ Len(h) = 3 /\ h[1] = a /\ h[2] = b /\ h[3] = c
  OBVIOUS
<1> HIDE DEF T, f, g, h
<1>2. f \in Seq(T) /\ g \in Seq(T)
  BY <1>1
<1>5. /\ f \o g \in Seq(T) /\ Len(f \o g) = Len(f) + Len(g)
      /\ \A i \in 1 .. Len(f) : (f \o g)[i] = f[i]
      /\ \A i \in 1 .. Len(g) : (f \o g)[Len(f) + i] = g[i]
  BY ONLY <1>2, ConcatProperties
<1>3. (f \o g)[1] = a /\ (f \o g)[2] = b /\ (f \o g)[3] = c
  BY <1>1, <1>5
<1>4. h = f \o g
  BY <1>1, <1>3, <1>5
<1> QED BY <1>4 DEF f, g, h

LEMMA BootLists ==
  /\ IsList(Speak) /\ IsList(BootLast) /\ IsList(BootSound) /\ IsList(BootApply)
  /\ IsList(BootCodec) /\ IsList(BootMain) /\ IsList(BootGraph) /\ IsList(BootRtc)
  /\ IsList(BootSave) /\ IsList(BootClock) /\ IsList(RestoreRtc) /\ IsList(Restore)
  /\ BootLast = IF file.wifi = 1 THEN <<May("wifi", 1)>> \o Speak ELSE Speak
  /\ BootApply = <<May("sync", 0)>> \o BootSound
  /\ BootMain = <<MustElse("main", file.main[file.res], BootApply)>> \o BootCodec
  /\ BootGraph = <<MustElse("start", file.res, BootLast)>> \o BootMain
  /\ BootClock = IF file.auto = 1 THEN <<May("auto", 1)>> \o BootSave ELSE BootSave
  /\ \A clock : BootRequests(clock) = IF file.floor > clock THEN <<May("zone", file.zone)>> \o Restore
                                      ELSE <<May("zone", file.zone)>> \o BootClock
<1>1. IsList(Speak)
  BY Explicit DEF Speak
<1>2. BootLast = IF file.wifi = 1 THEN <<May("wifi", 1)>> \o Speak ELSE Speak
  <2>1. CASE file.wifi = 1
    BY <2>1 DEF BootLast, If, Speak
  <2>2. CASE file.wifi # 1
    <3>1. BootLast = <<>> \o Speak
      BY <2>2 DEF BootLast, If, Speak
    <3> QED BY <1>1, <2>2, <3>1, NothingFirst
  <2> QED BY <2>1, <2>2
<1>3. IsList(BootLast)
  <2>1. IsList(<<May("wifi", 1)>> \o Speak)
    BY <1>1, PutFirst
  <2> QED BY <1>1, <1>2, <2>1
<1>4. IsList(BootSound)
  BY <1>3, PutFirst DEF BootSound
<1>5. BootApply = <<May("sync", 0)>> \o BootSound
  BY <1>3, PutTwo DEF BootApply, BootSound
<1>6. IsList(BootApply)
  BY <1>4, <1>5, PutFirst
<1>7. IsList(BootCodec)
  BY <1>6, PutFirst DEF BootCodec
<1>8. BootMain = <<MustElse("main", file.main[file.res], BootApply)>> \o BootCodec
  BY <1>6, PutTwo DEF BootMain, BootCodec, Encoders
<1>9. IsList(BootMain)
  BY <1>7, <1>8, PutFirst
<1>10. BootGraph = <<MustElse("start", file.res, BootLast)>> \o BootMain
  <2> DEFINE a == MustElse("start", file.res, BootLast)
             b == MustElse("main", file.main[file.res], BootApply)
             c == MustElse("codec", Attr(file.codec[file.res]), BootApply)
  <2>1. BootGraph = (<<a>> \o <<b, c>>) \o BootApply
    BY DEF BootGraph, Encoders
  <2>2. BootMain = <<b>> \o (<<c>> \o BootApply)
    BY <1>8 DEF BootCodec
  <2> HIDE DEF a, b, c
  <2>3. BootGraph = <<a>> \o BootMain
    <3>1. (<<a>> \o <<b, c>>) \o BootApply = <<a>> \o (<<b>> \o (<<c>> \o BootApply))
      BY <1>6, OneThenTwo, SMTT(30)
    <3> QED BY <2>1, <2>2, <3>1
  <2> QED BY <2>3 DEF a
<1>11. IsList(BootGraph)
  BY <1>9, <1>10, PutFirst
<1>12. IsList(BootRtc)
  BY <1>11, PutFirst DEF BootRtc
<1>13. IsList(BootSave)
  BY <1>12, PutFirst DEF BootSave
<1>14. BootClock = IF file.auto = 1 THEN <<May("auto", 1)>> \o BootSave ELSE BootSave
  <2> DEFINE a == May("auto", 1)
             b == OrElse("save", <<"floor", 0>>, BootGraph)
             c == May("rtc", 0)
  <2>1. BootSave = <<b>> \o (<<c>> \o BootGraph)
    BY DEF BootSave, BootRtc
  <2>2. CASE file.auto = 1
    <3>1. BootClock = (<<a>> \o <<b, c>>) \o BootGraph
      BY <2>2 DEF BootClock, If
    <3> HIDE DEF a, b, c
    <3>2. BootClock = <<a>> \o BootSave
      <4>1. (<<a>> \o <<b, c>>) \o BootGraph = <<a>> \o (<<b>> \o (<<c>> \o BootGraph))
        BY <1>11, OneThenTwo, SMTT(30)
      <4> QED BY <2>1, <3>1, <4>1
    <3> QED BY <2>2, <3>2 DEF a
  <2>3. CASE file.auto # 1
    <3>1. BootClock = (<<>> \o <<b, c>>) \o BootGraph
      BY <2>3 DEF BootClock, If
    <3> HIDE DEF a, b, c
    <3>2. IsList(<<b, c>>)
      BY Explicit
    <3>3. <<>> \o <<b, c>> = <<b, c>>
      BY <3>2, NothingFirst
    <3>4. BootClock = BootSave
      BY <1>11, <2>1, <3>1, <3>3, PutTwo
    <3> QED BY <2>3, <3>4
  <2> QED BY <2>2, <2>3
<1>15. IsList(BootClock)
  <2>1. IsList(<<May("auto", 1)>> \o BootSave)
    BY <1>13, PutFirst
  <2> QED BY <1>13, <1>14, <2>1
<1>16. IsList(RestoreRtc)
  BY <1>15, PutFirst DEF RestoreRtc
<1>17. IsList(Restore)
  BY <1>16, PutFirst DEF Restore
<1>18. ASSUME NEW clock
       PROVE  BootRequests(clock) = IF file.floor > clock THEN <<May("zone", file.zone)>> \o Restore
                                    ELSE <<May("zone", file.zone)>> \o BootClock
  <2> DEFINE a == May("zone", file.zone)
             b == May("clock", file.floor)
             c == May("rtc", 0)
  <2>1. Restore = <<b>> \o (<<c>> \o BootClock)
    BY DEF Restore, RestoreRtc
  <2>2. CASE file.floor > clock
    <3>1. BootRequests(clock) = (<<a>> \o <<b, c>>) \o BootClock
      BY <2>2 DEF BootRequests, RestoreFloor, If
    <3> HIDE DEF a, b, c
    <3>2. BootRequests(clock) = <<a>> \o Restore
      <4>1. (<<a>> \o <<b, c>>) \o BootClock = <<a>> \o (<<b>> \o (<<c>> \o BootClock))
        BY <1>15, OneThenTwo, SMTT(30)
      <4> QED BY <2>1, <3>1, <4>1
    <3> QED BY <2>2, <3>2 DEF a
  <2>3. CASE ~(file.floor > clock)
    <3>1. BootRequests(clock) = (<<a>> \o <<>>) \o BootClock
      BY <2>3 DEF BootRequests, RestoreFloor, If
    <3> HIDE DEF a, b, c
    <3>2. IsList(<<a>>) /\ IsList(<<>>)
      BY Explicit
    <3>3. (<<a>> \o <<>>) \o BootClock = <<a>> \o (<<>> \o BootClock)
      BY <1>15, <3>2, Join
    <3>4. <<>> \o BootClock = BootClock
      BY <1>15, NothingFirst
    <3> QED BY <2>3, <3>1, <3>3, <3>4 DEF a
  <2> QED BY <2>2, <2>3
<1> QED BY <1>1, <1>2, <1>3, <1>4, <1>5, <1>6, <1>7, <1>8, <1>9, <1>10, <1>11, <1>12, <1>13,
           <1>14, <1>15, <1>16, <1>17, <1>18

LEMMA CameraLists ==
  /\ IsList(RecoverSound) /\ IsList(RecoverCodec) /\ IsList(RecoverMain)
  /\ RecoverMain = <<MustElse("main", file.main[ui.prof], <<>>)>> \o RecoverCodec
  /\ Primary(ui.prof) = <<Must("start", ui.prof)>> \o RecoverMain
  /\ IsList(Settle) /\ IsList(BackCodec) /\ IsList(BackMain)
  /\ BackMain = <<OrElse("main", file.main[ui.prof], Settle)>> \o BackCodec
  /\ Rollback = <<May("start", ui.prof)>> \o BackMain
  /\ \A to : /\ IsList(ResEnd(to)) /\ IsList(ResCodec(to)) /\ IsList(ResMain(to))
             /\ ResMain(to) = <<MustElse("main", file.main[to], Rollback)>> \o ResCodec(to)
             /\ Orders("res", to) = <<Must("start", to)>> \o ResMain(to)
<1>1. IsList(RecoverSound)
  BY Explicit DEF RecoverSound
<1>2. IsList(RecoverCodec)
  BY <1>1, PutFirst DEF RecoverCodec
<1>3. RecoverMain = <<MustElse("main", file.main[ui.prof], <<>>)>> \o RecoverCodec
  BY <1>1, PutTwo DEF RecoverMain, RecoverCodec, Encoders
<1>4. IsList(RecoverMain)
  BY <1>2, <1>3, PutFirst
<1>5. Primary(ui.prof) = <<Must("start", ui.prof)>> \o RecoverMain
  <2> DEFINE a == Must("start", ui.prof)
             b == MustElse("main", file.main[ui.prof], <<>>)
             c == MustElse("codec", Attr(file.codec[ui.prof]), <<>>)
  <2>1. Primary(ui.prof) = (<<a>> \o <<b, c>>) \o RecoverSound
    BY DEF Primary, Encoders, RecoverSound
  <2>2. RecoverMain = <<b>> \o (<<c>> \o RecoverSound)
    BY <1>3 DEF RecoverCodec
  <2> HIDE DEF a, b, c
  <2>3. Primary(ui.prof) = <<a>> \o RecoverMain
    <3>1. (<<a>> \o <<b, c>>) \o RecoverSound = <<a>> \o (<<b>> \o (<<c>> \o RecoverSound))
      BY <1>1, OneThenTwo, SMTT(30)
    <3> QED BY <2>1, <2>2, <3>1
  <2> QED BY <2>3 DEF a
<1>6. IsList(Settle)
  BY Explicit DEF Settle
<1>7. IsList(BackCodec)
  BY <1>6, PutFirst DEF BackCodec
<1>8. BackMain = <<OrElse("main", file.main[ui.prof], Settle)>> \o BackCodec
  BY <1>6, PutTwo DEF BackMain, BackCodec
<1>9. IsList(BackMain)
  BY <1>7, <1>8, PutFirst
<1>10. Rollback = <<May("start", ui.prof)>> \o BackMain
  <2> DEFINE a == May("start", ui.prof)
             b == OrElse("main", file.main[ui.prof], Settle)
             c == OrElse("codec", Attr(file.codec[ui.prof]), Settle)
  <2>1. Rollback = <<a, b, c>> \o Settle
    BY DEF Rollback, Settle
  <2>2. <<a, b, c>> = <<a>> \o <<b, c>>
    BY PutThree
  <2>3. BackMain = <<b>> \o (<<c>> \o Settle)
    BY <1>8 DEF BackCodec
  <2> HIDE DEF a, b, c
  <2>4. Rollback = <<a>> \o BackMain
    <3>1. (<<a>> \o <<b, c>>) \o Settle = <<a>> \o (<<b>> \o (<<c>> \o Settle))
      BY <1>6, OneThenTwo, SMTT(30)
    <3> QED BY <2>1, <2>2, <2>3, <3>1
  <2> QED BY <2>4 DEF a
<1>11. ASSUME NEW to
       PROVE  /\ IsList(ResEnd(to)) /\ IsList(ResCodec(to)) /\ IsList(ResMain(to))
              /\ ResMain(to) = <<MustElse("main", file.main[to], Rollback)>> \o ResCodec(to)
              /\ Orders("res", to) = <<Must("start", to)>> \o ResMain(to)
  <2>1. IsList(ResEnd(to))
    BY Explicit DEF ResEnd
  <2>2. IsList(ResCodec(to))
    BY <2>1, PutFirst DEF ResCodec
  <2>3. ResMain(to) = <<MustElse("main", file.main[to], Rollback)>> \o ResCodec(to)
    BY <2>1, PutTwo DEF ResMain, ResCodec, Encoders
  <2>4. IsList(ResMain(to))
    BY <2>2, <2>3, PutFirst
  <2> DEFINE a == Must("start", to)
             b == MustElse("main", file.main[to], Rollback)
             c == MustElse("codec", Attr(file.codec[to]), Rollback)
  <2>5. Orders("res", to) = (<<a>> \o <<b, c>>) \o ResEnd(to)
    BY DEF Orders, Encoders, ResEnd
  <2>6. ResMain(to) = <<b>> \o (<<c>> \o ResEnd(to))
    BY <2>3 DEF ResCodec
  <2> HIDE DEF a, b, c
  <2>7. Orders("res", to) = <<a>> \o ResMain(to)
    BY <2>1, <2>5, <2>6, OneThenTwo, SMTT(30)
  <2> QED BY <2>1, <2>2, <2>3, <2>4, <2>7 DEF a
<1> QED BY <1>1, <1>2, <1>3, <1>4, <1>5, <1>6, <1>7, <1>8, <1>9, <1>10, <1>11

-----------------------------------------------------------------------------
(* The steps of the short jobs.                                             *)
LEMMA AsShownStays ==
  ASSUME AsShown, CameraSame, EncodersSame, ui'.available = ui.available, ui'.prof = ui.prof,
         belied => belied', belied' \in BOOLEAN, unsaved' = unsaved
  PROVE  AsShown'
  BY DEF AsShown, Sure, AsSaved, CameraSame, EncodersSame

LEMMA StepImage ==
  ASSUME Inv, UiStep, job.name = "image"
  PROVE  Inv'
<1> DEFINE v == job.to
           r == Must("image", v)
           k == Keep("image", v)
<1>1. TypeOK /\ JobOK /\ Right /\ AsShown /\ ImageOutline
  <2>1. Quiet
    BY DEF Quiet, Doing
  <2>2. Outlined
    BY DEF Inv
  <2>3. ImageOutline
    BY <2>2 DEF Outlined
  <2> QED BY <2>1, <2>3 DEF Inv
<1>2. v \in Images
  BY <1>1 DEF JobOK, IsChoice, Keys, Options, Images
<1>3. /\ r.op = "image" /\ r.arg = v /\ r.must /\ ~r.rest /\ r.instead = <<>>
      /\ k.op = "keep" /\ k.arg[1] = "image" /\ k.arg[2] = v /\ ~k.must /\ ~k.rest /\ k.instead = <<>>
      /\ IsSave(k)
  BY DEF Must, Keep, OrElse, Request, IsSave
<1>4. job.todo # <<>>
  BY DEF UiStep
<1>5. CASE job.todo = <<r, k>> /\ Start
  <2> HIDE DEF r, k
  <2>1. r = Head(job.todo) /\ Tail(job.todo) = <<k>>
    BY <1>5, Explicit
  <2>2. PICK ok \in BOOLEAN :
          /\ Made(r, <<k>>, ok) /\ ok \in BOOLEAN
          /\ CameraSame /\ SoundSame /\ SystemSame
    BY <1>1, <1>2, <1>3, <2>1, MakesImage
  <2>3. /\ Steps(r, <<k>>, ok) /\ file' = file /\ (faults' = 0 => faults = 0)
        /\ UNCHANGED <<chosen, unsaved>>
    BY <2>2 DEF Made, Steps
  <2>4. ui' = ui /\ (belied => belied') /\ belied' \in BOOLEAN
    BY <1>3, <2>2 DEF Made, Shows
  <2>5. TypeOK' /\ JobOK'
    BY <1>1, <1>2, <1>3, <2>2, MadeTypes
  <2>6. /\ job'.name = "image" /\ job'.to = v
        /\ job'.ok = ok /\ job'.kept
        /\ (ok => job'.todo = <<k>>) /\ (~ok => job'.todo = <<>>)
    BY <1>1, <1>3, <1>5, <2>3, <2>4, StepsTypes DEF Start
  <2>7. Right'
    <3>1. UiKept /\ LiveKept /\ FileKept
      BY <2>2, <2>3, <2>4
         DEF UiKept, LiveKept, FileKept, SoundSame, SystemSame, ServicesSame, ClockSame
    <3>2. faults' = 0 => job'.kept
      BY <1>5, <2>6 DEF Start
    <3> QED BY <1>1, <2>3, <2>6, <3>1, <3>2, StaysRight
  <2>8. AsShown'
    BY <1>1, <2>2, <2>3, <2>4, AsShownStays DEF EncodersSame
  <2>9. ImageOutline'
    BY <1>2, <1>5, <2>2, <2>3, <2>6 DEF ImageOutline, Start, k
  <2> QED BY <2>5, <2>6, <2>7, <2>8, <2>9 DEF Inv, Quiet, Doing, Outlined
<1>6. CASE job.todo = <<k>> /\ Start
  <2> HIDE DEF r, k
  <2>1. k = Head(job.todo) /\ Tail(job.todo) = <<>>
    BY <1>6, Explicit
  <2>0. PlainValue("image", v) /\ k.arg[1] = "image" /\ k.arg[2] = v
    BY <1>2, <1>3 DEF PlainValue
  <2>2. PICK ok \in BOOLEAN :
          /\ Wrote(k, <<>>, ok) /\ PlainSame({"image"}) /\ EncodersSame
          /\ ok => file'.image = v
          /\ ~ok => file' = file
          /\ faults' = 0 => ok
    BY <1>1, <1>3, <2>0, <2>1, WritePlain
  <2>3. /\ Steps(k, <<>>, ok) /\ (faults' = 0 => faults = 0)
        /\ UNCHANGED <<chosen, unsaved, live, ui, belied>>
    BY <2>2 DEF Wrote, Steps
  <2>5. TypeOK' /\ JobOK'
    BY <1>1, <2>2, WroteTypes
  <2>6. /\ job'.name = "image" /\ job'.to = v
        /\ job'.ok /\ job'.kept = ok
        /\ job'.todo = <<>>
    BY <1>1, <1>3, <1>6, <2>3, StepsTypes DEF Start
  <2>7. Right'
    <3>1. UiKept /\ LiveKept /\ FileKept
      BY <2>2, <2>3 DEF UiKept, LiveKept, FileKept, PlainSame, EncodersSame
    <3>2. faults' = 0 => job'.kept
      BY <1>6, <2>2, <2>6 DEF Start
    <3> QED BY <1>1, <2>3, <2>6, <3>1, <3>2, StaysRight
  <2>8. AsShown'
    BY <1>1, <2>2, <2>3, AsShownStays DEF CameraSame, TypeOK
  <2>9. ImageOutline'
    BY <1>2, <1>6, <2>2, <2>3, <2>6 DEF ImageOutline, Start
  <2> QED BY <2>5, <2>6, <2>7, <2>8, <2>9 DEF Inv, Quiet, Doing, Outlined
<1> QED BY <1>1, <1>4, <1>5, <1>6 DEF ImageOutline

LEMMA StepSpeaker ==
  ASSUME Inv, UiStep, job.name = "speaker"
  PROVE  Inv'
<1> DEFINE v == job.to
           r == Must("speaker", v)
           k == Keep("speaker", v)
<1>1. TypeOK /\ JobOK /\ Right /\ AsShown /\ SpeakerOutline
  <2>1. Quiet
    BY DEF Quiet, Doing
  <2>2. Outlined
    BY DEF Inv
  <2>3. SpeakerOutline
    BY <2>2 DEF Outlined
  <2> QED BY <2>1, <2>3 DEF Inv
<1>2. v \in {50, 100}
  BY <1>1 DEF JobOK, IsChoice, Keys, Options
<1>3. /\ r.op = "speaker" /\ r.arg = v /\ r.must /\ ~r.rest /\ r.instead = <<>>
      /\ k.op = "keep" /\ k.arg[1] = "speaker" /\ k.arg[2] = v /\ ~k.must /\ ~k.rest /\ k.instead = <<>>
      /\ IsSave(k)
  BY DEF Must, Keep, OrElse, Request, IsSave
<1>4. job.todo # <<>>
  BY DEF UiStep
<1>5. CASE job.todo = <<r, k>> /\ Start /\ (faults = 0 => LoadSpeaker \in chosen.speaker)
  <2> HIDE DEF r, k
  <2>1. r = Head(job.todo) /\ Tail(job.todo) = <<k>>
    BY <1>5, Explicit
  <2>2. PICK ok \in BOOLEAN :
          /\ Made(r, <<k>>, ok) /\ ok \in BOOLEAN
          /\ CameraSame /\ SystemSame /\ live'.audio = live.audio
          /\ ok => live'.speaker = v
          /\ faults' = 0 => ok
    BY <1>1, <1>2, <1>3, <2>1, MakesSpeaker
  <2>3. /\ Steps(r, <<k>>, ok) /\ file' = file /\ (faults' = 0 => faults = 0)
        /\ UNCHANGED <<chosen, unsaved>>
    BY <2>2 DEF Made, Steps
  <2>4. ui' = ui /\ (belied => belied') /\ belied' \in BOOLEAN
    BY <1>3, <2>2 DEF Made, Shows
  <2>5. TypeOK' /\ JobOK'
    BY <1>1, <1>2, <1>3, <2>2, MadeTypes
  <2>6. /\ job'.name = "speaker" /\ job'.to = v
        /\ job'.ok = ok /\ job'.kept
        /\ (ok => job'.todo = <<k>>) /\ (~ok => job'.todo = <<>>)
    BY <1>1, <1>3, <1>5, <2>3, <2>4, StepsTypes DEF Start
  <2>7. Right'
    <3>1. UiKept /\ LiveKept /\ FileKept
      BY <2>2, <2>3, <2>4
         DEF UiKept, LiveKept, FileKept, SoundSame, SystemSame, ServicesSame, ClockSame
    <3>2. faults' = 0 => job'.kept
      BY <1>5, <2>6 DEF Start
    <3> QED BY <1>1, <2>3, <2>6, <3>1, <3>2, StaysRight
  <2>8. AsShown'
    BY <1>1, <2>2, <2>3, <2>4, AsShownStays DEF EncodersSame
  <2>9. SpeakerOutline'
    BY <1>2, <1>5, <2>2, <2>3, <2>6 DEF SpeakerOutline, Start, LoadSpeaker, k
  <2> QED BY <2>5, <2>6, <2>7, <2>8, <2>9 DEF Inv, Quiet, Doing, Outlined
<1>6. CASE job.todo = <<k>> /\ Start
            /\ (faults = 0 => LoadSpeaker \in chosen.speaker /\ live.speaker = v)
  <2> HIDE DEF r, k
  <2>1. k = Head(job.todo) /\ Tail(job.todo) = <<>>
    BY <1>6, Explicit
  <2>0. PlainValue("speaker", v) /\ k.arg[1] = "speaker" /\ k.arg[2] = v
    BY <1>2, <1>3 DEF PlainValue
  <2>2. PICK ok \in BOOLEAN :
          /\ Wrote(k, <<>>, ok) /\ PlainSame({"speaker"}) /\ EncodersSame
          /\ ok => file'.speaker = v
          /\ ~ok => file' = file
          /\ faults' = 0 => ok
    BY <1>1, <1>3, <2>0, <2>1, WritePlain
  <2>3. /\ Steps(k, <<>>, ok) /\ (faults' = 0 => faults = 0)
        /\ UNCHANGED <<chosen, unsaved, live, ui, belied>>
    BY <2>2 DEF Wrote, Steps
  <2>5. TypeOK' /\ JobOK'
    BY <1>1, <2>2, WroteTypes
  <2>6. /\ job'.name = "speaker" /\ job'.to = v
        /\ job'.ok /\ job'.kept = ok
        /\ job'.todo = <<>>
    BY <1>1, <1>3, <1>6, <2>3, StepsTypes DEF Start
  <2>7. Right'
    <3>1. UiKept /\ LiveKept /\ FileKept
      BY <2>2, <2>3 DEF UiKept, LiveKept, FileKept, PlainSame, EncodersSame
    <3>2. faults' = 0 => job'.kept
      BY <1>6, <2>2, <2>6 DEF Start
    <3> QED BY <1>1, <2>3, <2>6, <3>1, <3>2, StaysRight
  <2>8. AsShown'
    BY <1>1, <2>2, <2>3, AsShownStays DEF CameraSame, TypeOK
  <2>9. SpeakerOutline'
    BY <1>2, <1>6, <2>2, <2>3, <2>6 DEF SpeakerOutline, Start, LoadSpeaker
  <2> QED BY <2>5, <2>6, <2>7, <2>8, <2>9 DEF Inv, Quiet, Doing, Outlined
<1> QED BY <1>1, <1>4, <1>5, <1>6 DEF SpeakerOutline

LEMMA StepAudio ==
  ASSUME Inv, UiStep, job.name = "audio"
  PROVE  Inv'
<1> DEFINE v == job.to
           r == Must("audio", v)
<1>1. TypeOK /\ JobOK /\ Right /\ AsShown /\ AudioOutline
  <2>1. Quiet
    BY DEF Quiet, Doing
  <2>2. Outlined
    BY DEF Inv
  <2>3. AudioOutline
    BY <2>2 DEF Outlined
  <2> QED BY <2>1, <2>3 DEF Inv
<1>2. v \in Sounds
  BY <1>1 DEF JobOK, IsChoice, Keys, Options, Sounds
<1>3. /\ r.op = "audio" /\ r.arg = v /\ r.must /\ ~r.rest /\ r.instead = <<>>
  BY DEF Must, Request
<1>4. job.todo # <<>>
  BY DEF UiStep
<1>5. CASE job.todo = <<r>> /\ Start
  <2> HIDE DEF r
  <2>1. r = Head(job.todo) /\ Tail(job.todo) = <<>>
    BY <1>5, Explicit
  <2>2. PICK ok \in BOOLEAN :
          /\ Made(r, <<>>, ok) /\ ok \in BOOLEAN
          /\ CameraSame /\ SystemSame /\ live'.speaker = live.speaker
          /\ live'.audio \in {live.audio, v} /\ (ok => live'.audio = v)
          /\ faults' = 0 => ok
    BY <1>1, <1>2, <1>3, <2>1, MakesAudio
  <2>3. /\ Steps(r, <<>>, ok) /\ file' = file /\ (faults' = 0 => faults = 0)
        /\ UNCHANGED <<chosen, unsaved>>
    BY <2>2 DEF Made, Steps
  <2>4. ui' = ui /\ (belied => belied') /\ belied' \in BOOLEAN
    BY <1>3, <2>2 DEF Made, Shows
  <2>5. TypeOK' /\ JobOK'
    BY <1>1, <1>2, <1>3, <2>2, MadeTypes
  <2>6. /\ job'.name = "audio" /\ job'.to = v
        /\ job'.ok = ok /\ job'.kept
        /\ job'.todo = <<>>
    BY <1>1, <1>3, <1>5, <2>3, <2>4, StepsTypes DEF Start
  <2>7. Right'
    <3>1. UiKept /\ LiveKept /\ FileKept
      BY <2>2, <2>3, <2>4
         DEF UiKept, LiveKept, FileKept, SoundSame, SystemSame, ServicesSame, ClockSame
    <3>2. faults' = 0 => job'.kept
      BY <1>5, <2>6 DEF Start
    <3> QED BY <1>1, <2>3, <2>6, <3>1, <3>2, StaysRight
  <2>8. AsShown'
    BY <1>1, <2>2, <2>3, <2>4, AsShownStays DEF EncodersSame
  <2>9. AudioOutline'
    BY <1>2, <1>5, <2>2, <2>3, <2>6 DEF AudioOutline, Start
  <2> QED BY <2>5, <2>6, <2>7, <2>8, <2>9 DEF Inv, Quiet, Doing, Outlined
<1> QED BY <1>1, <1>4, <1>5 DEF AudioOutline

LEMMA StepPref ==
  ASSUME Inv, UiStep, job.name = "pref"
  PROVE  Inv'
<1> DEFINE v == job.to
           k == Must("save", <<"pref", v>>)
<1>1. TypeOK /\ JobOK /\ Right /\ AsShown /\ PrefOutline
  <2>1. Quiet
    BY DEF Quiet, Doing
  <2>2. Outlined
    BY DEF Inv
  <2>3. PrefOutline
    BY <2>2 DEF Outlined
  <2> QED BY <2>1, <2>3 DEF Inv
<1>2. v \in Bit
  BY <1>1 DEF JobOK, IsChoice, Keys, Options, Bit
<1>3. /\ k.op = "save" /\ k.arg[1] = "pref" /\ k.arg[2] = v /\ k.must /\ ~k.rest /\ k.instead = <<>>
      /\ IsSave(k)
  BY DEF Must, Request, IsSave
<1>4. job.todo # <<>>
  BY DEF UiStep
<1>5. CASE job.todo = <<k>> /\ Start /\ (faults = 0 => file.pref \in chosen.pref)
  <2> HIDE DEF k
  <2>1. k = Head(job.todo) /\ Tail(job.todo) = <<>>
    BY <1>5, Explicit
  <2>0. PlainValue("pref", v) /\ k.arg[1] = "pref" /\ k.arg[2] = v
    BY <1>2, <1>3 DEF PlainValue
  <2>2. PICK ok \in BOOLEAN :
          /\ Wrote(k, <<>>, ok) /\ PlainSame({"pref"}) /\ EncodersSame
          /\ ok => file'.pref = v
          /\ ~ok => file' = file
          /\ faults' = 0 => ok
    BY <1>1, <1>3, <2>0, <2>1, WritePlain
  <2>3. /\ Steps(k, <<>>, ok) /\ (faults' = 0 => faults = 0)
        /\ UNCHANGED <<chosen, unsaved, live, ui, belied>>
    BY <2>2 DEF Wrote, Steps
  <2>5. TypeOK' /\ JobOK'
    BY <1>1, <2>2, WroteTypes
  <2>6. /\ job'.name = "pref" /\ job'.to = v
        /\ job'.ok = ok /\ job'.kept
        /\ job'.todo = <<>>
    BY <1>1, <1>3, <1>5, <2>3, StepsTypes DEF Start
  <2>7. Right'
    <3>1. UiKept /\ LiveKept /\ FileKept
      BY <2>2, <2>3 DEF UiKept, LiveKept, FileKept, PlainSame, EncodersSame
    <3>2. faults' = 0 => job'.kept
      BY <1>5, <2>2, <2>6 DEF Start
    <3> QED BY <1>1, <2>3, <2>6, <3>1, <3>2, StaysRight
  <2>8. AsShown'
    BY <1>1, <2>2, <2>3, AsShownStays DEF CameraSame, TypeOK
  <2>9. PrefOutline'
    BY <1>2, <1>5, <2>2, <2>3, <2>6 DEF PrefOutline, Start
  <2> QED BY <2>5, <2>6, <2>7, <2>8, <2>9 DEF Inv, Quiet, Doing, Outlined
<1> QED BY <1>1, <1>4, <1>5 DEF PrefOutline

LEMMA StepZone ==
  ASSUME Inv, UiStep, job.name = "zone"
  PROVE  Inv'
<1> DEFINE v == job.to
           k == Must("save", <<"zone", v>>)
           r == Must("zone", v)
<1>1. TypeOK /\ JobOK /\ Right /\ AsShown /\ ZoneOutline
  <2>1. Quiet
    BY DEF Quiet, Doing
  <2>2. Outlined
    BY DEF Inv
  <2>3. ZoneOutline
    BY <2>2 DEF Outlined
  <2> QED BY <2>1, <2>3 DEF Inv
<1>2. v \in Zones
  BY <1>1 DEF JobOK, IsChoice, Keys, Options, Zones
<1>3. /\ k.op = "save" /\ k.arg[1] = "zone" /\ k.arg[2] = v /\ k.must /\ ~k.rest /\ k.instead = <<>>
      /\ r.op = "zone" /\ r.arg = v /\ r.must /\ ~r.rest /\ r.instead = <<>>
      /\ IsSave(k)
  BY DEF Must, Request, IsSave
<1>4. job.todo # <<>>
  BY DEF UiStep
<1>5. CASE job.todo = <<k, r>> /\ Start /\ (faults = 0 => file.zone \in chosen.zone)
  <2> HIDE DEF k, r
  <2>1. k = Head(job.todo) /\ Tail(job.todo) = <<r>>
    BY <1>5, Explicit
  <2>0. PlainValue("zone", v) /\ k.arg[1] = "zone" /\ k.arg[2] = v
    BY <1>2, <1>3 DEF PlainValue
  <2>2. PICK ok \in BOOLEAN :
          /\ Wrote(k, <<r>>, ok) /\ PlainSame({"zone"}) /\ EncodersSame
          /\ ok => file'.zone = v
          /\ ~ok => file' = file
          /\ faults' = 0 => ok
    BY <1>1, <1>3, <2>0, <2>1, WritePlain
  <2>3. /\ Steps(k, <<r>>, ok) /\ (faults' = 0 => faults = 0)
        /\ UNCHANGED <<chosen, unsaved, live, ui, belied>>
    BY <2>2 DEF Wrote, Steps
  <2>5. TypeOK' /\ JobOK'
    BY <1>1, <2>2, WroteTypes
  <2>6. /\ job'.name = "zone" /\ job'.to = v
        /\ job'.ok = ok /\ job'.kept
        /\ (ok => job'.todo = <<r>>) /\ (~ok => job'.todo = <<>>)
    BY <1>1, <1>3, <1>5, <2>3, StepsTypes DEF Start
  <2>7. Right'
    <3>1. UiKept /\ LiveKept /\ FileKept
      BY <2>2, <2>3 DEF UiKept, LiveKept, FileKept, PlainSame, EncodersSame
    <3>2. faults' = 0 => job'.kept
      BY <1>5, <2>2, <2>6 DEF Start
    <3> QED BY <1>1, <2>3, <2>6, <3>1, <3>2, StaysRight
  <2>8. AsShown'
    BY <1>1, <2>2, <2>3, AsShownStays DEF CameraSame, TypeOK
  <2>9. ZoneOutline'
    BY <1>2, <1>5, <2>2, <2>3, <2>6 DEF ZoneOutline, Start, r
  <2> QED BY <2>5, <2>6, <2>7, <2>8, <2>9 DEF Inv, Quiet, Doing, Outlined
<1>6. CASE job.todo = <<r>> /\ Start /\ file.zone = v
  <2> HIDE DEF k, r
  <2>1. r = Head(job.todo) /\ Tail(job.todo) = <<>>
    BY <1>6, Explicit
  <2>2. PICK ok \in BOOLEAN :
          /\ Made(r, <<>>, ok) /\ ok \in BOOLEAN
          /\ CameraSame /\ SoundSame /\ ClockSame /\ live'.auto = live.auto /\ live'.wifi = live.wifi
          /\ ok => live'.zone = v
          /\ faults' = 0 => ok
    BY <1>1, <1>2, <1>3, <2>1, MakesZone
  <2>3. /\ Steps(r, <<>>, ok) /\ file' = file /\ (faults' = 0 => faults = 0)
        /\ UNCHANGED <<chosen, unsaved>>
    BY <2>2 DEF Made, Steps
  <2>4. ui' = ui /\ (belied => belied') /\ belied' \in BOOLEAN
    BY <1>3, <2>2 DEF Made, Shows
  <2>5. TypeOK' /\ JobOK'
    BY <1>1, <1>2, <1>3, <2>2, MadeTypes
  <2>6. /\ job'.name = "zone" /\ job'.to = v
        /\ job'.ok = ok /\ job'.kept
        /\ job'.todo = <<>>
    BY <1>1, <1>3, <1>6, <2>3, <2>4, StepsTypes DEF Start
  <2>7. Right'
    <3>1. UiKept /\ LiveKept /\ FileKept
      BY <2>2, <2>3, <2>4
         DEF UiKept, LiveKept, FileKept, SoundSame, SystemSame, ServicesSame, ClockSame
    <3>2. faults' = 0 => job'.kept
      BY <1>6, <2>6 DEF Start
    <3> QED BY <1>1, <2>3, <2>6, <3>1, <3>2, StaysRight
  <2>8. AsShown'
    BY <1>1, <2>2, <2>3, <2>4, AsShownStays DEF EncodersSame
  <2>9. ZoneOutline'
    BY <1>2, <1>6, <2>2, <2>3, <2>6 DEF ZoneOutline, Start
  <2> QED BY <2>5, <2>6, <2>7, <2>8, <2>9 DEF Inv, Quiet, Doing, Outlined
<1> QED BY <1>1, <1>4, <1>5, <1>6 DEF ZoneOutline

LEMMA StepAuto ==
  ASSUME Inv, UiStep, job.name = "auto"
  PROVE  Inv'
<1> DEFINE v == job.to
           k == Must("save", <<"auto", v>>)
           r == Must("auto", v)
<1>1. TypeOK /\ JobOK /\ Right /\ AsShown /\ AutoOutline
  <2>1. Quiet
    BY DEF Quiet, Doing
  <2>2. Outlined
    BY DEF Inv
  <2>3. AutoOutline
    BY <2>2 DEF Outlined
  <2> QED BY <2>1, <2>3 DEF Inv
<1>2. v \in Bit
  BY <1>1 DEF JobOK, IsChoice, Keys, Options, Bit
<1>3. /\ k.op = "save" /\ k.arg[1] = "auto" /\ k.arg[2] = v /\ k.must /\ ~k.rest /\ k.instead = <<>>
      /\ r.op = "auto" /\ r.arg = v /\ r.must /\ ~r.rest /\ r.instead = <<>>
      /\ IsSave(k)
  BY DEF Must, Request, IsSave
<1>4. job.todo # <<>>
  BY DEF UiStep
<1>5. CASE job.todo = <<k, r>> /\ Start /\ (faults = 0 => file.auto \in chosen.auto)
  <2> HIDE DEF k, r
  <2>1. k = Head(job.todo) /\ Tail(job.todo) = <<r>>
    BY <1>5, Explicit
  <2>0. PlainValue("auto", v) /\ k.arg[1] = "auto" /\ k.arg[2] = v
    BY <1>2, <1>3 DEF PlainValue
  <2>2. PICK ok \in BOOLEAN :
          /\ Wrote(k, <<r>>, ok) /\ PlainSame({"auto"}) /\ EncodersSame
          /\ ok => file'.auto = v
          /\ ~ok => file' = file
          /\ faults' = 0 => ok
    BY <1>1, <1>3, <2>0, <2>1, WritePlain
  <2>3. /\ Steps(k, <<r>>, ok) /\ (faults' = 0 => faults = 0)
        /\ UNCHANGED <<chosen, unsaved, live, ui, belied>>
    BY <2>2 DEF Wrote, Steps
  <2>5. TypeOK' /\ JobOK'
    BY <1>1, <2>2, WroteTypes
  <2>6. /\ job'.name = "auto" /\ job'.to = v
        /\ job'.ok = ok /\ job'.kept
        /\ (ok => job'.todo = <<r>>) /\ (~ok => job'.todo = <<>>)
    BY <1>1, <1>3, <1>5, <2>3, StepsTypes DEF Start
  <2>7. Right'
    <3>1. UiKept /\ LiveKept /\ FileKept
      BY <2>2, <2>3 DEF UiKept, LiveKept, FileKept, PlainSame, EncodersSame
    <3>2. faults' = 0 => job'.kept
      BY <1>5, <2>2, <2>6 DEF Start
    <3> QED BY <1>1, <2>3, <2>6, <3>1, <3>2, StaysRight
  <2>8. AsShown'
    BY <1>1, <2>2, <2>3, AsShownStays DEF CameraSame, TypeOK
  <2>9. AutoOutline'
    BY <1>2, <1>5, <2>2, <2>3, <2>6 DEF AutoOutline, Start, r
  <2> QED BY <2>5, <2>6, <2>7, <2>8, <2>9 DEF Inv, Quiet, Doing, Outlined
<1>6. CASE job.todo = <<r>> /\ Start /\ file.auto = v
  <2> HIDE DEF k, r
  <2>1. r = Head(job.todo) /\ Tail(job.todo) = <<>>
    BY <1>6, Explicit
  <2>2. PICK ok \in BOOLEAN :
          /\ Made(r, <<>>, ok) /\ ok \in BOOLEAN
          /\ CameraSame /\ SoundSame /\ ClockSame /\ live'.zone = live.zone /\ live'.wifi = live.wifi
          /\ ok => live'.auto = v
          /\ faults' = 0 => ok
    BY <1>1, <1>2, <1>3, <2>1, MakesAuto
  <2>3. /\ Steps(r, <<>>, ok) /\ file' = file /\ (faults' = 0 => faults = 0)
        /\ UNCHANGED <<chosen, unsaved>>
    BY <2>2 DEF Made, Steps
  <2>4. ui' = ui /\ (belied => belied') /\ belied' \in BOOLEAN
    BY <1>3, <2>2 DEF Made, Shows
  <2>5. TypeOK' /\ JobOK'
    BY <1>1, <1>2, <1>3, <2>2, MadeTypes
  <2>6. /\ job'.name = "auto" /\ job'.to = v
        /\ job'.ok = ok /\ job'.kept
        /\ job'.todo = <<>>
    BY <1>1, <1>3, <1>6, <2>3, <2>4, StepsTypes DEF Start
  <2>7. Right'
    <3>1. UiKept /\ LiveKept /\ FileKept
      BY <2>2, <2>3, <2>4
         DEF UiKept, LiveKept, FileKept, SoundSame, SystemSame, ServicesSame, ClockSame
    <3>2. faults' = 0 => job'.kept
      BY <1>6, <2>6 DEF Start
    <3> QED BY <1>1, <2>3, <2>6, <3>1, <3>2, StaysRight
  <2>8. AsShown'
    BY <1>1, <2>2, <2>3, <2>4, AsShownStays DEF EncodersSame
  <2>9. AutoOutline'
    BY <1>2, <1>6, <2>2, <2>3, <2>6 DEF AutoOutline, Start
  <2> QED BY <2>5, <2>6, <2>7, <2>8, <2>9 DEF Inv, Quiet, Doing, Outlined
<1> QED BY <1>1, <1>4, <1>5, <1>6 DEF AutoOutline

LEMMA StepClock ==
  ASSUME Inv, UiStep, job.name = "clock"
  PROVE  Inv'
<1> DEFINE v == job.to
           r == Must("clock", v)
           k == Floor
           h == Must("rtc", 0)
<1>1. TypeOK /\ JobOK /\ Right /\ AsShown /\ ClockOutline
  <2>1. Quiet
    BY DEF Quiet, Doing
  <2>2. Outlined
    BY DEF Inv
  <2>3. ClockOutline
    BY <2>2 DEF Outlined
  <2> QED BY <2>1, <2>3 DEF Inv
<1>2. v \in {1} /\ v \in Nat
  BY <1>1 DEF JobOK, IsChoice, Keys, Options
<1>3. /\ r.op = "clock" /\ r.arg = v /\ r.must /\ ~r.rest /\ r.instead = <<>>
      /\ k.op = "save" /\ k.arg = <<"floor", 0>> /\ k.must /\ ~k.rest /\ k.instead = <<>>
      /\ h.op = "rtc" /\ h.arg = 0 /\ h.must /\ ~h.rest /\ h.instead = <<>>
      /\ IsSave(k)
  BY DEF Must, Floor, Request, IsSave
<1>4. job.todo # <<>>
  BY DEF UiStep
<1>5. CASE job.todo = <<r, k, h>> /\ Start /\ (faults = 0 => FloorRight)
  <2> HIDE DEF r, k, h
  <2>1. r = Head(job.todo) /\ Tail(job.todo) = <<k, h>>
    BY <1>5, Explicit
  <2>2. PICK ok \in BOOLEAN :
          /\ Made(r, <<k, h>>, ok) /\ ok \in BOOLEAN
          /\ CameraSame /\ SoundSame /\ ServicesSame
          /\ ok => live'.clock = v
          /\ faults' = 0 => ok
    BY <1>1, <1>2, <1>3, <2>1, MakesClock
  <2>3. /\ Steps(r, <<k, h>>, ok) /\ file' = file /\ (faults' = 0 => faults = 0)
        /\ UNCHANGED <<chosen, unsaved>>
    BY <2>2 DEF Made, Steps
  <2>4. ui' = ui /\ (belied => belied') /\ belied' \in BOOLEAN
    BY <1>3, <2>2 DEF Made, Shows
  <2>5. TypeOK' /\ JobOK'
    BY <1>1, <1>2, <1>3, <2>2, MadeTypes
  <2>6. /\ job'.name = "clock" /\ job'.to = v
        /\ job'.ok = ok /\ job'.kept
        /\ (ok => job'.todo = <<k, h>>) /\ (~ok => job'.todo = <<>>)
    BY <1>1, <1>3, <1>5, <2>3, <2>4, StepsTypes DEF Start
  <2>7. Right'
    <3>1. UiKept /\ LiveKept /\ FileKept
      BY <2>2, <2>3, <2>4
         DEF UiKept, LiveKept, FileKept, SoundSame, SystemSame, ServicesSame, ClockSame
    <3>2. faults' = 0 => job'.kept
      BY <1>5, <2>6 DEF Start
    <3> QED BY <1>1, <2>3, <2>6, <3>1, <3>2, StaysRight
  <2>8. AsShown'
    BY <1>1, <2>2, <2>3, <2>4, AsShownStays DEF EncodersSame
  <2>9. ClockOutline'
    BY <1>2, <1>5, <2>2, <2>3, <2>6, <2>5 DEF ClockOutline, Start, FloorRight, k, h
  <2> QED BY <2>5, <2>6, <2>7, <2>8, <2>9 DEF Inv, Quiet, Doing, Outlined
<1>6. CASE job.todo = <<k, h>> /\ Start /\ live.clock >= v
            /\ (faults = 0 => FloorRight)
  <2> HIDE DEF r, k, h
  <2>1. k = Head(job.todo) /\ Tail(job.todo) = <<h>>
    BY <1>6, Explicit
  <2>2. PICK ok \in BOOLEAN :
          /\ Wrote(k, <<h>>, ok) /\ PlainSame({"floor"}) /\ EncodersSame
          /\ ok => file'.floor = live.clock
          /\ ~ok => file' = file
          /\ faults' = 0 => ok \/ live.clock = 0
    BY <1>1, <1>3, <2>1, WriteFloor
  <2>3. /\ Steps(k, <<h>>, ok) /\ (faults' = 0 => faults = 0)
        /\ UNCHANGED <<chosen, unsaved, live, ui, belied>>
    BY <2>2 DEF Wrote, Steps
  <2>5. TypeOK' /\ JobOK'
    BY <1>1, <2>2, WroteTypes
  <2>6. /\ job'.name = "clock" /\ job'.to = v
        /\ job'.ok = ok /\ job'.kept
        /\ (ok => job'.todo = <<h>>) /\ (~ok => job'.todo = <<>>)
    BY <1>1, <1>3, <1>6, <2>3, StepsTypes DEF Start
  <2>7. Right'
    <3>1. UiKept /\ LiveKept /\ FileKept
      BY <2>2, <2>3 DEF UiKept, LiveKept, FileKept, PlainSame, EncodersSame
    <3>2. faults' = 0 => job'.kept
      BY <1>6, <2>2, <2>6 DEF Start
    <3> QED BY <1>1, <2>3, <2>6, <3>1, <3>2, StaysRight
  <2>8. AsShown'
    BY <1>1, <2>2, <2>3, AsShownStays DEF CameraSame, TypeOK
  <2>9. ClockOutline'
    BY <1>2, <1>6, <2>2, <2>3, <2>6, <1>1 DEF ClockOutline, Start, FloorRight, h, TypeOK, LiveType
  <2> QED BY <2>5, <2>6, <2>7, <2>8, <2>9 DEF Inv, Quiet, Doing, Outlined
<1>7. CASE job.todo = <<h>> /\ Start /\ live.clock >= v /\ file.floor >= v
  <2> HIDE DEF r, k, h
  <2>1. h = Head(job.todo) /\ Tail(job.todo) = <<>>
    BY <1>7, Explicit
  <2>2. PICK ok \in BOOLEAN :
          /\ Made(h, <<>>, ok) /\ ok \in BOOLEAN
          /\ CameraSame /\ SoundSame /\ SystemSame
          /\ faults' = 0 => ok
    BY <1>1, <1>2, <1>3, <2>1, MakesRtc
  <2>3. /\ Steps(h, <<>>, ok) /\ file' = file /\ (faults' = 0 => faults = 0)
        /\ UNCHANGED <<chosen, unsaved>>
    BY <2>2 DEF Made, Steps
  <2>4. ui' = ui /\ (belied => belied') /\ belied' \in BOOLEAN
    BY <1>3, <2>2 DEF Made, Shows
  <2>5. TypeOK' /\ JobOK'
    BY <1>1, <1>2, <1>3, <2>2, MadeTypes
  <2>6. /\ job'.name = "clock" /\ job'.to = v
        /\ job'.ok = ok /\ job'.kept
        /\ job'.todo = <<>>
    BY <1>1, <1>3, <1>7, <2>3, <2>4, StepsTypes DEF Start
  <2>7. Right'
    <3>1. UiKept /\ LiveKept /\ FileKept
      BY <2>2, <2>3, <2>4
         DEF UiKept, LiveKept, FileKept, SoundSame, SystemSame, ServicesSame, ClockSame
    <3>2. faults' = 0 => job'.kept
      BY <1>7, <2>6 DEF Start
    <3> QED BY <1>1, <2>3, <2>6, <3>1, <3>2, StaysRight
  <2>8. AsShown'
    BY <1>1, <2>2, <2>3, <2>4, AsShownStays DEF EncodersSame
  <2>9. ClockOutline'
    BY <1>2, <1>7, <2>2, <2>3, <2>6, <2>5 DEF ClockOutline, Start, FloorRight, SystemSame, ServicesSame, ClockSame
  <2> QED BY <2>5, <2>6, <2>7, <2>8, <2>9 DEF Inv, Quiet, Doing, Outlined
<1> QED BY <1>1, <1>4, <1>5, <1>6, <1>7 DEF ClockOutline

LEMMA StepWifi ==
  ASSUME Inv, UiStep, job.name = "wifi"
  PROVE  Inv'
<1> DEFINE v == job.to
           r == Note("wifi", v)
           k == May("save", <<"wifi", v>>)
<1>1. TypeOK /\ JobOK /\ Right /\ AsShown /\ WifiOutline
  <2>1. Quiet
    BY DEF Quiet, Doing
  <2>2. Outlined
    BY DEF Inv
  <2>3. WifiOutline
    BY <2>2 DEF Outlined
  <2> QED BY <2>1, <2>3 DEF Inv
<1>2. v \in Bit
  BY <1>1 DEF JobOK, IsChoice, Keys, Options, Bit
<1>3. /\ r.op = "wifi" /\ r.arg = v /\ r.must /\ r.rest
      /\ k.op = "save" /\ k.arg[1] = "wifi" /\ k.arg[2] = v /\ ~k.must /\ k.rest
      /\ IsSave(k)
  BY DEF Note, May, Request, IsSave
<1>4. job.todo # <<>>
  BY DEF UiStep
<1>5. CASE job.todo = <<r, k>> /\ Start /\ (faults = 0 => file.wifi \in chosen.wifi)
  <2> HIDE DEF r, k
  <2>1. r = Head(job.todo) /\ Tail(job.todo) = <<k>>
    BY <1>5, Explicit
  <2>2. PICK ok \in BOOLEAN :
          /\ Made(r, <<k>>, ok) /\ ok \in BOOLEAN
          /\ CameraSame /\ SoundSame /\ ClockSame /\ live'.zone = live.zone /\ live'.auto = live.auto
          /\ ok => live'.wifi = v
          /\ faults' = 0 => ok
    BY <1>1, <1>2, <1>3, <2>1, MakesWifi
  <2>3. /\ Steps(r, <<k>>, ok) /\ file' = file /\ (faults' = 0 => faults = 0)
        /\ UNCHANGED <<chosen, unsaved>>
    BY <2>2 DEF Made, Steps
  <2>4. ui' = ui /\ (belied => belied') /\ belied' \in BOOLEAN
    BY <1>3, <2>2 DEF Made, Shows
  <2>5. TypeOK' /\ JobOK'
    BY <1>1, <1>2, <1>3, <2>2, MadeTypes
  <2>6. /\ job'.name = "wifi" /\ job'.to = v
        /\ job'.ok = ok /\ job'.kept
        /\ job'.todo = <<k>>
    BY <1>1, <1>3, <1>5, <2>3, <2>4, StepsTypes DEF Start
  <2>7. Right'
    <3>1. UiKept /\ LiveKept /\ FileKept
      BY <2>2, <2>3, <2>4
         DEF UiKept, LiveKept, FileKept, SoundSame, SystemSame, ServicesSame, ClockSame
    <3>2. faults' = 0 => job'.kept
      BY <1>5, <2>6 DEF Start
    <3> QED BY <1>1, <2>3, <2>6, <3>1, <3>2, StaysRight
  <2>8. AsShown'
    BY <1>1, <2>2, <2>3, <2>4, AsShownStays DEF EncodersSame
  <2>9. WifiOutline'
    BY <1>2, <1>5, <2>2, <2>3, <2>6 DEF WifiOutline, Start, k
  <2> QED BY <2>5, <2>6, <2>7, <2>8, <2>9 DEF Inv, Quiet, Doing, Outlined
<1>6. CASE job.todo = <<k>> /\ job.kept
            /\ (faults = 0 => Start /\ live.wifi = v /\ file.wifi \in chosen.wifi)
  <2> HIDE DEF r, k
  <2>1. k = Head(job.todo) /\ Tail(job.todo) = <<>>
    BY <1>6, Explicit
  <2>0. PlainValue("wifi", v) /\ k.arg[1] = "wifi" /\ k.arg[2] = v
    BY <1>2, <1>3 DEF PlainValue
  <2>2. PICK ok \in BOOLEAN :
          /\ Wrote(k, <<>>, ok) /\ PlainSame({"wifi"}) /\ EncodersSame
          /\ ok => file'.wifi = v
          /\ ~ok => file' = file
          /\ faults' = 0 => ok
    BY <1>1, <1>3, <2>0, <2>1, WritePlain
  <2>3. /\ Steps(k, <<>>, ok) /\ (faults' = 0 => faults = 0)
        /\ UNCHANGED <<chosen, unsaved, live, ui, belied>>
    BY <2>2 DEF Wrote, Steps
  <2>5. TypeOK' /\ JobOK'
    BY <1>1, <2>2, WroteTypes
  <2>6. /\ job'.name = "wifi" /\ job'.to = v
        /\ (job.ok => job'.ok) /\ job'.kept
        /\ job'.todo = <<>>
    BY <1>1, <1>3, <1>6, <2>3, StepsTypes DEF Start
  <2>7. Right'
    <3>1. UiKept /\ LiveKept /\ FileKept
      BY <2>2, <2>3 DEF UiKept, LiveKept, FileKept, PlainSame, EncodersSame
    <3>2. faults' = 0 => job'.kept
      BY <1>6, <2>2, <2>6 DEF Start
    <3> QED BY <1>1, <2>3, <2>6, <3>1, <3>2, StaysRight
  <2>8. AsShown'
    BY <1>1, <2>2, <2>3, AsShownStays DEF CameraSame, TypeOK
  <2>9. WifiOutline'
    BY <1>2, <1>6, <2>2, <2>3, <2>6 DEF WifiOutline, Start
  <2> QED BY <2>5, <2>6, <2>7, <2>8, <2>9 DEF Inv, Quiet, Doing, Outlined
<1> QED BY <1>1, <1>4, <1>5, <1>6 DEF WifiOutline

-----------------------------------------------------------------------------
(* The steps of the long jobs.                                              *)
Went(r, rest, ok) ==
  /\ job'.name = job.name /\ job'.to = job.to
  /\ job'.ok <=> job.ok /\ (ok \/ ~r.must)
  /\ job'.kept <=> job.kept /\ (ok \/ r.op # "keep")
  /\ ok \/ r.rest => job'.todo = rest
  /\ ~ok /\ ~r.rest => job'.todo = r.instead
  /\ belied' \in BOOLEAN /\ (belied => belied')
  /\ UNCHANGED <<chosen, unsaved>> /\ (faults' = 0 => faults = 0)
  /\ ui'.up = ui.up /\ ui'.available = ui.available /\ ui'.prof = ui.prof /\ ui'.audio = ui.audio

LEMMA CallStage ==
  ASSUME TypeOK, JobOK, Right, job.name # "none", LiveKept,
         NEW r, NEW rest, NEW ok, Made(r, rest, ok),
         r.op # "keep", r.op = "speaker" => r.arg \in {50, 100}
  PROVE  /\ TypeOK' /\ JobOK' /\ Right' /\ Went(r, rest, ok) /\ file' = file
         /\ job.name # "boot" => ui' = ui
<1>1. TypeOK' /\ JobOK'
  BY MadeTypes
<1>2. /\ Steps(r, rest, ok) /\ file' = file
      /\ belied' \in BOOLEAN /\ (belied => belied')
      /\ UNCHANGED <<chosen, unsaved>> /\ (faults' = 0 => faults = 0)
  BY DEF Made, Steps
<1>3. /\ ui'.up = ui.up /\ ui'.available = ui.available /\ ui'.prof = ui.prof
      /\ ui'.audio = ui.audio /\ ui'.shown.zone = ui.shown.zone
      /\ ui'.shown.auto = ui.shown.auto /\ ui'.shown.wifi = ui.shown.wifi
      /\ ui'.shown.pref = ui.shown.pref
      /\ job.name # "boot" => ui' = ui
  BY ShowsTypes DEF Made
<1>4. Went(r, rest, ok)
  BY <1>2, <1>3, StepsTypes DEF Went
<1>5. UiKept
  BY <1>3 DEF UiKept
<1>6. FileKept
  BY <1>2 DEF FileKept
<1>7. faults' = 0 => faults = 0 /\ job'.kept
  BY <1>2, <1>4 DEF Went, Right
<1>8. Right'
  BY <1>2, <1>4, <1>5, <1>6, <1>7, StaysRight DEF Went
<1> QED BY <1>1, <1>2, <1>3, <1>4, <1>8

LEMMA WriteStage ==
  ASSUME TypeOK, JobOK, Right, job.name # "none", FileKept,
         NEW r, NEW rest, NEW ok, Wrote(r, rest, ok), faults' = 0 => ok \/ r.op # "keep"
  PROVE  TypeOK' /\ JobOK' /\ Right' /\ Went(r, rest, ok) /\ UNCHANGED <<live, ui, belied>>
<1>1. TypeOK' /\ JobOK'
  BY WroteTypes
<1>2. /\ Steps(r, rest, ok) /\ UNCHANGED <<live, ui, belied>>
      /\ UNCHANGED <<chosen, unsaved>> /\ (faults' = 0 => faults = 0)
  BY DEF Wrote, Steps
<1>3. Went(r, rest, ok)
  BY <1>2, StepsTypes DEF Went, TypeOK
<1>4. UiKept /\ LiveKept
  BY <1>2 DEF UiKept, LiveKept
<1>5. faults' = 0 => faults = 0 /\ job'.kept
  BY <1>2, <1>3 DEF Went, Right
<1>6. Right'
  BY <1>2, <1>3, <1>4, <1>5, StaysRight DEF Went
<1> QED BY <1>1, <1>2, <1>3, <1>6

LEMMA StepMain ==
  ASSUME Inv, UiStep, job.name = "main"
  PROVE  Inv'
<1> DEFINE v == job.to
           r == Must("main", v)
           k == Keep("main", v)
<1>1. TypeOK /\ JobOK /\ Right /\ MainOutline
  <2>1. Outlined
    BY DEF Inv
  <2>2. MainOutline
    BY <2>1 DEF Outlined
  <2> QED BY <2>2 DEF Inv
<1>2. v \in Videos
  BY <1>1 DEF JobOK, IsChoice, Keys, Options, Videos
<1>3. /\ r.op = "main" /\ r.arg = v /\ r.must /\ ~r.rest /\ r.instead = <<>>
      /\ k.op = "keep" /\ k.arg[1] = "main" /\ k.arg[2] = v /\ ~k.must /\ ~k.rest /\ k.instead = <<>>
      /\ IsSave(k)
  BY DEF Must, Keep, OrElse, Request, IsSave
<1>4. job.todo # <<>> /\ ui.prof \in Profiles
  BY <1>1 DEF UiStep, TypeOK, UiType
<1>5. CASE job.todo = <<r, k>> /\ Start /\ AsShown /\ MainChosen
  <2> HIDE DEF r, k
  <2>1. r = Head(job.todo) /\ Tail(job.todo) = <<k>>
    BY <1>5, Explicit
  <2>2. PICK ok \in BOOLEAN :
          /\ Made(r, <<k>>, ok)
          /\ SoundSame /\ SystemSame /\ live'.res = live.res /\ live'.codec = live.codec
          /\ ok => live'.main = v
          /\ ~ok => live' = live \/ belied'
    BY <1>1, <1>2, <1>3, <2>1, MakesMain
  <2>3. LiveKept
    BY <2>2 DEF LiveKept, SoundSame, SystemSame, ServicesSame, ClockSame
  <2>4. TypeOK' /\ JobOK' /\ Right' /\ Went(r, <<k>>, ok) /\ file' = file /\ ui' = ui
    BY <1>1, <1>3, <2>2, <2>3, CallStage
  <2>5. /\ job'.name = "main" /\ job'.to = v /\ (job'.ok <=> ok) /\ job'.kept
        /\ ok => job'.todo = <<k>>
        /\ ~ok => job'.todo = <<>>
        /\ Sure' => Sure
        /\ MainChosen'
    BY <1>3, <1>5, <2>4 DEF Went, Start, Sure, MainChosen
  <2>6. MainOutline'
    BY <1>5, <2>2, <2>4, <2>5 DEF MainOutline, Start, AsShown, AsSaved, Sure, Went, k
  <2> QED BY <2>4, <2>5, <2>6 DEF Inv, Quiet, Doing, Outlined
<1>6. CASE /\ job.todo = <<k>> /\ Start /\ MainChosen
           /\ Sure => /\ live.res = ui.prof /\ live.main = v
                      /\ unsaved \/ live.codec = Attr(file.codec[ui.prof])
  <2> HIDE DEF r, k
  <2>1. k = Head(job.todo) /\ Tail(job.todo) = <<>>
    BY <1>6, Explicit
  <2>2. PICK ok \in BOOLEAN :
          /\ Wrote(k, <<>>, ok) /\ PlainSame({}) /\ file'.codec = file.codec
          /\ \A p \in Profiles \ {ui.prof} : file'.main[p] = file.main[p]
          /\ ok => file'.main[ui.prof] = v
          /\ ~ok => file' = file
          /\ faults' = 0 => ok
    BY <1>1, <1>2, <1>3, <2>1, WriteMain
  <2>3. FileKept
    BY <2>2 DEF FileKept, PlainSame
  <2>4. TypeOK' /\ JobOK' /\ Right' /\ Went(k, <<>>, ok) /\ UNCHANGED <<live, ui, belied>>
    BY <1>1, <1>3, <2>2, <2>3, WriteStage
  <2>5. /\ job'.name = "main" /\ job'.to = v /\ job'.ok /\ (job'.kept <=> ok)
        /\ job'.todo = <<>>
        /\ Sure' = Sure /\ unsaved' = unsaved
    BY <1>3, <1>6, <2>4 DEF Went, Start, Sure
  <2>6. MainOutline'
    BY <1>6, <2>2, <2>4, <2>5 DEF MainOutline, AsShown, AsSaved
  <2> QED BY <2>4, <2>5, <2>6 DEF Inv, Quiet, Doing, Outlined
<1> QED BY <1>1, <1>4, <1>5, <1>6 DEF MainOutline

LEMMA StepCodec ==
  ASSUME Inv, UiStep, job.name = "codec"
  PROVE  Inv'
<1> DEFINE v == job.to
           r == Must("codec", Attr(Parts(v)))
           k1 == Keep("cp", v)
           k2 == Keep("v", Parts(v).v)
           k3 == Keep("p", Parts(v).p)
<1>1. TypeOK /\ JobOK /\ Right /\ CodecOutline
  <2>1. Outlined
    BY DEF Inv
  <2>2. CodecOutline
    BY <2>1 DEF Outlined
  <2> QED BY <2>2 DEF Inv
<1>2. /\ v \in {"H264_HIGH", "H265_MAIN"} /\ Attr(Parts(v)) \in Attrs
      /\ Parts(v).v \in Videos /\ Parts(v).p \in {"MAIN", "HIGH"}
  <2>1. v \in {"H264_HIGH", "H265_MAIN"}
    BY <1>1 DEF JobOK, IsChoice, Keys, Options
  <2> QED BY <2>1 DEF Attr, Parts, Attrs, Videos
<1>3. /\ r.op = "codec" /\ r.arg = Attr(Parts(v)) /\ r.must /\ ~r.rest /\ r.instead = <<>>
      /\ k1.op = "keep" /\ k1.arg[1] = "cp" /\ k1.arg[2] = v /\ ~k1.must /\ ~k1.rest /\ k1.instead = <<>>
      /\ k2.op = "keep" /\ k2.arg[1] = "v" /\ k2.arg[2] = Parts(v).v /\ ~k2.must /\ ~k2.rest
      /\ k2.instead = <<>>
      /\ k3.op = "keep" /\ k3.arg[1] = "p" /\ k3.arg[2] = Parts(v).p /\ ~k3.must /\ ~k3.rest
      /\ k3.instead = <<>>
      /\ IsSave(k1) /\ IsSave(k2) /\ IsSave(k3)
  BY DEF Must, Keep, OrElse, Request, IsSave
<1>4. job.todo # <<>>
  BY DEF UiStep
<1>5. ui.prof \in Profiles /\ file.codec[ui.prof] \in Words
  BY <1>1 DEF TypeOK, UiType, FileType
<1>6. CASE job.todo = <<r, k1, k2, k3>> /\ Start /\ AsShown /\ NameChosen
  <2> HIDE DEF r, k1, k2, k3
  <2>1. r = Head(job.todo) /\ Tail(job.todo) = <<k1, k2, k3>>
    BY <1>6, Explicit
  <2>2. PICK ok \in BOOLEAN :
          /\ Made(r, <<k1, k2, k3>>, ok)
          /\ SoundSame /\ SystemSame /\ live'.res = live.res /\ live'.main = live.main
          /\ ok => live'.codec = Attr(Parts(v))
          /\ ~ok => live' = live \/ belied'
    BY <1>1, <1>2, <1>3, <2>1, MakesCodec
  <2>3. LiveKept
    BY <2>2 DEF LiveKept, SoundSame, SystemSame, ServicesSame, ClockSame
  <2>4. TypeOK' /\ JobOK' /\ Right' /\ Went(r, <<k1, k2, k3>>, ok) /\ file' = file /\ ui' = ui
    BY <1>1, <1>3, <2>2, <2>3, CallStage
  <2>5. /\ job'.name = "codec" /\ job'.to = v /\ (job'.ok <=> ok) /\ job'.kept
        /\ ok => job'.todo = <<k1, k2, k3>>
        /\ ~ok => job'.todo = <<>>
        /\ Sure' => Sure
        /\ NameChosen'
    BY <1>3, <1>6, <2>4 DEF Went, Start, Sure, NameChosen
  <2>6. CodecOutline'
    BY <1>6, <2>2, <2>4, <2>5
       DEF CodecOutline, CodecIn, Start, AsShown, AsSaved, Sure, Went, k1, k2, k3
  <2> QED BY <2>4, <2>5, <2>6 DEF Inv, Quiet, Doing, Outlined
<1>7. CASE job.todo = <<k1, k2, k3>> /\ CodecIn /\ NameChosen
  <2> HIDE DEF r, k1, k2, k3
  <2>1. k1 = Head(job.todo) /\ Tail(job.todo) = <<k2, k3>>
    BY <1>7, Explicit
  <2> DEFINE w == file'.codec[ui.prof]
  <2>0. Word(k1.arg[1], k1.arg[2])
    BY <1>2, <1>3 DEF Word
  <2>2. PICK ok \in BOOLEAN :
          /\ Wrote(k1, <<k2, k3>>, ok) /\ PlainSame({}) /\ file'.main = file.main
          /\ \A p \in Profiles \ {ui.prof} : file'.codec[p] = file.codec[p]
          /\ ok => w = [file.codec[ui.prof] EXCEPT ![k1.arg[1]] = k1.arg[2]]
          /\ ~ok => file' = file
          /\ faults' = 0 => ok
    <3>1. IsSave(k1)
      BY <1>3
    <3> QED BY <1>1, <2>0, <2>1, <3>1, WriteWord
  <2>8. ok => w = [file.codec[ui.prof] EXCEPT !["cp"] = v]
    BY <1>3, <2>2
  <2>3. FileKept
    BY <2>2 DEF FileKept, PlainSame
  <2>4. TypeOK' /\ JobOK' /\ Right' /\ Went(k1, <<k2, k3>>, ok) /\ UNCHANGED <<live, ui, belied>>
    BY <1>1, <1>3, <2>2, <2>3, WriteStage
  <2>5. /\ job'.name = "codec" /\ job'.to = v /\ job'.ok /\ (job'.kept <=> ok)
        /\ ok => job'.todo = <<k2, k3>>
        /\ ~ok => job'.todo = <<>>
        /\ Sure' = Sure /\ unsaved' = unsaved /\ chosen' = chosen /\ (faults' = 0 => faults = 0)
    BY <1>3, <1>7, <2>4 DEF Went, Start, Sure, CodecIn
  <2>7. ok => w.cp = v /\ CodecName(w) = CodecName(file.codec[ui.prof])
    BY <1>5, <2>8 DEF CodecName, Words
  <2>6. CodecOutline'
    BY <1>7, <2>2, <2>4, <2>5, <2>7 DEF CodecOutline, CodecIn, Start, AsShown, AsSaved, NameChosen, k2, k3
  <2> QED BY <2>4, <2>5, <2>6 DEF Inv, Quiet, Doing, Outlined
<1>8. CASE job.todo = <<k2, k3>> /\ CodecIn /\ NameChosen /\ file.codec[ui.prof].cp = v
  <2> HIDE DEF r, k1, k2, k3
  <2>1. k2 = Head(job.todo) /\ Tail(job.todo) = <<k3>>
    BY <1>8, Explicit
  <2> DEFINE w == file'.codec[ui.prof]
  <2>0. Word(k2.arg[1], k2.arg[2])
    BY <1>2, <1>3 DEF Word
  <2>2. PICK ok \in BOOLEAN :
          /\ Wrote(k2, <<k3>>, ok) /\ PlainSame({}) /\ file'.main = file.main
          /\ \A p \in Profiles \ {ui.prof} : file'.codec[p] = file.codec[p]
          /\ ok => w = [file.codec[ui.prof] EXCEPT ![k2.arg[1]] = k2.arg[2]]
          /\ ~ok => file' = file
          /\ faults' = 0 => ok
    <3>1. IsSave(k2)
      BY <1>3
    <3> QED BY <1>1, <2>0, <2>1, <3>1, WriteWord
  <2>8. ok => w = [file.codec[ui.prof] EXCEPT !["v"] = Parts(v).v]
    BY <1>3, <2>2
  <2>3. FileKept
    BY <2>2 DEF FileKept, PlainSame
  <2>4. TypeOK' /\ JobOK' /\ Right' /\ Went(k2, <<k3>>, ok) /\ UNCHANGED <<live, ui, belied>>
    BY <1>1, <1>3, <2>2, <2>3, WriteStage
  <2>5. /\ job'.name = "codec" /\ job'.to = v /\ job'.ok /\ (job'.kept <=> ok)
        /\ ok => job'.todo = <<k3>>
        /\ ~ok => job'.todo = <<>>
        /\ Sure' = Sure /\ unsaved' = unsaved /\ chosen' = chosen /\ (faults' = 0 => faults = 0)
    BY <1>3, <1>8, <2>4 DEF Went, Start, Sure, CodecIn
  <2>7. ok => w.cp = v /\ w.v = Parts(v).v /\ CodecName(w) \in {v, "H264_MAIN"}
    BY <1>2, <1>5, <1>8, <2>8 DEF CodecName, Parts, Words
  <2>6. CodecOutline'
    BY <1>8, <2>2, <2>4, <2>5, <2>7 DEF CodecOutline, CodecIn, Start, AsShown, AsSaved, NameChosen, k3
  <2> QED BY <2>4, <2>5, <2>6 DEF Inv, Quiet, Doing, Outlined
<1>9. CASE job.todo = <<k3>> /\ CodecIn /\ file.codec[ui.prof].cp = v
           /\ file.codec[ui.prof].v = Parts(v).v
           /\ (faults = 0 => CodecName(file.codec[ui.prof]) \in {v, "H264_MAIN"})
  <2> HIDE DEF r, k1, k2, k3
  <2>1. k3 = Head(job.todo) /\ Tail(job.todo) = <<>>
    BY <1>9, Explicit
  <2> DEFINE w == file'.codec[ui.prof]
  <2>0. Word(k3.arg[1], k3.arg[2])
    BY <1>2, <1>3 DEF Word
  <2>2. PICK ok \in BOOLEAN :
          /\ Wrote(k3, <<>>, ok) /\ PlainSame({}) /\ file'.main = file.main
          /\ \A p \in Profiles \ {ui.prof} : file'.codec[p] = file.codec[p]
          /\ ok => w = [file.codec[ui.prof] EXCEPT ![k3.arg[1]] = k3.arg[2]]
          /\ ~ok => file' = file
          /\ faults' = 0 => ok
    <3>1. IsSave(k3)
      BY <1>3
    <3> QED BY <1>1, <2>0, <2>1, <3>1, WriteWord
  <2>8. ok => w = [file.codec[ui.prof] EXCEPT !["p"] = Parts(v).p]
    BY <1>3, <2>2
  <2>3. FileKept
    BY <2>2 DEF FileKept, PlainSame
  <2>4. TypeOK' /\ JobOK' /\ Right' /\ Went(k3, <<>>, ok) /\ UNCHANGED <<live, ui, belied>>
    BY <1>1, <1>3, <2>2, <2>3, WriteStage
  <2>5. /\ job'.name = "codec" /\ job'.to = v /\ job'.ok /\ (job'.kept <=> ok)
        /\ ok => job'.todo = <<>>
        /\ ~ok => job'.todo = <<>>
        /\ Sure' = Sure /\ unsaved' = unsaved /\ chosen' = chosen /\ (faults' = 0 => faults = 0)
    BY <1>3, <1>9, <2>4 DEF Went, Start, Sure, CodecIn
  <2>7. ok => w = Parts(v)
    <3>1. ok => w.cp = v /\ w.v = Parts(v).v /\ w.p = Parts(v).p
      BY <1>5, <1>9, <2>8 DEF Words
    <3>2. w \in Words
      BY <1>5, <2>4 DEF TypeOK, FileType
    <3>3. Parts(v) \in Words /\ Parts(v).cp = v
      BY <1>2 DEF Parts, Words, Videos
    <3> QED BY <3>1, <3>2, <3>3 DEF Words
  <2>6. CodecOutline'
    BY <1>9, <2>2, <2>4, <2>5, <2>7 DEF CodecOutline, CodecIn, Start, AsShown, AsSaved, NameChosen
  <2> QED BY <2>4, <2>5, <2>6 DEF Inv, Quiet, Doing, Outlined
<1> QED BY <1>1, <1>4, <1>6, <1>7, <1>8, <1>9 DEF CodecOutline

(* The lists are made of what a call leaves alone.                          *)
LEMMA ListsStay ==
  ASSUME file' = file, ui' = ui
  PROVE  /\ RecoverMain' = RecoverMain /\ RecoverCodec' = RecoverCodec /\ RecoverSound' = RecoverSound
         /\ Rollback' = Rollback /\ BackMain' = BackMain /\ BackCodec' = BackCodec /\ Settle' = Settle
         /\ \A to : /\ ResMain(to)' = ResMain(to) /\ ResCodec(to)' = ResCodec(to)
                    /\ ResEnd(to)' = ResEnd(to)
                    /\ Orders("res", to)' = Orders("res", to) /\ Primary(to)' = Primary(to)
<1>1. /\ RecoverMain' = RecoverMain /\ RecoverCodec' = RecoverCodec /\ RecoverSound' = RecoverSound
  BY DEF RecoverMain, RecoverCodec, RecoverSound, Encoders
<1>2. Rollback' = Rollback /\ BackMain' = BackMain /\ BackCodec' = BackCodec /\ Settle' = Settle
  BY DEF Rollback, BackMain, BackCodec, Settle
<1>3. ASSUME NEW to
      PROVE  /\ ResMain(to)' = ResMain(to) /\ ResCodec(to)' = ResCodec(to) /\ ResEnd(to)' = ResEnd(to)
             /\ Orders("res", to)' = Orders("res", to) /\ Primary(to)' = Primary(to)
  <2>1. ResMain(to)' = ResMain(to) /\ ResCodec(to)' = ResCodec(to) /\ ResEnd(to)' = ResEnd(to)
    BY <1>2 DEF ResMain, ResCodec, ResEnd, Encoders
  <2>2. Orders("res", to)' = Orders("res", to)
    BY <1>2 DEF Orders, Encoders
  <2>3. Primary(to)' = Primary(to)
    BY DEF Primary, Encoders
  <2> QED BY <2>1, <2>2, <2>3
<1> QED BY <1>1, <1>2, <1>3

LEMMA StepRes ==
  ASSUME Inv, UiStep, job.name = "res"
  PROVE  Inv'
<1> DEFINE v == job.to
           a == Must("start", v)
           b == MustElse("main", file.main[v], Rollback)
           c == MustElse("codec", Attr(file.codec[v]), Rollback)
           d == MustElse("sync", 0, Rollback)
           e == MustElse("audio", ui.audio, Rollback)
           k == Keep("res", v)
           w == May("start", ui.prof)
           x == OrElse("main", file.main[ui.prof], Settle)
           y == OrElse("codec", Attr(file.codec[ui.prof]), Settle)
           z == May("sync", 0)
           t == May("audio", ui.audio)
<1>1. TypeOK /\ JobOK /\ Right /\ ResOutline
  <2>1. Outlined
    BY DEF Inv
  <2>2. ResOutline
    BY <2>1 DEF Outlined
  <2> QED BY <2>2 DEF Inv
<1>2. /\ v \in Profiles /\ ui.prof \in Profiles /\ ui.audio \in Sounds
      /\ \A p \in Profiles : file.main[p] \in Videos /\ Attr(file.codec[p]) \in Attrs
  <2>1. v \in Profiles
    BY <1>1 DEF JobOK, IsChoice, Keys, Options
  <2>2. \A p \in Profiles : file.main[p] \in Videos /\ Attr(file.codec[p]) \in Attrs
    BY <1>1 DEF TypeOK, FileType, Words, Attr, Attrs
  <2> QED BY <1>1, <2>1, <2>2 DEF TypeOK, UiType
<1>3. /\ a.op = "start" /\ a.arg = v /\ a.must /\ ~a.rest /\ a.instead = <<>>
      /\ b.op = "main" /\ b.arg = file.main[v] /\ b.must /\ ~b.rest /\ b.instead = Rollback
      /\ c.op = "codec" /\ c.arg = Attr(file.codec[v]) /\ c.must /\ ~c.rest /\ c.instead = Rollback
      /\ d.op = "sync" /\ d.must /\ ~d.rest /\ d.instead = Rollback
      /\ e.op = "audio" /\ e.arg = ui.audio /\ e.must /\ ~e.rest /\ e.instead = Rollback
      /\ k.op = "keep" /\ k.arg[1] = "res" /\ k.arg[2] = v /\ ~k.must /\ ~k.rest
      /\ k.instead = <<>> /\ IsSave(k)
      /\ w.op = "start" /\ w.arg = ui.prof /\ ~w.must /\ w.rest
      /\ x.op = "main" /\ x.arg = file.main[ui.prof] /\ ~x.must /\ ~x.rest /\ x.instead = Settle
      /\ y.op = "codec" /\ y.arg = Attr(file.codec[ui.prof]) /\ ~y.must /\ ~y.rest
      /\ y.instead = Settle
      /\ z.op = "sync" /\ ~z.must /\ z.rest
      /\ t.op = "audio" /\ t.arg = ui.audio /\ ~t.must /\ t.rest
  BY DEF Must, MustElse, May, Keep, OrElse, Request, IsSave
<1>4. job.todo # <<>>
  BY DEF UiStep
<1>5. /\ Orders("res", v) = <<a>> \o ResMain(v) /\ IsList(ResMain(v))
      /\ ResMain(v) = <<b>> \o ResCodec(v) /\ IsList(ResCodec(v))
      /\ ResCodec(v) = <<c>> \o ResEnd(v) /\ IsList(ResEnd(v))
      /\ ResEnd(v) = <<d, e, k>>
      /\ Rollback = <<w>> \o BackMain /\ IsList(BackMain)
      /\ BackMain = <<x>> \o BackCodec /\ IsList(BackCodec)
      /\ BackCodec = <<y>> \o Settle /\ IsList(Settle)
      /\ Settle = <<z, t>>
  BY CameraLists DEF ResCodec, ResEnd, BackCodec, Settle
<1>10. CASE /\ job.todo = Orders("res", v)
            /\ Start /\ AsShown /\ OldRes
  <2> HIDE DEF a, b, c, d, e, k, w, x, y, z, t
  <2>0. job.todo = <<a>> \o ResMain(v) /\ IsList(ResMain(v))
    BY <1>10, <1>5
  <2>1. a = Head(job.todo) /\ Tail(job.todo) = ResMain(v)
    BY <2>0, PutFirst
  <2>9. a.op = "start" /\ a.arg = v /\ a.arg \in Profiles
    BY <1>2, <1>3
  <2>2. PICK ok \in BOOLEAN :
          /\ Made(a, ResMain(v), ok)
          /\ SoundSame /\ SystemSame
          /\ ok => live'.res = v
          /\ ~ok => live' = live \/ belied'
    BY <1>1, <2>1, <2>9, MakesStart
  <2>3. LiveKept
    BY <2>2 DEF LiveKept, CameraSame, SoundSame, SystemSame, ServicesSame, ClockSame
  <2>4. TypeOK' /\ JobOK' /\ Right' /\ Went(a, ResMain(v), ok) /\ file' = file /\ ui' = ui
    BY <1>1, <1>3, <2>2, <2>3, CallStage
  <2>5. /\ job'.name = "res" /\ job'.to = job.to
        /\ (job'.ok <=> ok) /\ job'.kept
        /\ ok => job'.todo = ResMain(v)
        /\ ~ok => job'.todo = <<>>
        /\ (Sure' => Sure) /\ (faults' = 0 => faults = 0)
        /\ OldRes'
    BY <1>3, <1>10, <2>2, <2>4 DEF Went, Start, Sure, OldRes
  <2>6. ResOutline'
    BY <1>10, <2>2, <2>4, <2>5, ListsStay DEF ResOutline, Start, AsShown, AsSaved, Sure, Went
  <2> QED BY <2>4, <2>5, <2>6 DEF Inv, Quiet, Doing, Outlined
<1>11. CASE /\ job.todo = ResMain(v)
            /\ Start /\ OldRes /\ (Sure => live.res = v)
  <2> HIDE DEF a, b, c, d, e, k, w, x, y, z, t
  <2>0. job.todo = <<b>> \o ResCodec(v) /\ IsList(ResCodec(v))
    BY <1>11, <1>5
  <2>1. b = Head(job.todo) /\ Tail(job.todo) = ResCodec(v)
    BY <2>0, PutFirst
  <2>9. b.op = "main" /\ b.arg = file.main[v] /\ b.arg \in Videos
    BY <1>2, <1>3
  <2>2. PICK ok \in BOOLEAN :
          /\ Made(b, ResCodec(v), ok)
          /\ SoundSame /\ SystemSame /\ live'.res = live.res /\ live'.codec = live.codec
          /\ ok => live'.main = file.main[v]
          /\ ~ok => live' = live \/ belied'
    BY <1>1, <2>1, <2>9, MakesMain
  <2>3. LiveKept
    BY <2>2 DEF LiveKept, CameraSame, SoundSame, SystemSame, ServicesSame, ClockSame
  <2>4. TypeOK' /\ JobOK' /\ Right' /\ Went(b, ResCodec(v), ok) /\ file' = file /\ ui' = ui
    BY <1>1, <1>3, <2>2, <2>3, CallStage
  <2>5. /\ job'.name = "res" /\ job'.to = job.to
        /\ (job'.ok <=> ok) /\ job'.kept
        /\ ok => job'.todo = ResCodec(v)
        /\ ~ok => job'.todo = Rollback
        /\ (Sure' => Sure) /\ (faults' = 0 => faults = 0)
        /\ OldRes'
    BY <1>3, <1>11, <2>2, <2>4 DEF Went, Start, Sure, OldRes
  <2>6. ResOutline'
    BY <1>11, <2>2, <2>4, <2>5, ListsStay DEF ResOutline, Start, Sure, Went
  <2> QED BY <2>4, <2>5, <2>6 DEF Inv, Quiet, Doing, Outlined
<1>12. CASE /\ job.todo = ResCodec(v)
            /\ Start /\ OldRes /\ (Sure => live.res = v /\ live.main = file.main[v])
  <2> HIDE DEF a, b, c, d, e, k, w, x, y, z, t
  <2>0. job.todo = <<c>> \o ResEnd(v) /\ IsList(ResEnd(v))
    BY <1>12, <1>5
  <2>1. c = Head(job.todo) /\ Tail(job.todo) = ResEnd(v)
    BY <2>0, PutFirst
  <2>9. c.op = "codec" /\ c.arg = Attr(file.codec[v]) /\ c.arg \in Attrs
    BY <1>2, <1>3
  <2>2. PICK ok \in BOOLEAN :
          /\ Made(c, ResEnd(v), ok)
          /\ SoundSame /\ SystemSame /\ live'.res = live.res /\ live'.main = live.main
          /\ ok => live'.codec = Attr(file.codec[v])
          /\ ~ok => live' = live \/ belied'
    BY <1>1, <2>1, <2>9, MakesCodec
  <2>3. LiveKept
    BY <2>2 DEF LiveKept, CameraSame, SoundSame, SystemSame, ServicesSame, ClockSame
  <2>4. TypeOK' /\ JobOK' /\ Right' /\ Went(c, ResEnd(v), ok) /\ file' = file /\ ui' = ui
    BY <1>1, <1>3, <2>2, <2>3, CallStage
  <2>5. /\ job'.name = "res" /\ job'.to = job.to
        /\ (job'.ok <=> ok) /\ job'.kept
        /\ ok => job'.todo = ResEnd(v)
        /\ ~ok => job'.todo = Rollback
        /\ (Sure' => Sure) /\ (faults' = 0 => faults = 0)
        /\ OldRes'
    BY <1>3, <1>12, <2>2, <2>4 DEF Went, Start, Sure, OldRes
  <2>6. ResOutline'
    BY <1>12, <2>2, <2>4, <2>5, ListsStay DEF ResOutline, Start, AsSaved, Sure, Went
  <2> QED BY <2>4, <2>5, <2>6 DEF Inv, Quiet, Doing, Outlined
<1>13. CASE /\ job.todo = <<d, e, k>>
            /\ Start /\ OldRes /\ (Sure => live.res = v /\ AsSaved(v))
  <2> HIDE DEF a, b, c, d, e, k, w, x, y, z, t
  <2>1. d = Head(job.todo) /\ Tail(job.todo) = <<e, k>>
    BY <1>13, Explicit
  <2>9. d.op = "sync"
    BY <1>2, <1>3
  <2>2. PICK ok \in BOOLEAN :
          /\ Made(d, <<e, k>>, ok)
          /\ CameraSame /\ SoundSame /\ SystemSame
    BY <1>1, <2>1, <2>9, MakesSync
  <2>3. LiveKept
    BY <2>2 DEF LiveKept, CameraSame, SoundSame, SystemSame, ServicesSame, ClockSame
  <2>4. TypeOK' /\ JobOK' /\ Right' /\ Went(d, <<e, k>>, ok) /\ file' = file /\ ui' = ui
    BY <1>1, <1>3, <2>2, <2>3, CallStage
  <2>5. /\ job'.name = "res" /\ job'.to = job.to
        /\ (job'.ok <=> ok) /\ job'.kept
        /\ ok => job'.todo = <<e, k>>
        /\ ~ok => job'.todo = Rollback
        /\ (Sure' => Sure) /\ (faults' = 0 => faults = 0)
        /\ OldRes'
    BY <1>3, <1>13, <2>2, <2>4 DEF Went, Start, Sure, OldRes
  <2>6. ResOutline'
    BY <1>13, <2>2, <2>4, <2>5, ListsStay DEF ResOutline, Start, AsSaved, Sure, Went, CameraSame, e, k
  <2> QED BY <2>4, <2>5, <2>6 DEF Inv, Quiet, Doing, Outlined
<1>14. CASE /\ job.todo = <<e, k>>
            /\ Start /\ OldRes /\ (Sure => live.res = v /\ AsSaved(v))
  <2> HIDE DEF a, b, c, d, e, k, w, x, y, z, t
  <2>1. e = Head(job.todo) /\ Tail(job.todo) = <<k>>
    BY <1>14, Explicit
  <2>9. e.op = "audio" /\ e.arg = ui.audio /\ e.arg \in Sounds
    BY <1>2, <1>3
  <2>2. PICK ok \in BOOLEAN :
          /\ Made(e, <<k>>, ok)
          /\ CameraSame /\ SystemSame /\ live'.speaker = live.speaker /\ live'.audio \in {live.audio, ui.audio}
    BY <1>1, <2>1, <2>9, MakesAudio
  <2>3. LiveKept
    BY <2>2 DEF LiveKept, CameraSame, SoundSame, SystemSame, ServicesSame, ClockSame
  <2>4. TypeOK' /\ JobOK' /\ Right' /\ Went(e, <<k>>, ok) /\ file' = file /\ ui' = ui
    BY <1>1, <1>3, <2>2, <2>3, CallStage
  <2>5. /\ job'.name = "res" /\ job'.to = job.to
        /\ (job'.ok <=> ok) /\ job'.kept
        /\ ok => job'.todo = <<k>>
        /\ ~ok => job'.todo = Rollback
        /\ (Sure' => Sure) /\ (faults' = 0 => faults = 0)
        /\ OldRes'
    BY <1>3, <1>14, <2>2, <2>4 DEF Went, Start, Sure, OldRes
  <2>6. ResOutline'
    BY <1>14, <2>2, <2>4, <2>5, ListsStay DEF ResOutline, Start, AsSaved, Sure, Went, CameraSame, k
  <2> QED BY <2>4, <2>5, <2>6 DEF Inv, Quiet, Doing, Outlined
<1>15. CASE /\ job.todo = <<k>>
            /\ Start /\ OldRes /\ (Sure => live.res = v /\ AsSaved(v))
  <2> HIDE DEF a, b, c, d, e, k, w, x, y, z, t
  <2>1. k = Head(job.todo) /\ Tail(job.todo) = <<>>
    BY <1>15, Explicit
  <2>0. PlainValue(k.arg[1], k.arg[2])
    BY <1>2, <1>3 DEF PlainValue
  <2>2. PICK ok \in BOOLEAN :
          /\ Wrote(k, <<>>, ok) /\ PlainSame({"res"}) /\ EncodersSame
          /\ ok => file'.res = v
          /\ faults' = 0 => ok
    <3>1. IsSave(k) /\ k.arg[1] = "res" /\ k.arg[2] = v
      BY <1>3
    <3> QED BY <1>1, <2>0, <2>1, <3>1, WritePlain
  <2>3. FileKept
    BY <2>2 DEF FileKept, PlainSame, EncodersSame
  <2>4. TypeOK' /\ JobOK' /\ Right' /\ Went(k, <<>>, ok) /\ UNCHANGED <<live, ui, belied>>
    BY <1>1, <1>3, <2>2, <2>3, WriteStage
  <2>5. /\ job'.name = "res" /\ job'.to = v /\ job'.ok /\ (job'.kept <=> ok)
        /\ job'.todo = <<>> /\ Sure' = Sure
    BY <1>3, <1>15, <2>4 DEF Went, Start, Sure
  <2>6. ResOutline'
    BY <1>15, <2>2, <2>4, <2>5 DEF ResOutline, AsSaved, EncodersSame
  <2> QED BY <2>4, <2>5, <2>6 DEF Inv, Quiet, Doing, Outlined
<1>16. CASE /\ job.todo = Rollback
            /\ ~job.ok /\ OldRes
  <2> HIDE DEF a, b, c, d, e, k, w, x, y, z, t
  <2>0. job.todo = <<w>> \o BackMain /\ IsList(BackMain)
    BY <1>16, <1>5
  <2>1. w = Head(job.todo) /\ Tail(job.todo) = BackMain
    BY <2>0, PutFirst
  <2>9. w.op = "start" /\ w.arg = ui.prof /\ w.arg \in Profiles
    BY <1>2, <1>3
  <2>2. PICK ok \in BOOLEAN :
          /\ Made(w, BackMain, ok)
          /\ SoundSame /\ SystemSame
          /\ ok => live'.res = ui.prof
          /\ ~ok => live' = live \/ belied'
    BY <1>1, <2>1, <2>9, MakesStart
  <2>3. LiveKept
    BY <2>2 DEF LiveKept, CameraSame, SoundSame, SystemSame, ServicesSame, ClockSame
  <2>4. TypeOK' /\ JobOK' /\ Right' /\ Went(w, BackMain, ok) /\ file' = file /\ ui' = ui
    BY <1>1, <1>3, <2>2, <2>3, CallStage
  <2>7. WayBack(w) /\ (~ok => belied')
    <3>1. WayBack(w)
      BY <1>3, <1>16 DEF WayBack
    <3> QED BY <2>2, <3>1 DEF Made
  <2>5. /\ job'.name = "res" /\ job'.to = job.to
        /\ ~job'.ok
        /\ job'.todo = BackMain
        /\ (Sure' => Sure) /\ (faults' = 0 => faults = 0)
        /\ OldRes'
    BY <1>3, <1>16, <2>2, <2>4 DEF Went, Sure, OldRes
  <2>6. ResOutline'
    BY <1>16, <2>2, <2>4, <2>5, <2>7, ListsStay DEF ResOutline, Sure, Went
  <2> QED BY <2>4, <2>5, <2>6 DEF Inv, Quiet, Doing, Outlined
<1>17. CASE /\ job.todo = BackMain
            /\ ~job.ok /\ OldRes /\ (Sure => live.res = ui.prof)
  <2> HIDE DEF a, b, c, d, e, k, w, x, y, z, t
  <2>0. job.todo = <<x>> \o BackCodec /\ IsList(BackCodec)
    BY <1>17, <1>5
  <2>1. x = Head(job.todo) /\ Tail(job.todo) = BackCodec
    BY <2>0, PutFirst
  <2>9. x.op = "main" /\ x.arg = file.main[ui.prof] /\ x.arg \in Videos
    BY <1>2, <1>3
  <2>2. PICK ok \in BOOLEAN :
          /\ Made(x, BackCodec, ok)
          /\ SoundSame /\ SystemSame /\ live'.res = live.res /\ live'.codec = live.codec
          /\ ok => live'.main = file.main[ui.prof]
          /\ ~ok => live' = live \/ belied'
    BY <1>1, <2>1, <2>9, MakesMain
  <2>3. LiveKept
    BY <2>2 DEF LiveKept, CameraSame, SoundSame, SystemSame, ServicesSame, ClockSame
  <2>4. TypeOK' /\ JobOK' /\ Right' /\ Went(x, BackCodec, ok) /\ file' = file /\ ui' = ui
    BY <1>1, <1>3, <2>2, <2>3, CallStage
  <2>7. WayBack(x) /\ (~ok => belied')
    <3>1. WayBack(x)
      BY <1>3, <1>17 DEF WayBack
    <3> QED BY <2>2, <3>1 DEF Made
  <2>5. /\ job'.name = "res" /\ job'.to = job.to
        /\ ~job'.ok
        /\ ok => job'.todo = BackCodec
        /\ ~ok => job'.todo = Settle
        /\ (Sure' => Sure) /\ (faults' = 0 => faults = 0)
        /\ OldRes'
    BY <1>3, <1>17, <2>2, <2>4 DEF Went, Sure, OldRes
  <2>6. ResOutline'
    BY <1>17, <2>2, <2>4, <2>5, <2>7, ListsStay DEF ResOutline, Sure, Went, AsShown
  <2> QED BY <2>4, <2>5, <2>6 DEF Inv, Quiet, Doing, Outlined
<1>18. CASE /\ job.todo = BackCodec
            /\ ~job.ok /\ OldRes /\ (Sure => live.res = ui.prof /\ live.main = file.main[ui.prof])
  <2> HIDE DEF a, b, c, d, e, k, w, x, y, z, t
  <2>0. job.todo = <<y>> \o Settle /\ IsList(Settle)
    BY <1>18, <1>5
  <2>1. y = Head(job.todo) /\ Tail(job.todo) = Settle
    BY <2>0, PutFirst
  <2>9. y.op = "codec" /\ y.arg = Attr(file.codec[ui.prof]) /\ y.arg \in Attrs
    BY <1>2, <1>3
  <2>2. PICK ok \in BOOLEAN :
          /\ Made(y, Settle, ok)
          /\ SoundSame /\ SystemSame /\ live'.res = live.res /\ live'.main = live.main
          /\ ok => live'.codec = Attr(file.codec[ui.prof])
          /\ ~ok => live' = live \/ belied'
    BY <1>1, <2>1, <2>9, MakesCodec
  <2>3. LiveKept
    BY <2>2 DEF LiveKept, CameraSame, SoundSame, SystemSame, ServicesSame, ClockSame
  <2>4. TypeOK' /\ JobOK' /\ Right' /\ Went(y, Settle, ok) /\ file' = file /\ ui' = ui
    BY <1>1, <1>3, <2>2, <2>3, CallStage
  <2>7. WayBack(y) /\ (~ok => belied')
    <3>1. WayBack(y)
      BY <1>3, <1>18 DEF WayBack
    <3> QED BY <2>2, <3>1 DEF Made
  <2>5. /\ job'.name = "res" /\ job'.to = job.to
        /\ ~job'.ok
        /\ job'.todo = Settle
        /\ (Sure' => Sure) /\ (faults' = 0 => faults = 0)
        /\ OldRes'
    BY <1>3, <1>18, <2>2, <2>4 DEF Went, Sure, OldRes
  <2>6. ResOutline'
    BY <1>18, <2>2, <2>4, <2>5, <2>7, ListsStay DEF ResOutline, Sure, Went, AsShown, AsSaved
  <2> QED BY <2>4, <2>5, <2>6 DEF Inv, Quiet, Doing, Outlined
<1>19. CASE /\ job.todo = <<z, t>>
            /\ ~job.ok /\ AsShown /\ OldRes
  <2> HIDE DEF a, b, c, d, e, k, w, x, y, z, t
  <2>1. z = Head(job.todo) /\ Tail(job.todo) = <<t>>
    BY <1>19, Explicit
  <2>9. z.op = "sync"
    BY <1>2, <1>3
  <2>2. PICK ok \in BOOLEAN :
          /\ Made(z, <<t>>, ok)
          /\ CameraSame /\ SoundSame /\ SystemSame
    BY <1>1, <2>1, <2>9, MakesSync
  <2>3. LiveKept
    BY <2>2 DEF LiveKept, CameraSame, SoundSame, SystemSame, ServicesSame, ClockSame
  <2>4. TypeOK' /\ JobOK' /\ Right' /\ Went(z, <<t>>, ok) /\ file' = file /\ ui' = ui
    BY <1>1, <1>3, <2>2, <2>3, CallStage
  <2>5. /\ job'.name = "res" /\ job'.to = job.to
        /\ ~job'.ok
        /\ job'.todo = <<t>>
        /\ (Sure' => Sure) /\ (faults' = 0 => faults = 0)
        /\ OldRes'
    BY <1>3, <1>19, <2>2, <2>4 DEF Went, Sure, OldRes
  <2>6. ResOutline'
    BY <1>19, <2>2, <2>4, <2>5, ListsStay DEF ResOutline, Sure, Went, AsShown, AsSaved, CameraSame, t
  <2> QED BY <2>4, <2>5, <2>6 DEF Inv, Quiet, Doing, Outlined
<1>20. CASE /\ job.todo = <<t>>
            /\ ~job.ok /\ AsShown /\ OldRes
  <2> HIDE DEF a, b, c, d, e, k, w, x, y, z, t
  <2>1. t = Head(job.todo) /\ Tail(job.todo) = <<>>
    BY <1>20, Explicit
  <2>9. t.op = "audio" /\ t.arg = ui.audio /\ t.arg \in Sounds
    BY <1>2, <1>3
  <2>2. PICK ok \in BOOLEAN :
          /\ Made(t, <<>>, ok)
          /\ CameraSame /\ SystemSame /\ live'.speaker = live.speaker /\ live'.audio \in {live.audio, ui.audio}
    BY <1>1, <2>1, <2>9, MakesAudio
  <2>3. LiveKept
    BY <2>2 DEF LiveKept, CameraSame, SoundSame, SystemSame, ServicesSame, ClockSame
  <2>4. TypeOK' /\ JobOK' /\ Right' /\ Went(t, <<>>, ok) /\ file' = file /\ ui' = ui
    BY <1>1, <1>3, <2>2, <2>3, CallStage
  <2>5. /\ job'.name = "res" /\ job'.to = job.to
        /\ ~job'.ok
        /\ job'.todo = <<>>
        /\ (Sure' => Sure) /\ (faults' = 0 => faults = 0)
        /\ OldRes'
    BY <1>3, <1>20, <2>2, <2>4 DEF Went, Sure, OldRes
  <2>6. ResOutline'
    BY <1>20, <2>2, <2>4, <2>5, ListsStay DEF ResOutline, Sure, Went, AsShown, AsSaved, CameraSame
  <2> QED BY <2>4, <2>5, <2>6 DEF Inv, Quiet, Doing, Outlined
<1> QED BY <1>1, <1>4, <1>5, <1>10, <1>11, <1>12, <1>13, <1>14, <1>15, <1>16, <1>17, <1>18, <1>19,
           <1>20 DEF ResOutline

LEMMA StepRecover ==
  ASSUME Inv, UiStep, job.name = "recover"
  PROVE  Inv'
<1> DEFINE a == Must("start", ui.prof)
           b == MustElse("main", file.main[ui.prof], <<>>)
           c == MustElse("codec", Attr(file.codec[ui.prof]), <<>>)
           d == Must("sync", 0)
           e == Must("audio", ui.audio)
<1>1. TypeOK /\ JobOK /\ Right /\ RecoverOutline
  <2>1. Outlined
    BY DEF Inv
  <2>2. RecoverOutline
    BY <2>1 DEF Outlined
  <2> QED BY <2>2 DEF Inv
<1>2. /\ ui.prof \in Profiles /\ ui.audio \in Sounds
      /\ file.main[ui.prof] \in Videos /\ Attr(file.codec[ui.prof]) \in Attrs
  <2>1. ui.prof \in Profiles /\ ui.audio \in Sounds
    BY <1>1 DEF TypeOK, UiType
  <2>2. \A p \in Profiles : file.main[p] \in Videos /\ Attr(file.codec[p]) \in Attrs
    BY <1>1 DEF TypeOK, FileType, Words, Attr, Attrs
  <2> QED BY <2>1, <2>2
<1>3. /\ a.op = "start" /\ a.arg = ui.prof /\ a.must /\ ~a.rest /\ a.instead = <<>>
      /\ b.op = "main" /\ b.arg = file.main[ui.prof] /\ b.must /\ ~b.rest /\ b.instead = <<>>
      /\ c.op = "codec" /\ c.arg = Attr(file.codec[ui.prof]) /\ c.must /\ ~c.rest
      /\ c.instead = <<>>
      /\ d.op = "sync" /\ d.must /\ ~d.rest /\ d.instead = <<>>
      /\ e.op = "audio" /\ e.arg = ui.audio /\ e.must /\ ~e.rest /\ e.instead = <<>>
  BY DEF Must, MustElse, Request
<1>4. job.todo # <<>>
  BY DEF UiStep
<1>5. /\ Primary(ui.prof) = <<a>> \o RecoverMain /\ IsList(RecoverMain)
      /\ RecoverMain = <<b>> \o RecoverCodec /\ IsList(RecoverCodec)
      /\ RecoverCodec = <<c>> \o RecoverSound /\ IsList(RecoverSound)
      /\ RecoverSound = <<d, e>>
  BY CameraLists DEF RecoverCodec, RecoverSound
<1>6. job.kept /\ ~unsaved
  BY <1>1 DEF RecoverOutline
<1>10. CASE /\ job.todo = Primary(ui.prof)
            /\ TRUE
  <2> HIDE DEF a, b, c, d, e
  <2>0. job.todo = <<a>> \o RecoverMain /\ IsList(RecoverMain)
    BY <1>10, <1>5
  <2>1. a = Head(job.todo) /\ Tail(job.todo) = RecoverMain
    BY <2>0, PutFirst
  <2>9. a.op = "start" /\ a.arg = ui.prof /\ a.arg \in Profiles
    BY <1>2, <1>3
  <2>2. PICK ok \in BOOLEAN :
          /\ Made(a, RecoverMain, ok)
          /\ SoundSame /\ SystemSame
          /\ ok => live'.res = ui.prof
          /\ ~ok => live' = live \/ belied'
    BY <1>1, <2>1, <2>9, MakesStart
  <2>3. LiveKept
    BY <2>2 DEF LiveKept, CameraSame, SoundSame, SystemSame, ServicesSame, ClockSame
  <2>4. TypeOK' /\ JobOK' /\ Right' /\ Went(a, RecoverMain, ok) /\ file' = file /\ ui' = ui
    BY <1>1, <1>3, <2>2, <2>3, CallStage
  <2>5. /\ job'.name = "recover" /\ job'.to = job.to
        /\ (job'.ok => job.ok /\ ok) /\ job'.kept /\ ~unsaved' /\ (Well' => Well)
        /\ ok => job'.todo = RecoverMain
        /\ ~ok => job'.todo = <<>> /\ ~job'.ok
    BY <1>3, <1>6, <2>4 DEF Went, Well
  <2>6. RecoverOutline'
    BY <1>10, <2>2, <2>4, <2>5, ListsStay DEF RecoverOutline, StartedIt, CameraSet, Well
  <2> QED BY <2>4, <2>5, <2>6 DEF Inv, Quiet, Doing, Outlined
<1>11. CASE /\ job.todo = RecoverMain
            /\ StartedIt(ui.prof)
  <2> HIDE DEF a, b, c, d, e
  <2>0. job.todo = <<b>> \o RecoverCodec /\ IsList(RecoverCodec)
    BY <1>11, <1>5
  <2>1. b = Head(job.todo) /\ Tail(job.todo) = RecoverCodec
    BY <2>0, PutFirst
  <2>9. b.op = "main" /\ b.arg = file.main[ui.prof] /\ b.arg \in Videos
    BY <1>2, <1>3
  <2>2. PICK ok \in BOOLEAN :
          /\ Made(b, RecoverCodec, ok)
          /\ SoundSame /\ SystemSame /\ live'.res = live.res /\ live'.codec = live.codec
          /\ ok => live'.main = file.main[ui.prof]
          /\ ~ok => live' = live \/ belied'
    BY <1>1, <2>1, <2>9, MakesMain
  <2>3. LiveKept
    BY <2>2 DEF LiveKept, CameraSame, SoundSame, SystemSame, ServicesSame, ClockSame
  <2>4. TypeOK' /\ JobOK' /\ Right' /\ Went(b, RecoverCodec, ok) /\ file' = file /\ ui' = ui
    BY <1>1, <1>3, <2>2, <2>3, CallStage
  <2>5. /\ job'.name = "recover" /\ job'.to = job.to
        /\ (job'.ok => job.ok /\ ok) /\ job'.kept /\ ~unsaved' /\ (Well' => Well)
        /\ ok => job'.todo = RecoverCodec
        /\ ~ok => job'.todo = <<>> /\ ~job'.ok
    BY <1>3, <1>6, <2>4 DEF Went, Well
  <2>6. RecoverOutline'
    BY <1>11, <2>2, <2>4, <2>5, ListsStay DEF RecoverOutline, StartedIt, StillSet, CameraSet, Well
  <2> QED BY <2>4, <2>5, <2>6 DEF Inv, Quiet, Doing, Outlined
<1>12. CASE /\ job.todo = RecoverCodec
            /\ StillSet(ui.prof)
  <2> HIDE DEF a, b, c, d, e
  <2>0. job.todo = <<c>> \o RecoverSound /\ IsList(RecoverSound)
    BY <1>12, <1>5
  <2>1. c = Head(job.todo) /\ Tail(job.todo) = RecoverSound
    BY <2>0, PutFirst
  <2>9. c.op = "codec" /\ c.arg = Attr(file.codec[ui.prof]) /\ c.arg \in Attrs
    BY <1>2, <1>3
  <2>2. PICK ok \in BOOLEAN :
          /\ Made(c, RecoverSound, ok)
          /\ SoundSame /\ SystemSame /\ live'.res = live.res /\ live'.main = live.main
          /\ ok => live'.codec = Attr(file.codec[ui.prof])
          /\ ~ok => live' = live \/ belied'
    BY <1>1, <2>1, <2>9, MakesCodec
  <2>3. LiveKept
    BY <2>2 DEF LiveKept, CameraSame, SoundSame, SystemSame, ServicesSame, ClockSame
  <2>4. TypeOK' /\ JobOK' /\ Right' /\ Went(c, RecoverSound, ok) /\ file' = file /\ ui' = ui
    BY <1>1, <1>3, <2>2, <2>3, CallStage
  <2>5. /\ job'.name = "recover" /\ job'.to = job.to
        /\ (job'.ok => job.ok /\ ok) /\ job'.kept /\ ~unsaved' /\ (Well' => Well)
        /\ ok => job'.todo = RecoverSound
        /\ ~ok => job'.todo = <<>> /\ ~job'.ok
    BY <1>3, <1>6, <2>4 DEF Went, Well
  <2>6. RecoverOutline'
    BY <1>12, <2>2, <2>4, <2>5, ListsStay DEF RecoverOutline, StillSet, CameraSet, AsSaved, Well
  <2> QED BY <2>4, <2>5, <2>6 DEF Inv, Quiet, Doing, Outlined
<1>13. CASE /\ job.todo = <<d, e>>
            /\ CameraSet(ui.prof)
  <2> HIDE DEF a, b, c, d, e
  <2>1. d = Head(job.todo) /\ Tail(job.todo) = <<e>>
    BY <1>13, Explicit
  <2>9. d.op = "sync"
    BY <1>2, <1>3
  <2>2. PICK ok \in BOOLEAN :
          /\ Made(d, <<e>>, ok)
          /\ CameraSame /\ SoundSame /\ SystemSame
    BY <1>1, <2>1, <2>9, MakesSync
  <2>3. LiveKept
    BY <2>2 DEF LiveKept, CameraSame, SoundSame, SystemSame, ServicesSame, ClockSame
  <2>4. TypeOK' /\ JobOK' /\ Right' /\ Went(d, <<e>>, ok) /\ file' = file /\ ui' = ui
    BY <1>1, <1>3, <2>2, <2>3, CallStage
  <2>5. /\ job'.name = "recover" /\ job'.to = job.to
        /\ (job'.ok => job.ok /\ ok) /\ job'.kept /\ ~unsaved' /\ (Well' => Well)
        /\ ok => job'.todo = <<e>>
        /\ ~ok => job'.todo = <<>> /\ ~job'.ok
    BY <1>3, <1>6, <2>4 DEF Went, Well
  <2>6. RecoverOutline'
    BY <1>13, <2>2, <2>4, <2>5, ListsStay DEF RecoverOutline, CameraSet, AsSaved, CameraSame, e, Well
  <2> QED BY <2>4, <2>5, <2>6 DEF Inv, Quiet, Doing, Outlined
<1>14. CASE /\ job.todo = <<e>>
            /\ CameraSet(ui.prof)
  <2> HIDE DEF a, b, c, d, e
  <2>1. e = Head(job.todo) /\ Tail(job.todo) = <<>>
    BY <1>14, Explicit
  <2>9. e.op = "audio" /\ e.arg = ui.audio /\ e.arg \in Sounds
    BY <1>2, <1>3
  <2>2. PICK ok \in BOOLEAN :
          /\ Made(e, <<>>, ok)
          /\ CameraSame /\ SystemSame /\ live'.speaker = live.speaker /\ live'.audio \in {live.audio, ui.audio}
    BY <1>1, <2>1, <2>9, MakesAudio
  <2>3. LiveKept
    BY <2>2 DEF LiveKept, CameraSame, SoundSame, SystemSame, ServicesSame, ClockSame
  <2>4. TypeOK' /\ JobOK' /\ Right' /\ Went(e, <<>>, ok) /\ file' = file /\ ui' = ui
    BY <1>1, <1>3, <2>2, <2>3, CallStage
  <2>5. /\ job'.name = "recover" /\ job'.to = job.to
        /\ (job'.ok => job.ok /\ ok) /\ job'.kept /\ ~unsaved' /\ (Well' => Well)
        /\ ok => job'.todo = <<>>
        /\ ~ok => job'.todo = <<>> /\ ~job'.ok
    BY <1>3, <1>6, <2>4 DEF Went, Well
  <2>6. RecoverOutline'
    BY <1>14, <2>2, <2>4, <2>5, ListsStay DEF RecoverOutline, CameraSet, AsSaved, CameraSame, Well
  <2> QED BY <2>4, <2>5, <2>6 DEF Inv, Quiet, Doing, Outlined
<1> QED BY <1>1, <1>4, <1>5, <1>10, <1>11, <1>12, <1>13, <1>14 DEF RecoverOutline

BootSame ==
  /\ EncodersSame /\ file'.res = file.res /\ file'.wifi = file.wifi
  /\ file'.speaker = file.speaker /\ file'.audio = file.audio
LEMMA BootStays ==
  /\ BootSame => /\ Speak' = Speak /\ BootLast' = BootLast /\ BootSound' = BootSound
                 /\ BootApply' = BootApply /\ BootCodec' = BootCodec /\ BootMain' = BootMain
                 /\ BootGraph' = BootGraph /\ BootRtc' = BootRtc
  /\ file' = file => /\ BootSame /\ BootSave' = BootSave /\ BootClock' = BootClock
                     /\ RestoreRtc' = RestoreRtc /\ Restore' = Restore
<1>1. ASSUME BootSame
      PROVE  /\ Speak' = Speak /\ BootLast' = BootLast /\ BootSound' = BootSound
             /\ BootApply' = BootApply /\ BootCodec' = BootCodec /\ BootMain' = BootMain
             /\ BootGraph' = BootGraph /\ BootRtc' = BootRtc
  <2>1. LoadSpeaker' = LoadSpeaker /\ LoadAudio' = LoadAudio
    BY <1>1 DEF BootSame, LoadSpeaker, LoadAudio
  <2>2. Speak' = Speak /\ BootLast' = BootLast
    BY <1>1, <2>1 DEF BootSame, Speak, BootLast, If
  <2>3. BootSound' = BootSound /\ BootApply' = BootApply
    BY <2>1, <2>2 DEF BootSound, BootApply
  <2>4. BootCodec' = BootCodec
    BY <1>1, <2>3 DEF BootSame, EncodersSame, BootCodec
  <2>5. BootMain' = BootMain
    BY <1>1, <2>3 DEF BootSame, EncodersSame, BootMain, Encoders
  <2>6. BootGraph' = BootGraph
    BY <1>1, <2>2, <2>3 DEF BootSame, EncodersSame, BootGraph, Encoders
  <2>7. BootRtc' = BootRtc
    BY <2>6 DEF BootRtc
  <2> QED BY <2>2, <2>3, <2>4, <2>5, <2>6, <2>7
<1>2. ASSUME file' = file
      PROVE  /\ BootSame /\ BootSave' = BootSave /\ BootClock' = BootClock
             /\ RestoreRtc' = RestoreRtc /\ Restore' = Restore
  <2>1. BootSame
    BY <1>2 DEF BootSame, EncodersSame
  <2>2. BootGraph' = BootGraph /\ BootRtc' = BootRtc
    BY <1>1, <2>1
  <2>3. BootSave' = BootSave
    BY <2>2 DEF BootSave
  <2>4. BootClock' = BootClock
    BY <1>2, <2>2 DEF BootClock, If
  <2>5. RestoreRtc' = RestoreRtc
    BY <2>4 DEF RestoreRtc
  <2>6. Restore' = Restore
    BY <1>2, <2>5 DEF Restore
  <2> QED BY <2>1, <2>3, <2>4, <2>5, <2>6
<1> QED BY <1>1, <1>2

LEMMA StepBoot ==
  ASSUME Inv, UiStep, job.name = "boot"
  PROVE  Inv'
<1> DEFINE sz == May("zone", file.zone)
           sc == May("clock", file.floor)
           sr == May("rtc", 0)
           sa == May("auto", 1)
           ss == OrElse("save", <<"floor", 0>>, BootGraph)
           sg == MustElse("start", file.res, BootLast)
           sm == MustElse("main", file.main[file.res], BootApply)
           sk == MustElse("codec", Attr(file.codec[file.res]), BootApply)
           sy == May("sync", 0)
           sd == May("audio", LoadAudio)
           sw == May("wifi", 1)
           sp == May("speaker", LoadSpeaker)
<1>1. TypeOK /\ JobOK /\ Right /\ BootOutline
  <2>1. Outlined
    BY DEF Inv
  <2>2. BootOutline
    BY <2>1 DEF Outlined
  <2> QED BY <2>2 DEF Inv
<1>2. /\ file.zone \in Zones /\ file.floor \in Nat /\ 1 \in Bit /\ file.res \in Profiles
      /\ file.auto \in Bit /\ file.wifi \in Bit /\ live.clock \in Nat
      /\ LoadAudio \in Sounds /\ LoadSpeaker \in {50, 100}
      /\ file.main[file.res] \in Videos /\ Attr(file.codec[file.res]) \in Attrs
  <2>1. /\ file.zone \in Zones /\ file.floor \in Nat /\ 1 \in Bit /\ file.res \in Profiles
        /\ file.auto \in Bit /\ file.wifi \in Bit /\ live.clock \in Nat
    BY <1>1 DEF TypeOK, FileType, LiveType, Bit
  <2>2. \A p \in Profiles : file.main[p] \in Videos /\ Attr(file.codec[p]) \in Attrs
    BY <1>1 DEF TypeOK, FileType, Words, Attr, Attrs
  <2>3. LoadAudio \in Sounds /\ LoadSpeaker \in {50, 100}
    BY <1>1 DEF TypeOK, FileType, LoadAudio, LoadSpeaker, Sounds
  <2> QED BY <2>1, <2>2, <2>3
<1>3. /\ sz.op = "zone" /\ sz.arg = file.zone /\ ~sz.must /\ sz.rest
      /\ sc.op = "clock" /\ sc.arg = file.floor /\ ~sc.must /\ sc.rest
      /\ sr.op = "rtc" /\ ~sr.must /\ sr.rest
      /\ sa.op = "auto" /\ sa.arg = 1 /\ ~sa.must /\ sa.rest
      /\ ss.op = "save" /\ ss.arg = <<"floor", 0>> /\ ~ss.must /\ ~ss.rest /\ ss.instead = BootGraph
      /\ IsSave(ss)
      /\ sg.op = "start" /\ sg.arg = file.res /\ sg.must /\ ~sg.rest /\ sg.instead = BootLast
      /\ sm.op = "main" /\ sm.arg = file.main[file.res] /\ sm.must /\ ~sm.rest
      /\ sm.instead = BootApply
      /\ sk.op = "codec" /\ sk.arg = Attr(file.codec[file.res]) /\ sk.must /\ ~sk.rest
      /\ sk.instead = BootApply
      /\ sy.op = "sync" /\ ~sy.must /\ sy.rest
      /\ sd.op = "audio" /\ sd.arg = LoadAudio /\ ~sd.must /\ sd.rest
      /\ sw.op = "wifi" /\ sw.arg = 1 /\ ~sw.must /\ sw.rest
      /\ sp.op = "speaker" /\ sp.arg = LoadSpeaker /\ ~sp.must /\ sp.rest
  BY DEF MustElse, May, OrElse, Request, IsSave
<1>4. job.todo # <<>>
  BY DEF UiStep
<1>5. /\ Restore = <<sc>> \o RestoreRtc /\ IsList(Restore)
      /\ RestoreRtc = <<sr>> \o BootClock /\ IsList(RestoreRtc)
      /\ IsList(BootClock) /\ IsList(BootSave)
      /\ BootSave = <<ss>> \o BootRtc /\ IsList(BootRtc)
      /\ BootRtc = <<sr>> \o BootGraph /\ IsList(BootGraph)
      /\ BootGraph = <<sg>> \o BootMain /\ IsList(BootMain)
      /\ BootMain = <<sm>> \o BootCodec /\ IsList(BootCodec)
      /\ BootCodec = <<sk>> \o BootApply /\ IsList(BootApply)
      /\ BootApply = <<sy>> \o BootSound /\ IsList(BootSound)
      /\ BootSound = <<sd>> \o BootLast /\ IsList(BootLast)
      /\ IsList(Speak) /\ Speak = <<sp>> \o <<>> /\ IsList(<<>>)
      /\ file.wifi = 1 => BootLast = <<sw>> \o Speak
      /\ file.wifi # 1 => BootLast = Speak
      /\ file.auto = 1 => BootClock = <<sa>> \o BootSave
      /\ file.auto # 1 => BootClock = BootSave
  <2>1. IsList(<<>>) /\ IsList(<<sp>>)
    BY Explicit
  <2>2. <<sp>> \o <<>> = <<sp>>
    BY <2>1, ConcatEmptySeq DEF IsList
  <2> QED BY <2>1, <2>2, BootLists DEF Restore, RestoreRtc, BootSave, BootRtc, BootCodec, BootSound, Speak
<1>6. job.kept /\ ~unsaved /\ ui.prof = file.res
  BY <1>1 DEF BootOutline
<1>7. faults = 0 =>
        /\ FloorRight /\ live.auto \in {0, file.auto} /\ live.wifi \in {0, file.wifi}
  BY <1>1 DEF Right, TimeRight, AutoRight, WifiRight, Doing
<1>8. /\ chosen.clock \subseteq Nat
      /\ faults = 0 /\ live.clock >= file.floor => ClockRight
  <2>1. chosen.clock \subseteq Nat
    BY <1>1 DEF TypeOK, ChosenType
  <2> QED BY <1>2, <1>7, <2>1 DEF FloorRight, ClockRight
<1>10. CASE /\ job.todo = <<sz>> \o Restore
            /\ faults = 0 => AudioLater
  <2> HIDE DEF sz, sc, sr, sa, ss, sg, sm, sk, sy, sd, sw, sp
  <2>0. job.todo = <<sz>> \o Restore /\ IsList(Restore)
    BY <1>10, <1>5
  <2>1. sz = Head(job.todo) /\ Tail(job.todo) = Restore
    BY <2>0, PutFirst
  <2>9. sz.op = "zone" /\ sz.arg = file.zone /\ sz.arg \in Zones
    BY <1>2, <1>3
  <2>2. PICK ok \in BOOLEAN :
          /\ Made(sz, Restore, ok)
          /\ CameraSame /\ SoundSame /\ ClockSame /\ live'.auto = live.auto /\ live'.wifi = live.wifi
          /\ ok => live'.zone = file.zone
          /\ faults' = 0 => ok
    BY <1>1, <2>1, <2>9, MakesZone
  <2>3. LiveKept
    BY <2>2 DEF LiveKept, CameraSame, SoundSame, SystemSame, ServicesSame, ClockSame
  <2>4. TypeOK' /\ JobOK' /\ Right' /\ Went(sz, Restore, ok) /\ file' = file
    BY <1>1, <2>2, <2>3, <2>9, CallStage
  <2>5. /\ job'.name = "boot" /\ job'.kept /\ ~unsaved' /\ ui'.prof = file'.res
        /\ belied' \in BOOLEAN /\ (belied => belied') /\ chosen' = chosen /\ (faults' = 0 => faults = 0)
        /\ (job'.ok <=> job.ok) /\ job'.todo = Restore
    BY <1>3, <1>6, <2>4 DEF Went
  <2>7. /\ TRUE
        /\ faults' = 0 => AudioLater'
        /\ faults' = 0 => live'.zone = file'.zone
    BY <1>1, <1>2, <1>10, <2>2, <2>4, <2>5 DEF AudioLater, LoadAudio, ClockRight, FloorRight, CameraSame, SoundSame, ClockSame, SystemSame, ServicesSame, LoadSpeaker
  <2>6. BootOutline'
    BY <1>10, <2>2, <2>4, <2>5, <2>7, BootStays
       DEF BootOutline, CameraSame
  <2> QED BY <2>4, <2>5, <2>6 DEF Inv, Quiet, Doing, Outlined
<1>11. CASE /\ job.todo = <<sz>> \o BootClock
            /\ faults = 0 => AudioLater
            /\ faults = 0 => live.clock >= file.floor
  <2> HIDE DEF sz, sc, sr, sa, ss, sg, sm, sk, sy, sd, sw, sp
  <2>0. job.todo = <<sz>> \o BootClock /\ IsList(BootClock)
    BY <1>11, <1>5
  <2>1. sz = Head(job.todo) /\ Tail(job.todo) = BootClock
    BY <2>0, PutFirst
  <2>9. sz.op = "zone" /\ sz.arg = file.zone /\ sz.arg \in Zones
    BY <1>2, <1>3
  <2>2. PICK ok \in BOOLEAN :
          /\ Made(sz, BootClock, ok)
          /\ CameraSame /\ SoundSame /\ ClockSame /\ live'.auto = live.auto /\ live'.wifi = live.wifi
          /\ ok => live'.zone = file.zone
          /\ faults' = 0 => ok
    BY <1>1, <2>1, <2>9, MakesZone
  <2>3. LiveKept
    BY <2>2 DEF LiveKept, CameraSame, SoundSame, SystemSame, ServicesSame, ClockSame
  <2>4. TypeOK' /\ JobOK' /\ Right' /\ Went(sz, BootClock, ok) /\ file' = file
    BY <1>1, <2>2, <2>3, <2>9, CallStage
  <2>5. /\ job'.name = "boot" /\ job'.kept /\ ~unsaved' /\ ui'.prof = file'.res
        /\ belied' \in BOOLEAN /\ (belied => belied') /\ chosen' = chosen /\ (faults' = 0 => faults = 0)
        /\ (job'.ok <=> job.ok) /\ job'.todo = BootClock
    BY <1>3, <1>6, <2>4 DEF Went
  <2>7. /\ TRUE
        /\ faults' = 0 => AudioLater'
        /\ faults' = 0 => live'.zone = file'.zone
        /\ faults' = 0 => ClockRight'
    BY <1>1, <1>2, <1>8, <1>11, <2>2, <2>4, <2>5 DEF AudioLater, LoadAudio, ClockRight, FloorRight, CameraSame, SoundSame, ClockSame, SystemSame, ServicesSame, LoadSpeaker
  <2>6. BootOutline'
    BY <1>11, <2>2, <2>4, <2>5, <2>7, BootStays
       DEF BootOutline, CameraSame
  <2> QED BY <2>4, <2>5, <2>6 DEF Inv, Quiet, Doing, Outlined
<1>12. CASE /\ job.todo = Restore
            /\ faults = 0 => AudioLater
            /\ faults = 0 => live.zone = file.zone
  <2> HIDE DEF sz, sc, sr, sa, ss, sg, sm, sk, sy, sd, sw, sp
  <2>0. job.todo = <<sc>> \o RestoreRtc /\ IsList(RestoreRtc)
    BY <1>12, <1>5
  <2>1. sc = Head(job.todo) /\ Tail(job.todo) = RestoreRtc
    BY <2>0, PutFirst
  <2>9. sc.op = "clock" /\ sc.arg = file.floor /\ sc.arg \in Nat
    BY <1>2, <1>3
  <2>2. PICK ok \in BOOLEAN :
          /\ Made(sc, RestoreRtc, ok)
          /\ CameraSame /\ SoundSame /\ ServicesSame
          /\ ok => live'.clock = file.floor
          /\ faults' = 0 => ok
    BY <1>1, <2>1, <2>9, MakesClock
  <2>3. LiveKept
    BY <2>2 DEF LiveKept, CameraSame, SoundSame, SystemSame, ServicesSame, ClockSame
  <2>4. TypeOK' /\ JobOK' /\ Right' /\ Went(sc, RestoreRtc, ok) /\ file' = file
    BY <1>1, <2>2, <2>3, <2>9, CallStage
  <2>5. /\ job'.name = "boot" /\ job'.kept /\ ~unsaved' /\ ui'.prof = file'.res
        /\ belied' \in BOOLEAN /\ (belied => belied') /\ chosen' = chosen /\ (faults' = 0 => faults = 0)
        /\ (job'.ok <=> job.ok) /\ job'.todo = RestoreRtc
    BY <1>3, <1>6, <2>4 DEF Went
  <2>7. /\ TRUE
        /\ faults' = 0 => AudioLater'
        /\ faults' = 0 => live'.zone = file'.zone
        /\ faults' = 0 => ClockRight'
    BY <1>1, <1>2, <1>7, <1>12, <2>2, <2>4, <2>5 DEF AudioLater, LoadAudio, ClockRight, FloorRight, CameraSame, SoundSame, ClockSame, SystemSame, ServicesSame, LoadSpeaker
  <2>6. BootOutline'
    BY <1>12, <2>2, <2>4, <2>5, <2>7, BootStays
       DEF BootOutline, CameraSame
  <2> QED BY <2>4, <2>5, <2>6 DEF Inv, Quiet, Doing, Outlined
<1>13. CASE /\ job.todo = RestoreRtc
            /\ faults = 0 => AudioLater
            /\ faults = 0 => live.zone = file.zone
            /\ faults = 0 => ClockRight
  <2> HIDE DEF sz, sc, sr, sa, ss, sg, sm, sk, sy, sd, sw, sp
  <2>0. job.todo = <<sr>> \o BootClock /\ IsList(BootClock)
    BY <1>13, <1>5
  <2>1. sr = Head(job.todo) /\ Tail(job.todo) = BootClock
    BY <2>0, PutFirst
  <2>9. sr.op = "rtc"
    BY <1>2, <1>3
  <2>2. PICK ok \in BOOLEAN :
          /\ Made(sr, BootClock, ok)
          /\ CameraSame /\ SoundSame /\ SystemSame
          /\ faults' = 0 => ok
    BY <1>1, <2>1, <2>9, MakesRtc
  <2>3. LiveKept
    BY <2>2 DEF LiveKept, CameraSame, SoundSame, SystemSame, ServicesSame, ClockSame
  <2>4. TypeOK' /\ JobOK' /\ Right' /\ Went(sr, BootClock, ok) /\ file' = file
    BY <1>1, <2>2, <2>3, <2>9, CallStage
  <2>5. /\ job'.name = "boot" /\ job'.kept /\ ~unsaved' /\ ui'.prof = file'.res
        /\ belied' \in BOOLEAN /\ (belied => belied') /\ chosen' = chosen /\ (faults' = 0 => faults = 0)
        /\ (job'.ok <=> job.ok) /\ job'.todo = BootClock
    BY <1>3, <1>6, <2>4 DEF Went
  <2>7. /\ TRUE
        /\ faults' = 0 => AudioLater'
        /\ faults' = 0 => live'.zone = file'.zone
        /\ faults' = 0 => ClockRight'
    BY <1>1, <1>2, <1>13, <2>2, <2>4, <2>5 DEF AudioLater, LoadAudio, ClockRight, FloorRight, CameraSame, SoundSame, ClockSame, SystemSame, ServicesSame, LoadSpeaker
  <2>6. BootOutline'
    BY <1>13, <2>2, <2>4, <2>5, <2>7, BootStays
       DEF BootOutline, CameraSame
  <2> QED BY <2>4, <2>5, <2>6 DEF Inv, Quiet, Doing, Outlined
<1>14. CASE /\ job.todo = BootClock
            /\ file.auto = 1
            /\ faults = 0 => AudioLater
            /\ faults = 0 => live.zone = file.zone
            /\ faults = 0 => ClockRight
  <2> HIDE DEF sz, sc, sr, sa, ss, sg, sm, sk, sy, sd, sw, sp
  <2>0. job.todo = <<sa>> \o BootSave /\ IsList(BootSave)
    BY <1>14, <1>5
  <2>1. sa = Head(job.todo) /\ Tail(job.todo) = BootSave
    BY <2>0, PutFirst
  <2>9. sa.op = "auto" /\ sa.arg = 1 /\ sa.arg \in Bit
    BY <1>2, <1>3
  <2>2. PICK ok \in BOOLEAN :
          /\ Made(sa, BootSave, ok)
          /\ CameraSame /\ SoundSame /\ ClockSame /\ live'.zone = live.zone /\ live'.wifi = live.wifi
          /\ live'.auto \in {live.auto, 1} /\ (ok => live'.auto = 1)
          /\ faults' = 0 => ok
    BY <1>1, <2>1, <2>9, MakesAuto
  <2>3. LiveKept
    BY <1>2, <1>14, <2>2 DEF LiveKept, CameraSame, SoundSame, SystemSame, ServicesSame, ClockSame
  <2>4. TypeOK' /\ JobOK' /\ Right' /\ Went(sa, BootSave, ok) /\ file' = file
    BY <1>1, <2>2, <2>3, <2>9, CallStage
  <2>5. /\ job'.name = "boot" /\ job'.kept /\ ~unsaved' /\ ui'.prof = file'.res
        /\ belied' \in BOOLEAN /\ (belied => belied') /\ chosen' = chosen /\ (faults' = 0 => faults = 0)
        /\ (job'.ok <=> job.ok) /\ job'.todo = BootSave
    BY <1>3, <1>6, <2>4 DEF Went
  <2>7. /\ TRUE
        /\ faults' = 0 => AudioLater'
        /\ faults' = 0 => live'.zone = file'.zone
        /\ faults' = 0 => ClockRight'
        /\ faults' = 0 => live'.auto = file'.auto
    BY <1>1, <1>2, <1>14, <2>2, <2>4, <2>5 DEF AudioLater, LoadAudio, ClockRight, FloorRight, CameraSame, SoundSame, ClockSame, SystemSame, ServicesSame, LoadSpeaker
  <2>6. BootOutline'
    BY <1>14, <2>2, <2>4, <2>5, <2>7, BootStays
       DEF BootOutline, CameraSame
  <2> QED BY <2>4, <2>5, <2>6 DEF Inv, Quiet, Doing, Outlined
<1>15. CASE /\ job.todo = BootSave
            /\ faults = 0 => AudioLater
            /\ faults = 0 => live.zone = file.zone
            /\ faults = 0 => ClockRight
            /\ faults = 0 => live.auto = file.auto
  <2> HIDE DEF sz, sc, sr, sa, ss, sg, sm, sk, sy, sd, sw, sp
  <2>0. job.todo = <<ss>> \o BootRtc /\ IsList(BootRtc)
    BY <1>15, <1>5
  <2>1. ss = Head(job.todo) /\ Tail(job.todo) = BootRtc
    BY <2>0, PutFirst
  <2>9. IsSave(ss) /\ ss.arg = <<"floor", 0>>
    BY <1>3
  <2>2. PICK ok \in BOOLEAN :
          /\ Wrote(ss, BootRtc, ok) /\ PlainSame({"floor"}) /\ EncodersSame
          /\ ok => file'.floor = live.clock
          /\ ~ok => file' = file
          /\ faults' = 0 => ok \/ live.clock = 0
    BY <1>1, <2>1, <2>9, WriteFloor
  <2>3. faults' = 0 => faults = 0 /\ chosen' = chosen
    BY <2>2 DEF Wrote, Steps
  <2>8. FileKept
    <3>1. faults' = 0 => FloorRight'
      BY <1>7, <1>15, <2>2, <2>3 DEF FloorRight, ClockRight, Wrote, Steps
    <3> QED BY <2>2, <3>1 DEF FileKept, PlainSame, EncodersSame
  <2>4. TypeOK' /\ JobOK' /\ Right' /\ Went(ss, BootRtc, ok) /\ UNCHANGED <<live, ui, belied>>
    BY <1>1, <1>3, <2>2, <2>8, WriteStage
  <2>5. /\ job'.name = "boot" /\ job'.kept /\ ~unsaved' /\ ui'.prof = file'.res
        /\ job'.todo = BootRtc \/ job'.todo = BootGraph
        /\ chosen' = chosen
    BY <1>3, <1>6, <2>2, <2>4 DEF Went, PlainSame
  <2>7. BootSame /\ LoadAudio' = LoadAudio
    BY <2>2 DEF BootSame, PlainSame, LoadAudio
  <2>10. /\ faults' = 0 => AudioLater'
         /\ faults' = 0 => ClockRight'
         /\ faults' = 0 => live'.zone = file'.zone /\ live'.auto = file'.auto
    BY <1>15, <2>2, <2>3, <2>4, <2>5, <2>7 DEF AudioLater, ClockRight, PlainSame
  <2>6. BootOutline'
    BY <2>5, <2>7, <2>10, BootStays DEF BootOutline
  <2> QED BY <2>4, <2>5, <2>6 DEF Inv, Quiet, Doing, Outlined
<1>16. CASE /\ job.todo = BootRtc
            /\ faults = 0 => AudioLater
            /\ faults = 0 => live.zone = file.zone
            /\ faults = 0 => ClockRight
            /\ faults = 0 => live.auto = file.auto
  <2> HIDE DEF sz, sc, sr, sa, ss, sg, sm, sk, sy, sd, sw, sp
  <2>0. job.todo = <<sr>> \o BootGraph /\ IsList(BootGraph)
    BY <1>16, <1>5
  <2>1. sr = Head(job.todo) /\ Tail(job.todo) = BootGraph
    BY <2>0, PutFirst
  <2>9. sr.op = "rtc"
    BY <1>2, <1>3
  <2>2. PICK ok \in BOOLEAN :
          /\ Made(sr, BootGraph, ok)
          /\ CameraSame /\ SoundSame /\ SystemSame
          /\ faults' = 0 => ok
    BY <1>1, <2>1, <2>9, MakesRtc
  <2>3. LiveKept
    BY <2>2 DEF LiveKept, CameraSame, SoundSame, SystemSame, ServicesSame, ClockSame
  <2>4. TypeOK' /\ JobOK' /\ Right' /\ Went(sr, BootGraph, ok) /\ file' = file
    BY <1>1, <2>2, <2>3, <2>9, CallStage
  <2>5. /\ job'.name = "boot" /\ job'.kept /\ ~unsaved' /\ ui'.prof = file'.res
        /\ belied' \in BOOLEAN /\ (belied => belied') /\ chosen' = chosen /\ (faults' = 0 => faults = 0)
        /\ (job'.ok <=> job.ok) /\ job'.todo = BootGraph
    BY <1>3, <1>6, <2>4 DEF Went
  <2>7. /\ TRUE
        /\ faults' = 0 => AudioLater'
        /\ faults' = 0 => live'.zone = file'.zone
        /\ faults' = 0 => ClockRight'
        /\ faults' = 0 => live'.auto = file'.auto
    BY <1>1, <1>2, <1>16, <2>2, <2>4, <2>5 DEF AudioLater, LoadAudio, ClockRight, FloorRight, CameraSame, SoundSame, ClockSame, SystemSame, ServicesSame, LoadSpeaker
  <2>6. BootOutline'
    BY <1>16, <2>2, <2>4, <2>5, <2>7, BootStays
       DEF BootOutline, CameraSame
  <2> QED BY <2>4, <2>5, <2>6 DEF Inv, Quiet, Doing, Outlined
<1>17. CASE /\ job.todo = BootGraph
            /\ faults = 0 => AudioLater
            /\ faults = 0 => live.zone = file.zone
            /\ faults = 0 => ClockRight
            /\ faults = 0 => live.auto = file.auto
  <2> HIDE DEF sz, sc, sr, sa, ss, sg, sm, sk, sy, sd, sw, sp
  <2>0. job.todo = <<sg>> \o BootMain /\ IsList(BootMain)
    BY <1>17, <1>5
  <2>1. sg = Head(job.todo) /\ Tail(job.todo) = BootMain
    BY <2>0, PutFirst
  <2>9. sg.op = "start" /\ sg.arg = file.res /\ sg.arg \in Profiles
    BY <1>2, <1>3
  <2>2. PICK ok \in BOOLEAN :
          /\ Made(sg, BootMain, ok)
          /\ SoundSame /\ SystemSame
          /\ ok => live'.res = file.res
          /\ ~ok => live' = live \/ belied'
          /\ faults' = 0 /\ ~ok => live.pending /\ live' = live
    BY <1>1, <2>1, <2>9, MakesStart
  <2>3. LiveKept
    BY <2>2 DEF LiveKept, CameraSame, SoundSame, SystemSame, ServicesSame, ClockSame
  <2>4. TypeOK' /\ JobOK' /\ Right' /\ Went(sg, BootMain, ok) /\ file' = file
    BY <1>1, <2>2, <2>3, <2>9, CallStage
  <2>5. /\ job'.name = "boot" /\ job'.kept /\ ~unsaved' /\ ui'.prof = file'.res
        /\ belied' \in BOOLEAN /\ (belied => belied') /\ chosen' = chosen /\ (faults' = 0 => faults = 0)
        /\ (job'.ok <=> job.ok /\ ok)
        /\ ok => job'.todo = BootMain
        /\ ~ok => job'.todo = BootLast
    BY <1>3, <1>6, <2>4 DEF Went
  <2>7. /\ TRUE
        /\ faults' = 0 => live'.zone = file'.zone
        /\ faults' = 0 => ClockRight'
        /\ faults' = 0 => live'.auto = file'.auto
        /\ faults' = 0 /\ ~ok => live'.audio = LoadAudio'
    BY <1>1, <1>2, <1>17, <2>2, <2>4, <2>5 DEF AudioLater, LoadAudio, ClockRight, FloorRight, CameraSame, SoundSame, ClockSame, SystemSame, ServicesSame, LoadSpeaker
  <2>6. BootOutline'
    BY <1>17, <2>2, <2>4, <2>5, <2>7, BootStays
       DEF BootOutline, StartedIt, CameraSet, Well
  <2> QED BY <2>4, <2>5, <2>6 DEF Inv, Quiet, Doing, Outlined
<1>18. CASE /\ job.todo = BootMain
            /\ StartedIt(file.res)
            /\ faults = 0 => live.zone = file.zone
            /\ faults = 0 => ClockRight
            /\ faults = 0 => live.auto = file.auto
  <2> HIDE DEF sz, sc, sr, sa, ss, sg, sm, sk, sy, sd, sw, sp
  <2>0. job.todo = <<sm>> \o BootCodec /\ IsList(BootCodec)
    BY <1>18, <1>5
  <2>1. sm = Head(job.todo) /\ Tail(job.todo) = BootCodec
    BY <2>0, PutFirst
  <2>9. sm.op = "main" /\ sm.arg = file.main[file.res] /\ sm.arg \in Videos
    BY <1>2, <1>3
  <2>2. PICK ok \in BOOLEAN :
          /\ Made(sm, BootCodec, ok)
          /\ SoundSame /\ SystemSame /\ live'.res = live.res /\ live'.codec = live.codec
          /\ ok => live'.main = file.main[file.res]
          /\ ~ok => live' = live \/ belied'
    BY <1>1, <2>1, <2>9, MakesMain
  <2>3. LiveKept
    BY <2>2 DEF LiveKept, CameraSame, SoundSame, SystemSame, ServicesSame, ClockSame
  <2>4. TypeOK' /\ JobOK' /\ Right' /\ Went(sm, BootCodec, ok) /\ file' = file
    BY <1>1, <2>2, <2>3, <2>9, CallStage
  <2>5. /\ job'.name = "boot" /\ job'.kept /\ ~unsaved' /\ ui'.prof = file'.res
        /\ belied' \in BOOLEAN /\ (belied => belied') /\ chosen' = chosen /\ (faults' = 0 => faults = 0)
        /\ (job'.ok <=> job.ok /\ ok)
        /\ ok => job'.todo = BootCodec
        /\ ~ok => job'.todo = BootApply
    BY <1>3, <1>6, <2>4 DEF Went
  <2>7. /\ TRUE
        /\ faults' = 0 => live'.zone = file'.zone
        /\ faults' = 0 => ClockRight'
        /\ faults' = 0 => live'.auto = file'.auto
    BY <1>1, <1>2, <1>18, <2>2, <2>4, <2>5 DEF AudioLater, LoadAudio, ClockRight, FloorRight, CameraSame, SoundSame, ClockSame, SystemSame, ServicesSame, LoadSpeaker
  <2>6. BootOutline'
    BY <1>18, <2>2, <2>4, <2>5, <2>7, BootStays
       DEF BootOutline, StartedIt, StillSet, CameraSet, Well
  <2> QED BY <2>4, <2>5, <2>6 DEF Inv, Quiet, Doing, Outlined
<1>19. CASE /\ job.todo = BootCodec
            /\ StillSet(file.res)
            /\ faults = 0 => live.zone = file.zone
            /\ faults = 0 => ClockRight
            /\ faults = 0 => live.auto = file.auto
  <2> HIDE DEF sz, sc, sr, sa, ss, sg, sm, sk, sy, sd, sw, sp
  <2>0. job.todo = <<sk>> \o BootApply /\ IsList(BootApply)
    BY <1>19, <1>5
  <2>1. sk = Head(job.todo) /\ Tail(job.todo) = BootApply
    BY <2>0, PutFirst
  <2>9. sk.op = "codec" /\ sk.arg = Attr(file.codec[file.res]) /\ sk.arg \in Attrs
    BY <1>2, <1>3
  <2>2. PICK ok \in BOOLEAN :
          /\ Made(sk, BootApply, ok)
          /\ SoundSame /\ SystemSame /\ live'.res = live.res /\ live'.main = live.main
          /\ ok => live'.codec = Attr(file.codec[file.res])
          /\ ~ok => live' = live \/ belied'
    BY <1>1, <2>1, <2>9, MakesCodec
  <2>3. LiveKept
    BY <2>2 DEF LiveKept, CameraSame, SoundSame, SystemSame, ServicesSame, ClockSame
  <2>4. TypeOK' /\ JobOK' /\ Right' /\ Went(sk, BootApply, ok) /\ file' = file
    BY <1>1, <2>2, <2>3, <2>9, CallStage
  <2>5. /\ job'.name = "boot" /\ job'.kept /\ ~unsaved' /\ ui'.prof = file'.res
        /\ belied' \in BOOLEAN /\ (belied => belied') /\ chosen' = chosen /\ (faults' = 0 => faults = 0)
        /\ (job'.ok <=> job.ok /\ ok)
        /\ ok => job'.todo = BootApply
        /\ ~ok => job'.todo = BootApply
    BY <1>3, <1>6, <2>4 DEF Went
  <2>7. /\ TRUE
        /\ faults' = 0 => live'.zone = file'.zone
        /\ faults' = 0 => ClockRight'
        /\ faults' = 0 => live'.auto = file'.auto
    BY <1>1, <1>2, <1>19, <2>2, <2>4, <2>5 DEF AudioLater, LoadAudio, ClockRight, FloorRight, CameraSame, SoundSame, ClockSame, SystemSame, ServicesSame, LoadSpeaker
  <2>6. BootOutline'
    BY <1>19, <2>2, <2>4, <2>5, <2>7, BootStays
       DEF BootOutline, StillSet, CameraSet, AsSaved, Well
  <2> QED BY <2>4, <2>5, <2>6 DEF Inv, Quiet, Doing, Outlined
<1>20. CASE /\ job.todo = BootApply
            /\ CameraSet(file.res)
            /\ faults = 0 => live.zone = file.zone
            /\ faults = 0 => ClockRight
            /\ faults = 0 => live.auto = file.auto
  <2> HIDE DEF sz, sc, sr, sa, ss, sg, sm, sk, sy, sd, sw, sp
  <2>0. job.todo = <<sy>> \o BootSound /\ IsList(BootSound)
    BY <1>20, <1>5
  <2>1. sy = Head(job.todo) /\ Tail(job.todo) = BootSound
    BY <2>0, PutFirst
  <2>9. sy.op = "sync"
    BY <1>2, <1>3
  <2>2. PICK ok \in BOOLEAN :
          /\ Made(sy, BootSound, ok)
          /\ CameraSame /\ SoundSame /\ SystemSame
    BY <1>1, <2>1, <2>9, MakesSync
  <2>3. LiveKept
    BY <2>2 DEF LiveKept, CameraSame, SoundSame, SystemSame, ServicesSame, ClockSame
  <2>4. TypeOK' /\ JobOK' /\ Right' /\ Went(sy, BootSound, ok) /\ file' = file
    BY <1>1, <2>2, <2>3, <2>9, CallStage
  <2>5. /\ job'.name = "boot" /\ job'.kept /\ ~unsaved' /\ ui'.prof = file'.res
        /\ belied' \in BOOLEAN /\ (belied => belied') /\ chosen' = chosen /\ (faults' = 0 => faults = 0)
        /\ (job'.ok <=> job.ok) /\ job'.todo = BootSound
    BY <1>3, <1>6, <2>4 DEF Went
  <2>7. /\ TRUE
        /\ faults' = 0 => live'.zone = file'.zone
        /\ faults' = 0 => ClockRight'
        /\ faults' = 0 => live'.auto = file'.auto
    BY <1>1, <1>2, <1>20, <2>2, <2>4, <2>5 DEF AudioLater, LoadAudio, ClockRight, FloorRight, CameraSame, SoundSame, ClockSame, SystemSame, ServicesSame, LoadSpeaker
  <2>6. BootOutline'
    BY <1>20, <2>2, <2>4, <2>5, <2>7, BootStays
       DEF BootOutline, CameraSet, AsSaved, Well, CameraSame
  <2> QED BY <2>4, <2>5, <2>6 DEF Inv, Quiet, Doing, Outlined
<1>21. CASE /\ job.todo = BootSound
            /\ CameraSet(file.res)
            /\ faults = 0 => live.zone = file.zone
            /\ faults = 0 => ClockRight
            /\ faults = 0 => live.auto = file.auto
  <2> HIDE DEF sz, sc, sr, sa, ss, sg, sm, sk, sy, sd, sw, sp
  <2>0. job.todo = <<sd>> \o BootLast /\ IsList(BootLast)
    BY <1>21, <1>5
  <2>1. sd = Head(job.todo) /\ Tail(job.todo) = BootLast
    BY <2>0, PutFirst
  <2>9. sd.op = "audio" /\ sd.arg = LoadAudio /\ sd.arg \in Sounds
    BY <1>2, <1>3
  <2>2. PICK ok \in BOOLEAN :
          /\ Made(sd, BootLast, ok)
          /\ CameraSame /\ SystemSame /\ live'.speaker = live.speaker
          /\ ok => live'.audio = LoadAudio
          /\ faults' = 0 => ok
    BY <1>1, <2>1, <2>9, MakesAudio
  <2>3. LiveKept
    BY <2>2 DEF LiveKept, CameraSame, SoundSame, SystemSame, ServicesSame, ClockSame
  <2>4. TypeOK' /\ JobOK' /\ Right' /\ Went(sd, BootLast, ok) /\ file' = file
    BY <1>1, <2>2, <2>3, <2>9, CallStage
  <2>5. /\ job'.name = "boot" /\ job'.kept /\ ~unsaved' /\ ui'.prof = file'.res
        /\ belied' \in BOOLEAN /\ (belied => belied') /\ chosen' = chosen /\ (faults' = 0 => faults = 0)
        /\ (job'.ok <=> job.ok) /\ job'.todo = BootLast
    BY <1>3, <1>6, <2>4 DEF Went
  <2>7. /\ TRUE
        /\ faults' = 0 => live'.zone = file'.zone
        /\ faults' = 0 => ClockRight'
        /\ faults' = 0 => live'.auto = file'.auto
        /\ faults' = 0 => live'.audio = LoadAudio'
    BY <1>1, <1>2, <1>21, <2>2, <2>4, <2>5 DEF AudioLater, LoadAudio, ClockRight, FloorRight, CameraSame, SoundSame, ClockSame, SystemSame, ServicesSame, LoadSpeaker
  <2>6. BootOutline'
    BY <1>21, <2>2, <2>4, <2>5, <2>7, BootStays
       DEF BootOutline, CameraSet, AsSaved, Well, CameraSame
  <2> QED BY <2>4, <2>5, <2>6 DEF Inv, Quiet, Doing, Outlined
<1>22. CASE /\ job.todo = BootLast
            /\ file.wifi = 1
            /\ CameraSet(file.res)
            /\ faults = 0 => live.zone = file.zone
            /\ faults = 0 => ClockRight
            /\ faults = 0 => live.auto = file.auto
            /\ faults = 0 => live.audio = LoadAudio
  <2> HIDE DEF sz, sc, sr, sa, ss, sg, sm, sk, sy, sd, sw, sp
  <2>0. job.todo = <<sw>> \o Speak /\ IsList(Speak)
    BY <1>22, <1>5
  <2>1. sw = Head(job.todo) /\ Tail(job.todo) = Speak
    BY <2>0, PutFirst
  <2>9. sw.op = "wifi" /\ sw.arg = 1 /\ sw.arg \in Bit
    BY <1>2, <1>3
  <2>2. PICK ok \in BOOLEAN :
          /\ Made(sw, Speak, ok)
          /\ CameraSame /\ SoundSame /\ ClockSame /\ live'.zone = live.zone /\ live'.auto = live.auto
          /\ live'.wifi \in {live.wifi, 1} /\ (ok => live'.wifi = 1)
          /\ faults' = 0 => ok
    BY <1>1, <2>1, <2>9, MakesWifi
  <2>3. LiveKept
    BY <1>2, <1>22, <2>2 DEF LiveKept, CameraSame, SoundSame, SystemSame, ServicesSame, ClockSame
  <2>4. TypeOK' /\ JobOK' /\ Right' /\ Went(sw, Speak, ok) /\ file' = file
    BY <1>1, <2>2, <2>3, <2>9, CallStage
  <2>5. /\ job'.name = "boot" /\ job'.kept /\ ~unsaved' /\ ui'.prof = file'.res
        /\ belied' \in BOOLEAN /\ (belied => belied') /\ chosen' = chosen /\ (faults' = 0 => faults = 0)
        /\ (job'.ok <=> job.ok) /\ job'.todo = Speak
    BY <1>3, <1>6, <2>4 DEF Went
  <2>7. /\ TRUE
        /\ faults' = 0 => live'.zone = file'.zone
        /\ faults' = 0 => ClockRight'
        /\ faults' = 0 => live'.auto = file'.auto
        /\ faults' = 0 => live'.audio = LoadAudio'
        /\ faults' = 0 => live'.wifi = file'.wifi
    BY <1>1, <1>2, <1>22, <2>2, <2>4, <2>5 DEF AudioLater, LoadAudio, ClockRight, FloorRight, CameraSame, SoundSame, ClockSame, SystemSame, ServicesSame, LoadSpeaker
  <2>6. BootOutline'
    BY <1>22, <2>2, <2>4, <2>5, <2>7, BootStays
       DEF BootOutline, CameraSet, AsSaved, Well, CameraSame
  <2> QED BY <2>4, <2>5, <2>6 DEF Inv, Quiet, Doing, Outlined
<1>23. CASE /\ job.todo = Speak
            /\ CameraSet(file.res)
            /\ faults = 0 => live.zone = file.zone
            /\ faults = 0 => ClockRight
            /\ faults = 0 => live.auto = file.auto
            /\ faults = 0 => live.audio = LoadAudio
            /\ faults = 0 => live.wifi = file.wifi
  <2> HIDE DEF sz, sc, sr, sa, ss, sg, sm, sk, sy, sd, sw, sp
  <2>0. job.todo = <<sp>> \o <<>> /\ IsList(<<>>)
    BY <1>23, <1>5
  <2>1. sp = Head(job.todo) /\ Tail(job.todo) = <<>>
    BY <2>0, PutFirst
  <2>9. sp.op = "speaker" /\ sp.arg = LoadSpeaker /\ sp.arg \in {50, 100}
    BY <1>2, <1>3
  <2>2. PICK ok \in BOOLEAN :
          /\ Made(sp, <<>>, ok)
          /\ CameraSame /\ SystemSame /\ live'.audio = live.audio
          /\ ok => live'.speaker = LoadSpeaker
          /\ faults' = 0 => ok
    BY <1>1, <2>1, <2>9, MakesSpeaker
  <2>3. LiveKept
    BY <2>2 DEF LiveKept, CameraSame, SoundSame, SystemSame, ServicesSame, ClockSame
  <2>4. TypeOK' /\ JobOK' /\ Right' /\ Went(sp, <<>>, ok) /\ file' = file
    BY <1>1, <2>2, <2>3, <2>9, CallStage
  <2>5. /\ job'.name = "boot" /\ job'.kept /\ ~unsaved' /\ ui'.prof = file'.res
        /\ belied' \in BOOLEAN /\ (belied => belied') /\ chosen' = chosen /\ (faults' = 0 => faults = 0)
        /\ (job'.ok <=> job.ok) /\ job'.todo = <<>>
    BY <1>3, <1>6, <2>4 DEF Went
  <2>8. ok => ui'.shown.speaker = LoadSpeaker
    BY <1>1, <2>2, <2>9, ShowsTypes DEF Made
  <2>7. /\ TRUE
        /\ faults' = 0 => live'.zone = file'.zone
        /\ faults' = 0 => ClockRight'
        /\ faults' = 0 => live'.auto = file'.auto
        /\ faults' = 0 => live'.audio = LoadAudio'
        /\ faults' = 0 => live'.wifi = file'.wifi
        /\ faults' = 0 => live'.speaker = LoadSpeaker' /\ ui'.shown.speaker = LoadSpeaker'
    BY <1>1, <1>2, <1>23, <2>2, <2>4, <2>5, <2>8 DEF AudioLater, LoadAudio, ClockRight, FloorRight, CameraSame, SoundSame, ClockSame, SystemSame, ServicesSame, LoadSpeaker
  <2>6. BootOutline'
    BY <1>23, <2>2, <2>4, <2>5, <2>7, BootStays
       DEF BootOutline, CameraSet, AsSaved, Well, CameraSame
  <2> QED BY <2>4, <2>5, <2>6 DEF Inv, Quiet, Doing, Outlined
<1>24. job.todo = BootClock /\ file.auto # 1 => job.todo = BootSave
  BY <1>5
<1>25. job.todo = BootLast /\ file.wifi # 1 => job.todo = Speak
  BY <1>5
<1>26. faults = 0 /\ file.auto # 1 => live.auto = file.auto
  BY <1>2, <1>7 DEF Bit
<1>27. faults = 0 /\ file.wifi # 1 => live.wifi = file.wifi
  BY <1>2, <1>7 DEF Bit
<1> HIDE DEF sz, sc, sr, sa, ss, sg, sm, sk, sy, sd, sw, sp
<1>31. CASE /\ \/ job.todo = <<sz>> \o Restore
               \/ job.todo = <<sz>> \o BootClock /\ (faults = 0 => live.clock >= file.floor)
            /\ faults = 0 => AudioLater
  BY <1>31, <1>10, <1>11
<1>32. CASE /\ \/ job.todo = Restore
               \/ job.todo \in {RestoreRtc, BootClock} /\ (faults = 0 => ClockRight)
            /\ faults = 0 => AudioLater /\ live.zone = file.zone
  BY <1>32, <1>12, <1>13, <1>14, <1>15, <1>24, <1>26
<1>33. CASE /\ job.todo \in {BootSave, BootRtc, BootGraph}
            /\ faults = 0 => AudioLater /\ live.zone = file.zone /\ ClockRight /\ live.auto = file.auto
  BY <1>33, <1>15, <1>16, <1>17
<1>34. CASE /\ \/ job.todo = BootMain /\ StartedIt(file.res)
               \/ job.todo = BootCodec /\ StillSet(file.res)
               \/ job.todo \in {BootApply, BootSound} /\ CameraSet(file.res)
               \/ /\ CameraSet(file.res)
                  /\ \/ job.todo = BootLast
                     \/ job.todo = Speak /\ (faults = 0 => live.wifi = file.wifi)
                  /\ faults = 0 => live.audio = LoadAudio
            /\ faults = 0 => live.zone = file.zone /\ ClockRight /\ live.auto = file.auto
  BY <1>34, <1>18, <1>19, <1>20, <1>21, <1>22, <1>23, <1>25, <1>27
<1> QED BY <1>1, <1>4, <1>31, <1>32, <1>33, <1>34 DEF BootOutline, sz

-----------------------------------------------------------------------------
(* The other steps.                                                         *)
LEMMA StepUi == ASSUME Inv, UiStep PROVE Inv'
<1>1. JobOK
  BY DEF Inv
<1>2. job.name # "none"
  BY <1>1 DEF UiStep, JobOK, NoJob
<1>3. job.name \in {"image", "speaker", "audio", "main", "codec", "res", "zone", "auto", "clock",
                    "pref", "wifi", "boot", "recover"}
  BY <1>1, <1>2 DEF JobOK, Keys, Options
<1> QED BY <1>3, StepImage, StepSpeaker, StepAudio, StepMain, StepCodec, StepRes, StepZone, StepAuto,
           StepClock, StepPref, StepWifi, StepBoot, StepRecover

(* What the choices amount to.                                              *)
Values(key) ==
  CASE key = "image" -> Images
    [] key = "speaker" -> {50, 100}
    [] key = "audio" -> Sounds
    [] key = "main" -> Videos
    [] key = "codec" -> Names
    [] key = "res" -> Profiles
    [] key = "zone" -> Zones
    [] key = "clock" -> Nat
    [] key \in {"auto", "pref", "wifi"} -> Bit
NowIs(key, S, c) ==
  /\ c \in ChosenType
  /\ c.speaker = IF key = "speaker" THEN S ELSE chosen.speaker
  /\ c.audio = IF key = "audio" THEN S ELSE chosen.audio
  /\ c.res = IF key = "res" THEN S ELSE chosen.res
  /\ c.zone = IF key = "zone" THEN S ELSE chosen.zone
  /\ c.auto = IF key = "auto" THEN S ELSE chosen.auto
  /\ c.clock = IF key = "clock" THEN S ELSE chosen.clock
  /\ c.pref = IF key = "pref" THEN S ELSE chosen.pref
  /\ c.wifi = IF key = "wifi" THEN S ELSE chosen.wifi
  /\ \A p \in Profiles : c.main[p] = IF key = "main" /\ p = ui.prof THEN S ELSE chosen.main[p]
  /\ \A p \in Profiles : c.codec[p] = IF key = "codec" /\ p = ui.prof THEN S ELSE chosen.codec[p]

LEMMA NowSets ==
  ASSUME TypeOK, NEW key \in Keys, NEW S, S \subseteq Values(key)
  PROVE  NowIs(key, S, Now(key, S))
<1>1. chosen \in ChosenType /\ ui.prof \in Profiles
  BY DEF TypeOK, UiType
<1> DEFINE c == Now(key, S)
<1>2. CASE key = "main"
  <2> DEFINE m == [chosen.main EXCEPT ![ui.prof] = S]
  <2>1. /\ m \in [Profiles -> SUBSET Videos]
        /\ \A p \in Profiles : m[p] = IF p = ui.prof THEN S ELSE chosen.main[p]
    BY <1>1, <1>2 DEF ChosenType, Values
  <2>2. c = [chosen EXCEPT !.main = m]
    BY <1>2 DEF Now, PerProfile
  <2> HIDE DEF m, c
  <2> QED BY <1>1, <1>2, <2>1, <2>2 DEF ChosenType, NowIs, c
<1>3. CASE key = "codec"
  <2> DEFINE m == [chosen.codec EXCEPT ![ui.prof] = S]
  <2>1. /\ m \in [Profiles -> SUBSET Names]
        /\ \A p \in Profiles : m[p] = IF p = ui.prof THEN S ELSE chosen.codec[p]
    BY <1>1, <1>3 DEF ChosenType, Values
  <2>2. c = [chosen EXCEPT !.codec = m]
    BY <1>3 DEF Now, PerProfile
  <2> HIDE DEF m, c
  <2> QED BY <1>1, <1>3, <2>1, <2>2 DEF ChosenType, NowIs, c
<1>4. CASE key \notin {"main", "codec"}
  <2>1. c = [chosen EXCEPT ![key] = S]
    BY <1>4 DEF Now, PerProfile
  <2>2. key \in {"image", "speaker", "audio", "res", "zone", "auto", "clock", "pref", "wifi"}
    BY <1>4 DEF Keys, Options
  <2> HIDE DEF c
  <2>3. CASE key = "image"
    <3>1. c = [chosen EXCEPT !.image = S]
      BY <2>1, <2>3
    <3>2. S \subseteq Images
      BY <2>3 DEF Values
    <3>3. c \in ChosenType
      BY <1>1, <3>1, <3>2 DEF ChosenType
    <3> QED BY <1>1, <2>3, <3>1, <3>3 DEF ChosenType, NowIs, c
  <2>4. CASE key = "speaker"
    <3>1. c = [chosen EXCEPT !.speaker = S]
      BY <2>1, <2>4
    <3>2. S \subseteq {50, 100}
      BY <2>4 DEF Values
    <3>3. c \in ChosenType
      BY <1>1, <3>1, <3>2 DEF ChosenType
    <3> QED BY <1>1, <2>4, <3>1, <3>3 DEF ChosenType, NowIs, c
  <2>5. CASE key = "audio"
    <3>1. c = [chosen EXCEPT !.audio = S]
      BY <2>1, <2>5
    <3>2. S \subseteq Sounds
      BY <2>5 DEF Values
    <3>3. c \in ChosenType
      BY <1>1, <3>1, <3>2 DEF ChosenType
    <3> QED BY <1>1, <2>5, <3>1, <3>3 DEF ChosenType, NowIs, c
  <2>6. CASE key = "res"
    <3>1. c = [chosen EXCEPT !.res = S]
      BY <2>1, <2>6
    <3>2. S \subseteq Profiles
      BY <2>6 DEF Values
    <3>3. c \in ChosenType
      BY <1>1, <3>1, <3>2 DEF ChosenType
    <3> QED BY <1>1, <2>6, <3>1, <3>3 DEF ChosenType, NowIs, c
  <2>7. CASE key = "zone"
    <3>1. c = [chosen EXCEPT !.zone = S]
      BY <2>1, <2>7
    <3>2. S \subseteq Zones
      BY <2>7 DEF Values
    <3>3. c \in ChosenType
      BY <1>1, <3>1, <3>2 DEF ChosenType
    <3> QED BY <1>1, <2>7, <3>1, <3>3 DEF ChosenType, NowIs, c
  <2>8. CASE key = "auto"
    <3>1. c = [chosen EXCEPT !.auto = S]
      BY <2>1, <2>8
    <3>2. S \subseteq Bit
      BY <2>8 DEF Values
    <3>3. c \in ChosenType
      BY <1>1, <3>1, <3>2 DEF ChosenType
    <3> QED BY <1>1, <2>8, <3>1, <3>3 DEF ChosenType, NowIs, c
  <2>9. CASE key = "clock"
    <3>1. c = [chosen EXCEPT !.clock = S]
      BY <2>1, <2>9
    <3>2. S \subseteq Nat
      BY <2>9 DEF Values
    <3>3. c \in ChosenType
      BY <1>1, <3>1, <3>2 DEF ChosenType
    <3> QED BY <1>1, <2>9, <3>1, <3>3 DEF ChosenType, NowIs, c
  <2>10. CASE key = "pref"
    <3>1. c = [chosen EXCEPT !.pref = S]
      BY <2>1, <2>10
    <3>2. S \subseteq Bit
      BY <2>10 DEF Values
    <3>3. c \in ChosenType
      BY <1>1, <3>1, <3>2 DEF ChosenType
    <3> QED BY <1>1, <2>10, <3>1, <3>3 DEF ChosenType, NowIs, c
  <2>11. CASE key = "wifi"
    <3>1. c = [chosen EXCEPT !.wifi = S]
      BY <2>1, <2>11
    <3>2. S \subseteq Bit
      BY <2>11 DEF Values
    <3>3. c \in ChosenType
      BY <1>1, <3>1, <3>2 DEF ChosenType
    <3> QED BY <1>1, <2>11, <3>1, <3>3 DEF ChosenType, NowIs, c
  <2> QED BY <1>4, <2>2, <2>3, <2>4, <2>5, <2>6, <2>7, <2>8, <2>9, <2>10, <2>11
<1> QED BY <1>2, <1>3, <1>4

(* What a look at the backend shows, and what becomes of the sound input.   *)
Looked(u) ==
  /\ ui' \in UiType /\ file' \in FileType
  /\ ui'.up = u.up /\ ui'.available = u.available /\ ui'.prof = u.prof
  /\ ui'.shown.zone = u.shown.zone /\ ui'.shown.auto = u.shown.auto
  /\ ui'.shown.wifi = u.shown.wifi /\ ui'.shown.pref = u.shown.pref
  /\ ui'.shown.speaker = u.shown.speaker
  /\ ui'.shown.audio = live.audio /\ ui'.shown.main = live.main
  /\ ui'.shown.codec = CodecName(live.codec) /\ ui'.shown.res = u.prof
  /\ PlainSame({"audio"}) /\ EncodersSame
  /\ faults' \in Nat /\ (faults' = 0 => faults = 0)
  /\ faults' = 0 /\ u.audio = LoadAudio => LoadAudio' = live.audio /\ ui'.audio = live.audio
LEMMA Looks ==
  ASSUME TypeOK, NEW u \in UiType, SyncAudio(Look(u))
  PROVE  Looked(u)
<1>1. file \in FileType /\ live \in LiveType /\ faults \in Nat /\ u.shown \in ShownType
  BY DEF TypeOK, UiType
<1> DEFINE i == IF live.res = "none" THEN file.image ELSE live.image
           n == CodecName(live.codec)
           s == [u.shown EXCEPT !.image = i, !.main = live.main, !.codec = n,
                                !.audio = live.audio, !.res = u.prof]
           w == Look(u)
<1>2. i \in Images /\ n \in Names /\ live.main \in Videos /\ live.audio \in Sounds
  BY <1>1 DEF FileType, LiveType, CodecName, Names
<1>3. w = [u EXCEPT !.shown = s]
  BY DEF Look, LookEncoders, LookImage
<1> HIDE DEF i, n, w
<1>4. /\ s \in ShownType
      /\ s.zone = u.shown.zone /\ s.auto = u.shown.auto /\ s.wifi = u.shown.wifi
      /\ s.pref = u.shown.pref /\ s.speaker = u.shown.speaker
      /\ s.audio = live.audio /\ s.main = live.main /\ s.codec = n /\ s.res = u.prof
  BY <1>1, <1>2 DEF ShownType, UiType
<1> HIDE DEF s
<1>5. /\ w \in UiType /\ w.shown = s /\ w.up = u.up /\ w.available = u.available
      /\ w.prof = u.prof /\ w.audio = u.audio
  BY <1>3, <1>4 DEF UiType
<1>6. \/ /\ w.audio # live.audio /\ file' = [file EXCEPT !.audio = live.audio] /\ faults' = faults
         /\ ui' = [w EXCEPT !.audio = live.audio]
      \/ w.audio # live.audio /\ faults' = faults + 1 /\ ui' = w /\ file' = file
      \/ w.audio = live.audio /\ ui' = w /\ file' = file /\ faults' = faults
  BY DEF SyncAudio, SaveAudio, Spend, w
<1>7. CASE /\ w.audio # live.audio /\ file' = [file EXCEPT !.audio = live.audio] /\ faults' = faults
           /\ ui' = [w EXCEPT !.audio = live.audio]
  <2>1. /\ file' \in FileType /\ PlainSame({"audio"}) /\ EncodersSame /\ file'.audio = live.audio
    BY <1>1, <1>2, <1>7 DEF FileType, PlainSame, EncodersSame
  <2>2. /\ ui' \in UiType /\ ui'.up = u.up /\ ui'.available = u.available /\ ui'.prof = u.prof
        /\ ui'.audio = live.audio /\ ui'.shown = s
    BY <1>2, <1>5, <1>7 DEF UiType
  <2>3. LoadAudio' = live.audio
    BY <1>2, <2>1 DEF LoadAudio, Sounds
  <2> QED BY <1>1, <1>4, <1>7, <2>1, <2>2, <2>3 DEF Looked, n
<1>8. CASE w.audio # live.audio /\ faults' = faults + 1 /\ ui' = w /\ file' = file
  <2>1. PlainSame({"audio"}) /\ EncodersSame /\ faults' \in Nat /\ faults' # 0
    BY <1>1, <1>8 DEF PlainSame, EncodersSame
  <2> QED BY <1>1, <1>4, <1>5, <1>8, <2>1 DEF Looked, n
<1>9. CASE w.audio = live.audio /\ ui' = w /\ file' = file /\ faults' = faults
  <2>1. PlainSame({"audio"}) /\ EncodersSame
    BY <1>9 DEF PlainSame, EncodersSame
  <2>2. LoadAudio' = LoadAudio
    BY <1>9 DEF LoadAudio
  <2> QED BY <1>1, <1>4, <1>5, <1>9, <2>1, <2>2 DEF Looked, n
<1> QED BY <1>6, <1>7, <1>8, <1>9

(* What the end of an operation tells the UI.                               *)
Completed(u) ==
  /\ u \in UiType /\ u.up = ui.up /\ u.audio = ui.audio
  /\ u.available = IF IsChoice THEN ui.available ELSE job.ok
  /\ u.prof = IF job.name = "res" /\ job.ok THEN job.to ELSE ui.prof
  /\ u.shown.zone = IF job.name = "zone" /\ job.ok THEN job.to ELSE ui.shown.zone
  /\ u.shown.auto = IF job.name = "auto" /\ job.ok THEN job.to ELSE ui.shown.auto
  /\ u.shown.wifi = IF job.name = "wifi" /\ job.ok THEN job.to ELSE ui.shown.wifi
  /\ u.shown.pref = IF job.name = "pref" /\ job.ok THEN job.to ELSE ui.shown.pref
  /\ u.shown.speaker = IF job.name = "speaker" /\ job.ok THEN job.to ELSE ui.shown.speaker
LEMMA Complete ==
  ASSUME TypeOK, JobOK
  PROVE  Completed(Completes(ui))
<1>1. ui \in UiType /\ ui.shown \in ShownType /\ job.ok \in BOOLEAN
  BY DEF TypeOK, UiType, JobOK
<1> DEFINE u == Completes(ui)
<1>2. CASE ~IsChoice
  <2> DEFINE b == job.ok
  <2>1. u = [ui EXCEPT !.available = b] /\ b \in BOOLEAN
    BY <1>1, <1>2 DEF Completes
  <2>2. job.name \notin Keys /\ job.name \notin {"res", "zone", "auto", "wifi", "pref", "speaker"}
    BY <1>2 DEF IsChoice, Keys, Options
  <2> HIDE DEF b, u
  <2>3. u \in UiType /\ u.up = ui.up /\ u.audio = ui.audio /\ u.prof = ui.prof /\ u.shown = ui.shown
        /\ u.available = b
    BY <1>1, <2>1 DEF UiType
  <2> QED BY <1>2, <2>2, <2>3 DEF Completed, b, u
<1>3. CASE IsChoice /\ (~job.ok \/ job.name = "clock")
  <2>1. u = ui
    BY <1>3 DEF Completes
  <2> QED BY <1>1, <1>3, <2>1 DEF Completed
<1>4. CASE IsChoice /\ job.ok /\ job.name # "clock"
  <2> DEFINE r == Remembers(ui)
             v == job.to
  <2>1. u = [r EXCEPT !.shown[job.name] = v]
    BY <1>4 DEF Completes
  <2>2. /\ r \in UiType /\ r.shown = ui.shown /\ r.up = ui.up /\ r.audio = ui.audio
        /\ r.available = ui.available
        /\ r.prof = IF job.name = "res" THEN v ELSE ui.prof
    <3>1. CASE job.name = "res"
      <4>1. v \in Profiles /\ r = [ui EXCEPT !.prof = v]
        BY <1>4, <3>1 DEF JobOK, Options, Remembers
      <4> QED BY <1>1, <3>1, <4>1 DEF UiType
    <3>2. CASE job.name = "auto"
      <4>1. v \in Bit /\ r = [ui EXCEPT !.auto = v]
        BY <1>4, <3>2 DEF JobOK, Options, Remembers, Bit
      <4> QED BY <1>1, <3>2, <4>1 DEF UiType
    <3>3. CASE job.name \notin {"res", "auto"}
      <4>1. r = ui
        BY <3>3 DEF Remembers
      <4> QED BY <1>1, <3>3, <4>1
    <3> QED BY <3>1, <3>2, <3>3
  <2> DEFINE s == [ui.shown EXCEPT ![job.name] = v]
  <2>3. u = [r EXCEPT !.shown = s]
    BY <2>1, <2>2
  <2> HIDE DEF r, u, v
  <2>4. /\ s \in ShownType
        /\ s.zone = IF job.name = "zone" THEN v ELSE ui.shown.zone
        /\ s.auto = IF job.name = "auto" THEN v ELSE ui.shown.auto
        /\ s.wifi = IF job.name = "wifi" THEN v ELSE ui.shown.wifi
        /\ s.pref = IF job.name = "pref" THEN v ELSE ui.shown.pref
        /\ s.speaker = IF job.name = "speaker" THEN v ELSE ui.shown.speaker
    <3>1. v \in Options[job.name]
      BY <1>4 DEF JobOK, v
    <3>2. job.name \in {"image", "speaker", "audio", "main", "codec", "res", "zone", "auto", "pref",
                        "wifi"}
      BY <1>4 DEF IsChoice, Keys, Options
    <3>3. CASE job.name = "image"
      BY <1>1, <3>1, <3>3 DEF ShownType, Options, Images
    <3>4. CASE job.name = "speaker"
      BY <1>1, <3>1, <3>4 DEF ShownType, Options
    <3>5. CASE job.name = "audio"
      BY <1>1, <3>1, <3>5 DEF ShownType, Options, Sounds
    <3>6. CASE job.name = "main"
      BY <1>1, <3>1, <3>6 DEF ShownType, Options, Videos
    <3>7. CASE job.name = "codec"
      BY <1>1, <3>1, <3>7 DEF ShownType, Options, Names
    <3>8. CASE job.name = "res"
      BY <1>1, <3>1, <3>8 DEF ShownType, Options
    <3>9. CASE job.name = "zone"
      BY <1>1, <3>1, <3>9 DEF ShownType, Options, Zones
    <3>10. CASE job.name = "auto"
      BY <1>1, <3>1, <3>10 DEF ShownType, Options, Bit
    <3>11. CASE job.name = "pref"
      BY <1>1, <3>1, <3>11 DEF ShownType, Options, Bit
    <3>12. CASE job.name = "wifi"
      BY <1>1, <3>1, <3>12 DEF ShownType, Options, Bit
    <3> QED BY <3>2, <3>3, <3>4, <3>5, <3>6, <3>7, <3>8, <3>9, <3>10, <3>11, <3>12
  <2> HIDE DEF s
  <2>5. /\ u \in UiType /\ u.shown = s /\ u.up = ui.up /\ u.audio = ui.audio
        /\ u.available = ui.available /\ u.prof = r.prof
    BY <2>2, <2>3, <2>4 DEF UiType
  <2> QED BY <1>4, <2>2, <2>4, <2>5 DEF Completed, u, v
<1> QED BY <1>2, <1>3, <1>4

(* Steps outside the job leave its outline.                                 *)
Aside ==
  /\ UNCHANGED <<job, file, ui, chosen, unsaved>> /\ live' \in LiveType
  /\ faults' \in Nat /\ (faults' = 0 => faults = 0)
  /\ belied' \in BOOLEAN /\ (belied => belied')
  /\ ServicesSame /\ SoundSame /\ live'.res = live.res /\ live'.codec = live.codec
  /\ live'.main = live.main \/ (belied' /\ faults' # 0)
  /\ live'.clock >= live.clock /\ (live'.pending => live.pending)
LEMMA OutlinedAside ==
  ASSUME TypeOK, JobOK, Outlined, Aside
  PROVE  Outlined' /\ (AsShown => AsShown')
<1>1. /\ UNCHANGED <<job, file, ui, chosen, unsaved>> /\ (faults' = 0 => faults = 0)
      /\ (Sure' => Sure) /\ (Well' => Well)
  BY DEF Aside, Sure, Well
<1>2. /\ live.clock \in Nat /\ live'.clock \in Nat /\ live'.clock >= live.clock
      /\ chosen.clock \subseteq Nat /\ file.floor \in Nat
      /\ job.name = "clock" => job.to = 1
  BY DEF Aside, TypeOK, LiveType, FileType, ChosenType, JobOK, IsChoice, Keys, Options
<1>3. ClockRight => ClockRight'
  BY <1>1, <1>2 DEF ClockRight
<1>4. FloorRight' = FloorRight /\ LoadSpeaker' = LoadSpeaker /\ LoadAudio' = LoadAudio
  BY <1>1 DEF FloorRight, LoadSpeaker, LoadAudio
<1>5. AsShown => AsShown'
  BY <1>1 DEF AsShown, AsSaved, Sure, Aside
<1>6. ServicesSame /\ SoundSame /\ live'.res = live.res /\ live'.codec = live.codec
  BY DEF Aside
<1>7. (Sure' => live'.main = live.main) /\ (Well' => live'.main = live.main)
  BY DEF Aside, Sure, Well
<1>8. /\ MainChosen => MainChosen'
      /\ NameChosen => NameChosen'
      /\ OldRes => OldRes'
  BY <1>1 DEF MainChosen, NameChosen, OldRes
<1>9. \A p : CameraSet(p) => CameraSet(p)'
  BY <1>1, <1>6, <1>7 DEF CameraSet, AsSaved
<1>10. ASSUME job.name = "image", ImageOutline PROVE ImageOutline'
  BY <1>1, <1>2, <1>4, <1>5, <1>6, <1>7, <1>8, <1>9, <1>10 DEF ImageOutline, Start
<1>11. ASSUME job.name = "speaker", SpeakerOutline PROVE SpeakerOutline'
  BY <1>1, <1>2, <1>4, <1>5, <1>6, <1>7, <1>8, <1>9, <1>11 DEF SpeakerOutline, Start, SoundSame
<1>12. ASSUME job.name = "audio", AudioOutline PROVE AudioOutline'
  BY <1>1, <1>2, <1>4, <1>5, <1>6, <1>7, <1>8, <1>9, <1>12 DEF AudioOutline, Start, SoundSame
<1>13. ASSUME job.name = "pref", PrefOutline PROVE PrefOutline'
  BY <1>1, <1>2, <1>4, <1>5, <1>6, <1>7, <1>8, <1>9, <1>13 DEF PrefOutline, Start
<1>14. ASSUME job.name = "zone", ZoneOutline PROVE ZoneOutline'
  BY <1>1, <1>2, <1>4, <1>5, <1>6, <1>7, <1>8, <1>9, <1>14 DEF ZoneOutline, Start, ServicesSame
<1>15. ASSUME job.name = "auto", AutoOutline PROVE AutoOutline'
  BY <1>1, <1>2, <1>4, <1>5, <1>6, <1>7, <1>8, <1>9, <1>15 DEF AutoOutline, Start, ServicesSame
<1>16. ASSUME job.name = "clock", ClockOutline PROVE ClockOutline'
  BY <1>1, <1>2, <1>4, <1>5, <1>6, <1>7, <1>8, <1>9, <1>16 DEF ClockOutline, Start
<1>17. ASSUME job.name = "wifi", WifiOutline PROVE WifiOutline'
  BY <1>1, <1>2, <1>4, <1>5, <1>6, <1>7, <1>8, <1>9, <1>17 DEF WifiOutline, Start, ServicesSame
<1>18. ASSUME job.name = "main", MainOutline PROVE MainOutline'
  BY <1>1, <1>2, <1>4, <1>5, <1>6, <1>7, <1>8, <1>9, <1>18 DEF MainOutline, Start
<1>19. ASSUME job.name = "codec", CodecOutline PROVE CodecOutline'
  BY <1>1, <1>2, <1>4, <1>5, <1>6, <1>7, <1>8, <1>9, <1>19 DEF CodecOutline, CodecIn, Start
<1>20. ASSUME job.name = "res", ResOutline PROVE ResOutline'
  BY <1>1, <1>2, <1>4, <1>5, <1>6, <1>7, <1>8, <1>9, <1>20, ListsStay DEF ResOutline, Start, AsSaved
<1>21. ASSUME job.name = "recover", RecoverOutline PROVE RecoverOutline'
  BY <1>1, <1>2, <1>4, <1>5, <1>6, <1>7, <1>8, <1>9, <1>21, ListsStay DEF RecoverOutline, StartedIt, StillSet
<1>22. ASSUME job.name = "boot", BootOutline PROVE BootOutline'
  <2>1. /\ Speak' = Speak /\ BootLast' = BootLast /\ BootSound' = BootSound
        /\ BootApply' = BootApply /\ BootCodec' = BootCodec /\ BootMain' = BootMain
        /\ BootGraph' = BootGraph /\ BootRtc' = BootRtc
        /\ BootSave' = BootSave /\ BootClock' = BootClock /\ RestoreRtc' = RestoreRtc
        /\ Restore' = Restore
    BY <1>1, BootStays
  <2>2. AudioLater => AudioLater'
    BY <1>4, <1>6 DEF AudioLater, SoundSame, Aside, LiveType, TypeOK
  <2>3. \A p : (StartedIt(p) => StartedIt(p)') /\ (StillSet(p) => StillSet(p)')
    BY <1>1, <1>6, <1>7 DEF StartedIt, StillSet
  <2>4. live.clock >= file.floor => live'.clock >= file.floor
    BY <1>2
  <2>5. live'.zone = live.zone /\ live'.auto = live.auto /\ live'.wifi = live.wifi
        /\ live'.audio = live.audio /\ live'.speaker = live.speaker
    BY <1>6 DEF ServicesSame, SoundSame
  <2> QED BY <1>1, <1>3, <1>4, <1>9, <1>22, <2>1, <2>2, <2>3, <2>4, <2>5 DEF BootOutline
<1>23. Outlined'
  BY <1>1, <1>10, <1>11, <1>12, <1>13, <1>14, <1>15, <1>16, <1>17, <1>18, <1>19, <1>20, <1>21, <1>22 DEF Outlined
<1> QED BY <1>5, <1>23

LEMMA StepVerdict == ASSUME Inv, Verdict PROVE Inv'
<1>1. TypeOK /\ JobOK /\ Right /\ Outlined /\ (Quiet => AsShown)
  BY DEF Inv
<1>2. live \in LiveType /\ faults \in Nat
  BY <1>1 DEF TypeOK
<1>3. UNCHANGED <<file, ui, job, chosen, unsaved, changes, cuts>>
  BY DEF Verdict
<1>4. \/ live' = [live EXCEPT !.pending = FALSE] /\ UNCHANGED <<belied, faults>>
      \/ /\ faults' = faults + 1 /\ belied' = TRUE
         /\ live' = [live EXCEPT !.pending = FALSE, !.main = live.old]
  BY DEF Verdict
<1>5. /\ live' \in LiveType /\ ~live'.pending /\ live'.res = live.res /\ live'.codec = live.codec
      /\ ServicesSame /\ SoundSame /\ ClockSame
      /\ live'.main = live.main \/ (belied' /\ faults' # 0)
      /\ faults' \in Nat /\ (faults' = 0 => faults = 0)
      /\ belied' \in BOOLEAN /\ (belied => belied')
  <2>1. CASE live' = [live EXCEPT !.pending = FALSE] /\ UNCHANGED <<belied, faults>>
    BY <1>1, <1>2, <2>1 DEF LiveType, ServicesSame, SoundSame, ClockSame, TypeOK
  <2>2. CASE /\ faults' = faults + 1 /\ belied' = TRUE
             /\ live' = [live EXCEPT !.pending = FALSE, !.main = live.old]
    <3>1. faults' \in Nat /\ faults' # 0 /\ belied' \in BOOLEAN /\ belied'
      BY <1>2, <2>2
    <3>2. live' = [live EXCEPT !.pending = FALSE, !.main = live.old] /\ live.old \in Videos
      BY <1>2, <2>2 DEF LiveType
    <3>3. /\ live' \in LiveType /\ ~live'.pending /\ live'.res = live.res
          /\ live'.codec = live.codec /\ ServicesSame /\ SoundSame /\ ClockSame
      BY <1>2, <3>2 DEF LiveType, ServicesSame, SoundSame, ClockSame
    <3> QED BY <3>1, <3>3
  <2> QED BY <1>4, <2>1, <2>2
<1>6. live'.clock >= live.clock
  BY <1>2, <1>5 DEF ClockSame, LiveType
<1>7. Outlined' /\ (AsShown => AsShown')
  <2>1. Aside
    BY <1>3, <1>5, <1>6 DEF Aside
  <2> QED BY <1>1, <2>1, OutlinedAside
<1>8. TypeOK' /\ JobOK'
  BY <1>1, <1>3, <1>5 DEF TypeOK, JobOK, IsChoice
<1>9. Right'
  <2> SUFFICES ASSUME faults' = 0
               PROVE  /\ ZoneRight' /\ AutoRight' /\ WifiRight' /\ PrefRight' /\ SpeakerRight'
                      /\ AudioRight' /\ TimeRight' /\ ResRight' /\ MainRight' /\ CodecRight'
                      /\ ~unsaved' /\ job'.kept
    BY DEF Right
  <2>1. /\ ZoneRight /\ AutoRight /\ WifiRight /\ PrefRight /\ SpeakerRight
        /\ AudioRight /\ TimeRight /\ ResRight /\ MainRight /\ CodecRight /\ ~unsaved /\ job.kept
    BY <1>1, <1>5 DEF Right
  <2>2. ZoneRight' /\ AutoRight' /\ WifiRight' /\ PrefRight'
    BY <1>3, <1>5, <2>1 DEF ZoneRight, AutoRight, WifiRight, PrefRight, Doing, ServicesSame
  <2>3. SpeakerRight' /\ AudioRight'
    BY <1>3, <1>5, <2>1
       DEF SpeakerRight, AudioRight, AudioLater, LoadSpeaker, LoadAudio, Doing, SoundSame, Idle
  <2>4. TimeRight'
    BY <1>3, <1>5, <2>1 DEF TimeRight, FloorRight, ClockRight, Doing, ClockSame
  <2>5. ResRight' /\ MainRight' /\ CodecRight'
    BY <1>3, <1>5, <2>1 DEF ResRight, MainRight, CodecRight, Doing, Idle
  <2> QED BY <1>3, <2>1, <2>2, <2>3, <2>4, <2>5
<1> QED BY <1>1, <1>3, <1>7, <1>8, <1>9 DEF Inv, Quiet, Doing

LEMMA StepTick == ASSUME Inv, Tick PROVE Inv'
<1>1. TypeOK /\ JobOK /\ Right /\ Outlined /\ (Quiet => AsShown)
  BY DEF Inv
<1>2. live \in LiveType /\ live.clock \in Nat
  BY <1>1 DEF TypeOK, LiveType
<1>3. UNCHANGED <<file, ui, job, chosen, belied, unsaved, faults, changes, cuts>>
  BY DEF Tick
<1>4. /\ live' \in LiveType /\ live'.clock = live.clock + 1
      /\ CameraSame /\ SoundSame /\ ServicesSame
  BY <1>2 DEF Tick, LiveType, CameraSame, SoundSame, ServicesSame
<1>5. live'.clock >= live.clock
  BY <1>2, <1>4
<1>6. Outlined' /\ (AsShown => AsShown')
  <2>1. Aside
    BY <1>1, <1>3, <1>4, <1>5 DEF Aside, CameraSame, TypeOK
  <2> QED BY <1>1, <2>1, OutlinedAside
<1>7. TypeOK' /\ JobOK'
  BY <1>1, <1>3, <1>4 DEF TypeOK, JobOK, IsChoice
<1>8. Right'
  <2> SUFFICES ASSUME faults' = 0
               PROVE  /\ ZoneRight' /\ AutoRight' /\ WifiRight' /\ PrefRight' /\ SpeakerRight'
                      /\ AudioRight' /\ TimeRight' /\ ResRight' /\ MainRight' /\ CodecRight'
                      /\ ~unsaved' /\ job'.kept
    BY DEF Right
  <2>1. /\ ZoneRight /\ AutoRight /\ WifiRight /\ PrefRight /\ SpeakerRight
        /\ AudioRight /\ TimeRight /\ ResRight /\ MainRight /\ CodecRight /\ ~unsaved /\ job.kept
    BY <1>1, <1>3 DEF Right
  <2>2. ZoneRight' /\ AutoRight' /\ WifiRight' /\ PrefRight'
    BY <1>3, <1>4, <2>1 DEF ZoneRight, AutoRight, WifiRight, PrefRight, Doing, ServicesSame
  <2>3. SpeakerRight' /\ AudioRight'
    BY <1>3, <1>4, <2>1 DEF SpeakerRight, AudioRight, AudioLater, LoadSpeaker, LoadAudio, Doing,
                            SoundSame, CameraSame, Idle
  <2>4. TimeRight'
    <3>1. chosen.clock \subseteq Nat
      BY <1>1 DEF TypeOK, ChosenType
    <3>2. ClockRight => ClockRight'
      BY <1>2, <1>3, <1>4, <3>1 DEF ClockRight
    <3> QED BY <1>3, <2>1, <3>2 DEF TimeRight, FloorRight, Doing
  <2>5. ResRight' /\ MainRight' /\ CodecRight'
    BY <1>3, <1>4, <2>1 DEF ResRight, MainRight, CodecRight, Doing, Idle, CameraSame
  <2> QED BY <1>3, <2>1, <2>2, <2>3, <2>4, <2>5
<1> QED BY <1>1, <1>3, <1>6, <1>7, <1>8 DEF Inv, Quiet, Doing

LEMMA NoJobIs ==
  /\ NoJob = [name |-> NoJob.name, to |-> NoJob.to, ok |-> NoJob.ok, kept |-> NoJob.kept,
              todo |-> NoJob.todo]
  /\ NoJob.name = "none" /\ NoJob.ok = TRUE /\ NoJob.kept = TRUE /\ NoJob.todo = <<>>
  /\ "none" \notin Keys /\ "boot" \notin Keys /\ "recover" \notin Keys
  BY DEF NoJob, Keys, Options

LEMMA NoJobAfter ==
  ASSUME job' = NoJob, ~ui'.up => ~ui'.available
  PROVE  JobOK' /\ Outlined' /\ Quiet' /\ job'.name = "none" /\ job'.kept
  BY NoJobIs DEF JobOK, Outlined, Quiet, Doing, IsChoice

LEMMA StepSaveClock == ASSUME Inv, SaveClock PROVE Inv'
<1>1. TypeOK /\ JobOK /\ Right /\ AsShown /\ job.name = "none" /\ ui.up
  BY DEF Inv, SaveClock, Idle, Quiet, Doing
<1>2. file \in FileType /\ live \in LiveType /\ live.clock \in Nat /\ faults \in Nat
  BY <1>1 DEF TypeOK, LiveType
<1>3. UNCHANGED <<ui, job, chosen, belied, unsaved, changes, cuts>>
  BY DEF SaveClock
<1>4. /\ live' \in LiveType /\ CameraSame /\ SoundSame /\ SystemSame
      /\ file' \in FileType /\ PlainSame({"floor"}) /\ EncodersSame
      /\ file'.floor \in {file.floor, live.clock}
      /\ faults' \in Nat /\ (faults' = 0 => faults = 0)
  <2>1. \/ live' = [live EXCEPT !.rtc = live.clock] /\ faults' = faults
        \/ live' = live /\ faults' = faults + 1
    BY DEF SaveClock, Spend
  <2>2. file' = [file EXCEPT !.floor = live.clock] \/ file' = file
    BY DEF SaveClock, SaveFloor
  <2>3. live' \in LiveType /\ CameraSame /\ SoundSame /\ SystemSame
    BY <1>2, <2>1 DEF LiveType, CameraSame, SoundSame, SystemSame, ServicesSame, ClockSame
  <2>4. /\ file' \in FileType /\ PlainSame({"floor"}) /\ EncodersSame
        /\ file'.floor \in {file.floor, live.clock}
    BY <1>2, <2>2 DEF FileType, PlainSame, EncodersSame
  <2> QED BY <1>2, <2>1, <2>3, <2>4
<1>5. TypeOK' /\ JobOK'
  BY <1>1, <1>3, <1>4 DEF TypeOK, JobOK, IsChoice
<1>6. AsShown'
  BY <1>1, <1>3, <1>4 DEF AsShown, AsSaved, Sure, CameraSame, EncodersSame
<1>7. Right'
  <2> SUFFICES ASSUME faults' = 0
               PROVE  /\ ZoneRight' /\ AutoRight' /\ WifiRight' /\ PrefRight' /\ SpeakerRight'
                      /\ AudioRight' /\ TimeRight' /\ ResRight' /\ MainRight' /\ CodecRight'
                      /\ ~unsaved' /\ job'.kept
    BY DEF Right
  <2>1. /\ ZoneRight /\ AutoRight /\ WifiRight /\ PrefRight /\ SpeakerRight
        /\ AudioRight /\ TimeRight /\ ResRight /\ MainRight /\ CodecRight /\ ~unsaved /\ job.kept
    BY <1>1, <1>4 DEF Right
  <2>2. ZoneRight' /\ AutoRight' /\ WifiRight' /\ PrefRight'
    BY <1>3, <1>4, <2>1
       DEF ZoneRight, AutoRight, WifiRight, PrefRight, Doing, SystemSame, ServicesSame, PlainSame
  <2>3. SpeakerRight' /\ AudioRight'
    BY <1>3, <1>4, <2>1 DEF SpeakerRight, AudioRight, AudioLater, LoadSpeaker, LoadAudio, Doing,
                            SoundSame, CameraSame, PlainSame, Idle
  <2>4. TimeRight'
    BY <1>1, <1>3, <1>4, <2>1 DEF TimeRight, FloorRight, ClockRight, Doing, SystemSame, ClockSame
  <2>5. ResRight' /\ MainRight' /\ CodecRight'
    BY <1>3, <1>4, <2>1
       DEF ResRight, MainRight, CodecRight, Doing, Idle, CameraSame, PlainSame, EncodersSame
  <2> QED BY <1>3, <2>1, <2>2, <2>3, <2>4, <2>5
<1>8. Outlined'
  BY <1>1, <1>3 DEF Outlined
<1> QED BY <1>5, <1>6, <1>7, <1>8 DEF Inv

LEMMA StepRecovery == ASSUME Inv, Recover PROVE Inv'
<1>1. TypeOK /\ JobOK /\ Right /\ job.name = "none" /\ ui.up /\ ~ui.available
  BY DEF Inv, Recover, Idle
<1> DEFINE l == Primary(ui.prof)
<1>2. /\ job' = [NoJob EXCEPT !.name = "recover", !.todo = l]
      /\ belied' = FALSE /\ unsaved' = FALSE
      /\ UNCHANGED <<file, live, ui, chosen, faults, changes, cuts>>
  BY DEF Recover
<1> HIDE DEF l
<1>3. /\ job' = [name |-> job'.name, to |-> job'.to, ok |-> job'.ok, kept |-> job'.kept,
                 todo |-> job'.todo]
      /\ job'.name = "recover" /\ job'.ok = TRUE /\ job'.kept = TRUE /\ job'.todo = l
  BY <1>2 DEF NoJob
<1>4. TypeOK' /\ JobOK'
  BY <1>1, <1>2, <1>3, NoJobIs DEF TypeOK, JobOK, IsChoice
<1>5. Right'
  <2>1. faults = 0 =>
          /\ ZoneRight /\ AutoRight /\ WifiRight /\ PrefRight /\ SpeakerRight
          /\ AudioRight /\ TimeRight /\ ResRight /\ MainRight /\ CodecRight
    BY <1>1 DEF Right
  <2>2. faults = 0 => ZoneRight' /\ AutoRight' /\ WifiRight' /\ PrefRight'
    BY <1>1, <1>2, <1>3, <2>1 DEF ZoneRight, AutoRight, WifiRight, PrefRight, Doing
  <2>3. faults = 0 => SpeakerRight' /\ AudioRight'
    BY <1>1, <1>2, <1>3, <2>1 DEF SpeakerRight, AudioRight, AudioLater, LoadSpeaker, LoadAudio, Doing, Idle
  <2>4. faults = 0 => TimeRight' /\ ResRight' /\ MainRight' /\ CodecRight'
    BY <1>1, <1>2, <1>3, <2>1
       DEF TimeRight, FloorRight, ClockRight, ResRight, MainRight, CodecRight, Doing, Idle
  <2> QED BY <1>2, <1>3, <2>2, <2>3, <2>4 DEF Right
<1>6. Outlined'
  <2>1. l' = l
    BY <1>2, ListsStay DEF l
  <2>2. RecoverOutline'
    BY <1>2, <1>3, <2>1 DEF RecoverOutline, l
  <2> QED BY <1>3, <2>2 DEF Outlined
<1>7. ~Quiet'
  BY <1>3 DEF Quiet, Doing
<1> QED BY <1>4, <1>5, <1>6, <1>7 DEF Inv

LEMMA StartedIs ==
  ASSUME TypeOK, NEW up \in BOOLEAN
  PROVE  /\ Started(up) \in UiType /\ Started(up).up = up /\ ~Started(up).available
         /\ Started(up).prof = file.res /\ Started(up).audio = LoadAudio
         /\ Started(up).shown.zone = file.zone /\ Started(up).shown.auto = file.auto
         /\ Started(up).shown.pref = file.pref /\ Started(up).shown.wifi = file.wifi
<1>1. file \in FileType /\ LoadAudio \in Sounds
  BY DEF TypeOK, FileType, LoadAudio, Sounds
<1> DEFINE s == [image |-> "none", speaker |-> 50, audio |-> "none", main |-> "none",
                 codec |-> "none", res |-> file.res, zone |-> file.zone, auto |-> file.auto,
                 pref |-> file.pref, wifi |-> file.wifi]
<1>2. /\ s \in ShownType /\ s.zone = file.zone /\ s.auto = file.auto /\ s.pref = file.pref
      /\ s.wifi = file.wifi
  BY <1>1 DEF FileType, ShownType
<1>3. Started(up) = [up |-> up, available |-> FALSE, prof |-> file.res, audio |-> LoadAudio,
                     auto |-> file.auto, shown |-> s]
  BY DEF Started
<1> HIDE DEF s
<1> QED BY <1>1, <1>2, <1>3 DEF UiType, FileType

LEMMA StepBooted == ASSUME Inv, Boot PROVE Inv'
<1>1. TypeOK /\ JobOK /\ Right /\ ~ui.up /\ job.name = "none"
  BY DEF Inv, Boot, JobOK
<1> DEFINE l == BootRequests(live.clock)
           u == Started(TRUE)
<1>2. /\ ui' = u /\ job' = [NoJob EXCEPT !.name = "boot", !.todo = l]
      /\ belied' = FALSE /\ unsaved' = FALSE
      /\ UNCHANGED <<file, live, chosen, faults, changes, cuts>>
  BY DEF Boot
<1>3. /\ u \in UiType /\ u.up /\ ~u.available /\ u.prof = file.res /\ u.audio = LoadAudio
      /\ u.shown.zone = file.zone /\ u.shown.auto = file.auto
      /\ u.shown.pref = file.pref /\ u.shown.wifi = file.wifi
  BY <1>1, StartedIs
<1>4. l = IF file.floor > live.clock THEN <<May("zone", file.zone)>> \o Restore
          ELSE <<May("zone", file.zone)>> \o BootClock
  BY BootLists
<1> HIDE DEF l, u
<1>5. /\ job' = [name |-> job'.name, to |-> job'.to, ok |-> job'.ok, kept |-> job'.kept,
                 todo |-> job'.todo]
      /\ job'.name = "boot" /\ job'.ok = TRUE /\ job'.kept = TRUE /\ job'.todo = l
  BY <1>2 DEF NoJob
<1>6. TypeOK' /\ JobOK'
  BY <1>1, <1>2, <1>3, <1>5, NoJobIs DEF TypeOK, JobOK, IsChoice
<1>7. faults = 0 =>
        /\ ZoneRight /\ AutoRight /\ WifiRight /\ PrefRight /\ SpeakerRight
        /\ AudioRight /\ TimeRight /\ ResRight /\ MainRight /\ CodecRight
  BY <1>1 DEF Right
<1>8. Right'
  <2>1. faults = 0 => ZoneRight' /\ AutoRight' /\ WifiRight' /\ PrefRight'
    BY <1>1, <1>2, <1>3, <1>5, <1>7 DEF ZoneRight, AutoRight, WifiRight, PrefRight, Doing
  <2>2. faults = 0 => SpeakerRight' /\ AudioRight'
    BY <1>1, <1>2, <1>3, <1>5, <1>7 DEF SpeakerRight, AudioRight, LoadSpeaker, LoadAudio, Doing, Idle
  <2>3. faults = 0 => TimeRight' /\ ResRight' /\ MainRight' /\ CodecRight'
    BY <1>1, <1>2, <1>3, <1>5, <1>7
       DEF TimeRight, FloorRight, ResRight, MainRight, CodecRight, Doing, Idle
  <2> QED BY <1>2, <1>5, <2>1, <2>2, <2>3 DEF Right
<1>9. BootOutline'
  <2>1. Restore' = Restore /\ BootClock' = BootClock
    BY <1>2, BootStays
  <2>2. faults = 0 => AudioLater'
    BY <1>1, <1>2, <1>7 DEF AudioRight, AudioLater, LoadAudio
  <2>3. ~(file.floor > live.clock) => live.clock >= file.floor
    BY <1>1 DEF TypeOK, FileType, LiveType
  <2>4. /\ job'.kept /\ ~unsaved' /\ ui'.prof = file'.res
        /\ \/ job'.todo = <<May("zone", file'.zone)>> \o Restore'
           \/ /\ job'.todo = <<May("zone", file'.zone)>> \o BootClock'
              /\ live'.clock >= file'.floor
        /\ faults' = 0 => AudioLater'
    BY <1>2, <1>3, <1>4, <1>5, <2>1, <2>2, <2>3
  <2> QED BY <2>4 DEF BootOutline
<1>10. Outlined'
  BY <1>5, <1>9 DEF Outlined
<1>11. ~Quiet'
  BY <1>5 DEF Quiet, Doing
<1> QED BY <1>6, <1>8, <1>10, <1>11 DEF Inv

LEMMA StepPoll == ASSUME Inv, Poll PROVE Inv'
<1>1. TypeOK /\ JobOK /\ Right /\ AsShown /\ job.name = "none" /\ ui.up /\ ui \in UiType
  BY DEF Inv, Poll, Idle, Quiet, Doing, TypeOK
<1>2. UNCHANGED <<live, job, chosen, belied, unsaved, changes, cuts>>
  BY DEF Poll
<1>3. Looked(ui)
  BY <1>1, Looks DEF Poll
<1>4. TypeOK' /\ JobOK'
  BY <1>1, <1>2, <1>3 DEF Looked, TypeOK, JobOK, IsChoice
<1>5. AsShown'
  BY <1>1, <1>2, <1>3 DEF AsShown, AsSaved, Sure, Looked, EncodersSame
<1>6. Right'
  <2> SUFFICES ASSUME faults' = 0
               PROVE  /\ ZoneRight' /\ AutoRight' /\ WifiRight' /\ PrefRight' /\ SpeakerRight'
                      /\ AudioRight' /\ TimeRight' /\ ResRight' /\ MainRight' /\ CodecRight'
                      /\ ~unsaved' /\ job'.kept
    BY DEF Right
  <2>1. /\ ZoneRight /\ AutoRight /\ WifiRight /\ PrefRight /\ SpeakerRight
        /\ AudioRight /\ TimeRight /\ ResRight /\ MainRight /\ CodecRight /\ ~unsaved /\ job.kept
    BY <1>1, <1>3 DEF Right, Looked
  <2>2. ZoneRight' /\ AutoRight' /\ WifiRight' /\ PrefRight'
    BY <1>1, <1>2, <1>3, <2>1
       DEF ZoneRight, AutoRight, WifiRight, PrefRight, Doing, Looked, PlainSame
  <2>3. SpeakerRight'
    BY <1>1, <1>2, <1>3, <2>1 DEF SpeakerRight, LoadSpeaker, Doing, Looked, PlainSame
  <2>4. AudioRight'
    <3>1. LoadAudio' = live.audio /\ ui'.audio = live.audio /\ ui'.shown.audio = live.audio /\ ui'.up
      BY <1>1, <1>3, <2>1 DEF AudioRight, Looked
    <3> QED BY <1>1, <1>2, <2>1, <3>1 DEF AudioRight, Doing
  <2>5. TimeRight' /\ ResRight' /\ MainRight' /\ CodecRight'
    BY <1>1, <1>2, <1>3, <2>1 DEF TimeRight, FloorRight, ClockRight, ResRight, MainRight, CodecRight,
                                  Doing, Idle, Looked, PlainSame, EncodersSame
  <2> QED BY <1>2, <2>1, <2>2, <2>3, <2>4, <2>5
<1>7. Outlined'
  BY <1>1, <1>2 DEF Outlined
<1> QED BY <1>4, <1>5, <1>6, <1>7 DEF Inv

(* A choice begins its outline.                                             *)
LEMMA StepChoose == ASSUME Inv, Choose PROVE Inv'
<1>1. TypeOK /\ JobOK /\ Right /\ AsShown /\ job.name = "none" /\ ui.up
  BY DEF Inv, Choose, Idle, Quiet, Doing
<1>0. PICK key \in Keys :
        \E v \in Options[key] :
          job' = [NoJob EXCEPT !.name = key, !.to = v, !.todo = Orders(key, v)]
  BY DEF Choose
<1>2. PICK v \in Options[key] :
        job' = [NoJob EXCEPT !.name = key, !.to = v, !.todo = Orders(key, v)]
  BY <1>0
<1>3. /\ UNCHANGED <<file, live, ui, chosen, belied, unsaved, faults, cuts>>
      /\ changes' \in Nat
  BY <1>1 DEF Choose, TypeOK
<1> DEFINE l == Orders(key, v)
<1> HIDE DEF l
<1>4. /\ job' = [name |-> job'.name, to |-> job'.to, ok |-> job'.ok, kept |-> job'.kept,
                 todo |-> job'.todo]
      /\ job'.name = key /\ job'.to = v /\ job'.ok = TRUE /\ job'.kept = TRUE /\ job'.todo = l
  BY <1>2 DEF NoJob, l
<1>5. TypeOK' /\ JobOK'
  BY <1>1, <1>3, <1>4, NoJobIs DEF TypeOK, JobOK, IsChoice
<1>6. faults = 0 =>
        /\ ZoneRight /\ AutoRight /\ WifiRight /\ PrefRight /\ SpeakerRight
        /\ AudioRight /\ TimeRight /\ ResRight /\ MainRight /\ CodecRight /\ ~unsaved
  BY <1>1 DEF Right
<1>7. Right'
  <2>1. faults = 0 => ZoneRight' /\ AutoRight' /\ WifiRight' /\ PrefRight'
    BY <1>1, <1>3, <1>4, <1>6 DEF ZoneRight, AutoRight, WifiRight, PrefRight, Doing
  <2>2. faults = 0 => SpeakerRight' /\ AudioRight'
    BY <1>1, <1>3, <1>4, <1>6, NoJobIs DEF SpeakerRight, AudioRight, LoadSpeaker, LoadAudio, Doing, Idle
  <2>3. faults = 0 => TimeRight' /\ ResRight' /\ MainRight' /\ CodecRight'
    BY <1>1, <1>3, <1>4, <1>6, NoJobIs
       DEF TimeRight, FloorRight, ClockRight, ResRight, MainRight, CodecRight, Doing, Idle
  <2> QED BY <1>3, <1>4, <1>6, <2>1, <2>2, <2>3 DEF Right
<1>8. AsShown'
  BY <1>1, <1>3 DEF AsShown, AsSaved, Sure
<1>9. Start'
  BY <1>4 DEF Start
<1>10. faults' = 0 =>
         /\ file'.zone \in chosen'.zone /\ file'.auto \in chosen'.auto
         /\ file'.wifi \in chosen'.wifi /\ file'.pref \in chosen'.pref
         /\ LoadSpeaker' \in chosen'.speaker /\ FloorRight' /\ MainChosen' /\ NameChosen' /\ OldRes'
  <2>1. ui.prof \in Profiles
    BY <1>1 DEF TypeOK, UiType
  <2> QED BY <1>1, <1>3, <1>6, <2>1
          DEF ZoneRight, AutoRight, WifiRight, PrefRight, SpeakerRight, TimeRight, FloorRight,
              MainRight, CodecRight, ResRight, MainChosen, NameChosen, OldRes, LoadSpeaker, Doing
<1>20. Outlined'
  <2>1. CASE key = "image"
    <3>1. l = <<Must("image", v), Keep("image", v)>>
      BY <2>1 DEF l, Orders
    <3>2. ImageOutline'
      BY <1>4, <1>8, <1>9, <1>10, <3>1 DEF ImageOutline
    <3> QED BY <1>4, <2>1, <3>2 DEF Outlined
  <2>2. CASE key = "speaker"
    <3>1. l = <<Must("speaker", v), Keep("speaker", v)>>
      BY <2>2 DEF l, Orders
    <3>2. SpeakerOutline'
      BY <1>4, <1>8, <1>9, <1>10, <3>1 DEF SpeakerOutline
    <3> QED BY <1>4, <2>2, <3>2 DEF Outlined
  <2>3. CASE key = "audio"
    <3>1. l = <<Must("audio", v)>>
      BY <2>3 DEF l, Orders
    <3>2. AudioOutline'
      BY <1>4, <1>8, <1>9, <1>10, <3>1 DEF AudioOutline
    <3> QED BY <1>4, <2>3, <3>2 DEF Outlined
  <2>4. CASE key = "pref"
    <3>1. l = <<Must("save", <<"pref", v>>)>>
      BY <2>4 DEF l, Orders
    <3>2. PrefOutline'
      BY <1>4, <1>8, <1>9, <1>10, <3>1 DEF PrefOutline
    <3> QED BY <1>4, <2>4, <3>2 DEF Outlined
  <2>5. CASE key = "zone"
    <3>1. l = <<Must("save", <<"zone", v>>), Must("zone", v)>>
      BY <2>5 DEF l, Orders
    <3>2. ZoneOutline'
      BY <1>4, <1>8, <1>9, <1>10, <3>1 DEF ZoneOutline
    <3> QED BY <1>4, <2>5, <3>2 DEF Outlined
  <2>6. CASE key = "auto"
    <3>1. l = <<Must("save", <<"auto", v>>), Must("auto", v)>>
      BY <2>6 DEF l, Orders
    <3>2. AutoOutline'
      BY <1>4, <1>8, <1>9, <1>10, <3>1 DEF AutoOutline
    <3> QED BY <1>4, <2>6, <3>2 DEF Outlined
  <2>7. CASE key = "clock"
    <3>1. l = <<Must("clock", v), Floor, Must("rtc", 0)>>
      BY <2>7 DEF l, Orders
    <3>2. ClockOutline'
      BY <1>4, <1>8, <1>9, <1>10, <3>1 DEF ClockOutline
    <3> QED BY <1>4, <2>7, <3>2 DEF Outlined
  <2>8. CASE key = "wifi"
    <3>1. l = <<Note("wifi", v), May("save", <<"wifi", v>>)>>
      BY <2>8 DEF l, Orders
    <3>2. WifiOutline'
      BY <1>4, <1>8, <1>9, <1>10, <3>1 DEF WifiOutline
    <3> QED BY <1>4, <2>8, <3>2 DEF Outlined
  <2>9. CASE key = "main"
    <3>1. l = <<Must("main", v), Keep("main", v)>>
      BY <2>9 DEF l, Orders
    <3>3. MainChosen'
      BY <1>10 DEF MainChosen
    <3>2. MainOutline'
      BY <1>4, <1>8, <1>9, <3>1, <3>3 DEF MainOutline
    <3> QED BY <1>4, <2>9, <3>2 DEF Outlined
  <2>10. CASE key = "codec"
    <3>1. l = <<Must("codec", Attr(Parts(v))), Keep("cp", v), Keep("v", Parts(v).v), Keep("p", Parts(v).p)>>
      BY <2>10 DEF l, Orders
    <3>3. NameChosen'
      BY <1>10 DEF NameChosen
    <3>2. CodecOutline'
      BY <1>4, <1>8, <1>9, <3>1, <3>3 DEF CodecOutline
    <3> QED BY <1>4, <2>10, <3>2 DEF Outlined
  <2>11. CASE key = "res"
    <3>1. l = Orders("res", v) /\ Orders("res", v)' = Orders("res", v)
      BY <1>3, <2>11, ListsStay DEF l
    <3>2. OldRes'
      BY <1>3, <1>10 DEF OldRes
    <3>3. ResOutline'
      BY <1>4, <1>8, <1>9, <3>1, <3>2 DEF ResOutline
    <3> QED BY <1>4, <2>11, <3>3 DEF Outlined
  <2>12. key \in {"image", "speaker", "audio", "main", "codec", "res", "zone", "auto", "clock", "pref",
                  "wifi"}
    BY DEF Keys, Options
  <2> QED BY <2>1, <2>2, <2>3, <2>4, <2>5, <2>6, <2>7, <2>8, <2>9, <2>10, <2>11, <2>12
<1> QED BY <1>5, <1>7, <1>8, <1>20 DEF Inv

(* What a job has done to the card when it is cut short, and when it ends.   *)
Left(key, S) ==
  /\ file.zone \in IF key = "zone" THEN chosen.zone \cup S ELSE chosen.zone
  /\ file.auto \in IF key = "auto" THEN chosen.auto \cup S ELSE chosen.auto
  /\ file.wifi \in IF key = "wifi" THEN chosen.wifi \cup S ELSE chosen.wifi
  /\ file.pref \in IF key = "pref" THEN chosen.pref \cup S ELSE chosen.pref
  /\ LoadSpeaker \in IF key = "speaker" THEN chosen.speaker \cup S ELSE chosen.speaker
  /\ file.res \in IF key = "res" THEN chosen.res \cup S ELSE chosen.res
  /\ FloorRight \/ (key = "clock" /\ \E c \in S : file.floor >= c)
  /\ key = "main" => file.main[ui.prof] \in chosen.main[ui.prof] \cup S
  /\ key = "codec" => CodecName(file.codec[ui.prof]) \in chosen.codec[ui.prof] \cup S
LEMMA CutShort ==
  ASSUME TypeOK, JobOK, Right, Outlined, faults = 0
  PROVE  Left(job.name, Amounts)
<1>1. /\ ZoneRight /\ AutoRight /\ WifiRight /\ PrefRight /\ SpeakerRight /\ AudioRight
      /\ TimeRight /\ ResRight /\ MainRight /\ CodecRight /\ job.kept
  BY DEF Right
<1>2. job.to \in Amounts /\ (job.name = "codec" => "H264_MAIN" \in Amounts)
  BY DEF Amounts
<1>3. file.zone \in IF job.name = "zone" THEN chosen.zone \cup Amounts ELSE chosen.zone
  <2>1. CASE job.name = "zone"
    <3>1. ZoneOutline
      BY <2>1 DEF Outlined
    <3> QED BY <1>1, <1>2, <2>1, <3>1 DEF ZoneOutline
  <2> QED BY <1>1, <2>1 DEF ZoneRight, Doing
<1>4. file.auto \in IF job.name = "auto" THEN chosen.auto \cup Amounts ELSE chosen.auto
  <2>1. CASE job.name = "auto"
    <3>1. AutoOutline
      BY <2>1 DEF Outlined
    <3> QED BY <1>1, <1>2, <2>1, <3>1 DEF AutoOutline
  <2> QED BY <1>1, <2>1 DEF AutoRight, Doing
<1>5. file.wifi \in IF job.name = "wifi" THEN chosen.wifi \cup Amounts ELSE chosen.wifi
  <2>1. CASE job.name = "wifi"
    <3>1. WifiOutline
      BY <2>1 DEF Outlined
    <3> QED BY <1>1, <1>2, <2>1, <3>1 DEF WifiOutline
  <2> QED BY <1>1, <2>1 DEF WifiRight, Doing
<1>6. file.pref \in IF job.name = "pref" THEN chosen.pref \cup Amounts ELSE chosen.pref
  <2>1. CASE job.name = "pref"
    <3>1. PrefOutline
      BY <2>1 DEF Outlined
    <3> QED BY <1>1, <1>2, <2>1, <3>1 DEF PrefOutline
  <2> QED BY <1>1, <2>1 DEF PrefRight, Doing
<1>7. LoadSpeaker \in IF job.name = "speaker" THEN chosen.speaker \cup Amounts ELSE chosen.speaker
  <2>1. CASE job.name = "speaker"
    <3>1. SpeakerOutline /\ job.to \in {50, 100}
      BY <2>1 DEF Outlined, JobOK, IsChoice, Keys, Options
    <3>2. file.speaker = job.to => LoadSpeaker = job.to
      BY <3>1 DEF LoadSpeaker
    <3> QED BY <1>1, <1>2, <2>1, <3>1, <3>2 DEF SpeakerOutline
  <2> QED BY <1>1, <2>1 DEF SpeakerRight, Doing
<1>8. file.res \in IF job.name = "res" THEN chosen.res \cup Amounts ELSE chosen.res
  <2>1. CASE job.name = "res"
    <3>1. ResOutline
      BY <2>1 DEF Outlined
    <3>2. OldRes \/ file.res = job.to
      BY <1>1, <3>1 DEF ResOutline
    <3> QED BY <1>2, <2>1, <3>2 DEF OldRes
  <2> QED BY <1>1, <2>1 DEF ResRight, Doing
<1>9. FloorRight \/ (job.name = "clock" /\ \E c \in Amounts : file.floor >= c)
  <2>1. CASE job.name = "clock"
    <3>1. ClockOutline
      BY <2>1 DEF Outlined
    <3> QED BY <1>1, <1>2, <2>1, <3>1 DEF ClockOutline
  <2> QED BY <1>1, <2>1 DEF TimeRight, Doing
<1>10. job.name = "main" => file.main[ui.prof] \in chosen.main[ui.prof] \cup Amounts
  <2>1. job.name = "main" => MainOutline
    BY DEF Outlined
  <2> QED BY <1>1, <1>2, <2>1 DEF MainOutline, MainChosen
<1>11. job.name = "codec" => CodecName(file.codec[ui.prof]) \in chosen.codec[ui.prof] \cup Amounts
  <2> SUFFICES ASSUME job.name = "codec"
               PROVE  CodecName(file.codec[ui.prof]) \in chosen.codec[ui.prof] \cup Amounts
    OBVIOUS
  <2>1. CodecOutline /\ job.to \in {"H264_HIGH", "H265_MAIN"}
    BY DEF Outlined, JobOK, IsChoice, Keys, Options
  <2>2. CodecName(Parts(job.to)) = job.to
    BY <2>1 DEF CodecName, Parts
  <2>3. \/ NameChosen
        \/ CodecName(file.codec[ui.prof]) \in {job.to, "H264_MAIN"}
        \/ file.codec[ui.prof] = Parts(job.to)
    BY <1>1, <2>1 DEF CodecOutline
  <2> QED BY <1>2, <2>2, <2>3 DEF NameChosen
<1> QED BY <1>3, <1>4, <1>5, <1>6, <1>7, <1>8, <1>9, <1>10, <1>11 DEF Left

LEMMA AmountsTyped ==
  ASSUME TypeOK, JobOK, IsChoice
  PROVE  /\ Chosen(job.name) \cup Amounts \subseteq Values(job.name)
         /\ {job.to} \subseteq Values(job.name)
         /\ Chosen(job.name) = IF job.name \in PerProfile THEN chosen[job.name][ui.prof]
                               ELSE chosen[job.name]
<1>1. job.name \in Keys /\ job.to \in Options[job.name] /\ chosen \in ChosenType /\ ui.prof \in Profiles
  BY DEF IsChoice, JobOK, TypeOK, UiType
<1>2. job.name \in {"image", "speaker", "audio", "main", "codec", "res", "zone", "auto", "clock",
                    "pref", "wifi"}
  BY <1>1 DEF Keys, Options
<1>3. /\ job.to \in Values(job.name)
      /\ job.name = "codec" => "H264_MAIN" \in Values(job.name)
      /\ Chosen(job.name) \subseteq Values(job.name)
  <2>1. CASE job.name = "image"
    BY <1>1, <2>1 DEF Values, Options, ChosenType, Chosen, PerProfile, Images
  <2>2. CASE job.name = "speaker"
    BY <1>1, <2>2 DEF Values, Options, ChosenType, Chosen, PerProfile
  <2>3. CASE job.name = "audio"
    BY <1>1, <2>3 DEF Values, Options, ChosenType, Chosen, PerProfile, Sounds
  <2>4. CASE job.name = "main"
    BY <1>1, <2>4 DEF Values, Options, ChosenType, Chosen, PerProfile, Videos
  <2>5. CASE job.name = "codec"
    BY <1>1, <2>5 DEF Values, Options, ChosenType, Chosen, PerProfile, Names
  <2>6. CASE job.name = "res"
    BY <1>1, <2>6 DEF Values, Options, ChosenType, Chosen, PerProfile
  <2>7. CASE job.name = "zone"
    BY <1>1, <2>7 DEF Values, Options, ChosenType, Chosen, PerProfile, Zones
  <2>8. CASE job.name = "auto"
    BY <1>1, <2>8 DEF Values, Options, ChosenType, Chosen, PerProfile, Bit
  <2>9. CASE job.name = "clock"
    BY <1>1, <2>9 DEF Values, Options, ChosenType, Chosen, PerProfile
  <2>10. CASE job.name = "pref"
    BY <1>1, <2>10 DEF Values, Options, ChosenType, Chosen, PerProfile, Bit
  <2>11. CASE job.name = "wifi"
    BY <1>1, <2>11 DEF Values, Options, ChosenType, Chosen, PerProfile, Bit
  <2> QED BY <1>2, <2>1, <2>2, <2>3, <2>4, <2>5, <2>6, <2>7, <2>8, <2>9, <2>10, <2>11
<1> QED BY <1>3 DEF Amounts, Chosen

LEMMA StepDown ==
  ASSUME Inv, NEW l, Down(l), l \in LiveType, ui.up,
         \/ file' = file /\ \E clock \in Nat : l = PowerOn(clock)
         \/ /\ job.name = "none" /\ CameraSame /\ SoundSame /\ SystemSame
            /\ \/ file' = file
               \/ file' = [file EXCEPT !.floor = live.clock]
  PROVE  Inv'
<1>1. TypeOK /\ JobOK /\ Right /\ Outlined /\ file \in FileType /\ ui \in UiType
  BY DEF Inv, TypeOK
<1>2. /\ live' = l /\ ui' = [ui EXCEPT !.up = FALSE, !.available = FALSE] /\ job' = NoJob
      /\ UNCHANGED <<belied, unsaved, faults, changes>> /\ cuts' \in Nat
  BY <1>1 DEF Down, TypeOK
<1>3. chosen' = IF IsChoice THEN Now(job.name, Chosen(job.name) \cup Amounts) ELSE chosen
  BY DEF Down
<1>4. ui' \in UiType /\ ~ui'.up /\ ~ui'.available
  BY <1>1, <1>2 DEF UiType
<1>5. JobOK' /\ Outlined' /\ job'.name = "none" /\ job'.kept
  BY <1>2, <1>4, NoJobAfter
<1>6. /\ file' \in FileType /\ PlainSame({"floor"}) /\ EncodersSame
      /\ file'.floor = file.floor \/ (job.name = "none" /\ file'.floor = live.clock)
  <2>1. live.clock \in Nat
    BY <1>1 DEF TypeOK, LiveType
  <2> QED BY <1>1, <2>1 DEF FileType, PlainSame, EncodersSame
<1>7. \/ job.name \notin Keys /\ chosen' = chosen
      \/ job.name \in Keys /\ NowIs(job.name, Chosen(job.name) \cup Amounts, chosen')
  <2>1. CASE IsChoice
    <3>1. Chosen(job.name) \cup Amounts \subseteq Values(job.name) /\ job.name \in Keys
      BY <1>1, <2>1, AmountsTyped DEF IsChoice
    <3>2. chosen' = Now(job.name, Chosen(job.name) \cup Amounts)
      BY <1>3, <2>1
    <3> QED BY <1>1, <3>1, <3>2, NowSets
  <2> QED BY <1>3, <2>1 DEF IsChoice
<1>8. TypeOK'
  BY <1>1, <1>2, <1>4, <1>6, <1>7 DEF TypeOK, NowIs
<1>9. AsShown'
  BY <1>4 DEF AsShown, Sure
<1>10. Right'
  <2> SUFFICES ASSUME faults' = 0
               PROVE  /\ ZoneRight' /\ AutoRight' /\ WifiRight' /\ PrefRight' /\ SpeakerRight'
                      /\ AudioRight' /\ TimeRight' /\ ResRight' /\ MainRight' /\ CodecRight'
                      /\ ~unsaved' /\ job'.kept
    BY DEF Right
  <2>1. /\ ZoneRight /\ AutoRight /\ WifiRight /\ PrefRight /\ SpeakerRight /\ AudioRight
        /\ TimeRight /\ ResRight /\ MainRight /\ CodecRight /\ ~unsaved /\ job.kept
    BY <1>1, <1>2 DEF Right
  <2>2. Left(job.name, Amounts)
    BY <1>1, <1>2, CutShort
  <2>3. job.name \in Keys => Chosen(job.name) = IF job.name \in PerProfile THEN chosen[job.name][ui.prof]
                                                ELSE chosen[job.name]
    BY DEF Chosen
  <2>4. /\ file.zone \in chosen'.zone /\ file.auto \in chosen'.auto /\ file.wifi \in chosen'.wifi
        /\ file.pref \in chosen'.pref /\ LoadSpeaker \in chosen'.speaker /\ file.res \in chosen'.res
        /\ \E c \in chosen'.clock : file.floor >= c
        /\ LoadAudio \in chosen'.audio
    <3>1. CASE job.name \notin Keys /\ chosen' = chosen
      <4>1. job.name \notin {"zone", "auto", "wifi", "pref", "speaker", "res", "clock"}
        BY <3>1 DEF Keys, Options
      <4> QED BY <2>1, <2>2, <3>1, <4>1 DEF Left, FloorRight, AudioRight
    <3>2. CASE job.name \in Keys /\ NowIs(job.name, Chosen(job.name) \cup Amounts, chosen')
      <4>1. /\ job.name = "zone" => Chosen(job.name) = chosen.zone
            /\ job.name = "auto" => Chosen(job.name) = chosen.auto
            /\ job.name = "wifi" => Chosen(job.name) = chosen.wifi
            /\ job.name = "pref" => Chosen(job.name) = chosen.pref
            /\ job.name = "speaker" => Chosen(job.name) = chosen.speaker
            /\ job.name = "res" => Chosen(job.name) = chosen.res
            /\ job.name = "clock" => Chosen(job.name) = chosen.clock
            /\ job.name = "audio" => Chosen(job.name) = chosen.audio
        BY DEF Chosen, PerProfile
      <4>2. /\ file.zone \in chosen'.zone /\ file.auto \in chosen'.auto /\ file.wifi \in chosen'.wifi
            /\ file.pref \in chosen'.pref
        BY <2>2, <3>2, <4>1 DEF Left, NowIs
      <4>3. LoadSpeaker \in chosen'.speaker /\ file.res \in chosen'.res
        BY <2>2, <3>2, <4>1 DEF Left, NowIs
      <4>4. \E c \in chosen'.clock : file.floor >= c
        BY <2>2, <3>2, <4>1 DEF Left, NowIs, FloorRight
      <4>5. LoadAudio \in chosen'.audio
        BY <2>1, <3>2, <4>1 DEF NowIs, AudioRight
      <4> QED BY <4>2, <4>3, <4>4, <4>5
    <3> QED BY <1>7, <3>1, <3>2
  <2>5. ASSUME NEW p \in Profiles
        PROVE  file.main[p] \in chosen'.main[p] /\ CodecName(file.codec[p]) \in chosen'.codec[p]
    <3>1. /\ ~(job.name = "main" /\ p = ui.prof) => file.main[p] \in chosen.main[p]
          /\ ~(job.name = "codec" /\ p = ui.prof) => CodecName(file.codec[p]) \in chosen.codec[p]
      BY <2>1, <2>5 DEF MainRight, CodecRight, Doing
    <3>2. /\ job.name = "main" => Chosen(job.name) = chosen.main[ui.prof]
          /\ job.name = "codec" => Chosen(job.name) = chosen.codec[ui.prof]
      BY DEF Chosen, PerProfile
    <3>3. job.name \notin Keys => job.name \notin {"main", "codec"}
      BY DEF Keys, Options
    <3> QED BY <1>7, <2>2, <2>5, <3>1, <3>2, <3>3 DEF Left, NowIs
  <2>6. ZoneRight' /\ PrefRight' /\ ResRight'
    BY <1>4, <1>5, <1>6, <2>4 DEF ZoneRight, PrefRight, ResRight, PlainSame, Doing, Idle
  <2>7. AutoRight' /\ WifiRight'
    <3>1. live'.auto \in {0, file.auto} /\ live'.wifi \in {0, file.wifi}
      BY <1>2, <2>1 DEF PowerOn, AutoRight, WifiRight, Doing, SystemSame, ServicesSame
    <3> QED BY <1>4, <1>6, <2>4, <3>1 DEF AutoRight, WifiRight, PlainSame
  <2>8. SpeakerRight' /\ AudioRight'
    <3>1. AudioLater'
      <4>1. CASE \E clock \in Nat : l = PowerOn(clock)
        BY <1>2, <4>1 DEF PowerOn, AudioLater
      <4>2. CASE job.name = "none" /\ SoundSame
        BY <1>6, <2>1, <4>2 DEF AudioRight, AudioLater, LoadAudio, Doing, SoundSame, PlainSame
      <4> QED BY <4>1, <4>2
    <3>2. LoadAudio' = LoadAudio /\ LoadSpeaker' = LoadSpeaker
      BY <1>6 DEF LoadAudio, LoadSpeaker, PlainSame
    <3> QED BY <1>4, <2>4, <3>1, <3>2 DEF SpeakerRight, AudioRight, Idle
  <2>9. TimeRight'
    <3>1. FloorRight'
      <4>1. CASE file'.floor = file.floor
        BY <2>4, <4>1 DEF FloorRight
      <4>2. CASE job.name = "none" /\ file'.floor = live.clock
        <5>1. chosen' = chosen
          BY <1>7, <4>2, NoJobIs
        <5> QED BY <2>1, <4>2, <5>1 DEF TimeRight, FloorRight, ClockRight, Doing
      <4> QED BY <1>6, <4>1, <4>2
    <3> QED BY <1>4, <3>1 DEF TimeRight
  <2>10. MainRight' /\ CodecRight'
    BY <1>4, <1>6, <2>5 DEF MainRight, CodecRight, EncodersSame, Idle
  <2> QED BY <1>2, <1>5, <2>1, <2>6, <2>7, <2>8, <2>9, <2>10
<1> QED BY <1>5, <1>8, <1>9, <1>10 DEF Inv

LEMMA PowerOnIs == ASSUME NEW clock \in Nat PROVE PowerOn(clock) \in LiveType
<1> DEFINE a == Attr(Parts("H264_HIGH"))
<1>1. a \in Attrs
  BY DEF Attr, Parts, Attrs, Videos
<1>2. PowerOn(clock) =
        [image |-> "auto", audio |-> "auto", speaker |-> 0, main |-> "H264",
         codec |-> a, res |-> "none", pending |-> FALSE, old |-> "H264",
         zone |-> "UTC", auto |-> 0, wifi |-> 0, clock |-> clock, rtc |-> clock]
  BY DEF PowerOn
<1> HIDE DEF a
<1> QED BY <1>1, <1>2 DEF LiveType, Images, Sounds, Videos, Zones, Bit

LEMMA StepPowerCut == ASSUME Inv, PowerCut PROVE Inv'
<1>1. PICK clock \in {live.rtc, 0} : Down(PowerOn(clock))
  BY DEF PowerCut
<1>2. clock \in Nat
  BY DEF Inv, TypeOK, LiveType
<1>3. ui.up /\ file' = file
  BY DEF PowerCut
<1> QED BY <1>1, <1>2, <1>3, PowerOnIs, StepDown

LEMMA StepUiEnds == ASSUME Inv, UiEnds PROVE Inv'
<1>1. live \in LiveType /\ job.name = "none" /\ ui.up
  BY DEF Inv, TypeOK, UiEnds, Idle
<1>2. PICK l \in {live, [live EXCEPT !.rtc = live.clock]} :
        Down(l) /\ (file' = file \/ file' = [file EXCEPT !.floor = live.clock])
  BY DEF UiEnds, SaveFloor
<1>3. l \in LiveType /\ live' = l
  BY <1>1, <1>2 DEF LiveType, Down
<1>4. CameraSame /\ SoundSame /\ SystemSame
  BY <1>1, <1>2, <1>3
     DEF LiveType, CameraSame, SoundSame, SystemSame, ServicesSame, ClockSame
<1> QED BY <1>1, <1>2, <1>3, <1>4, StepDown

(* What each job has come to when nothing of it is left to be done.          *)
SpeakerDone == /\ Start => file.speaker = job.to
               /\ faults = 0 => Start /\ live.speaker = job.to
AudioDone == faults = 0 => Start /\ live.audio = job.to
PrefDone == (Start => file.pref = job.to) /\ (faults = 0 => Start)
ZoneDone == (Start => file.zone = job.to) /\ (faults = 0 => Start /\ live.zone = job.to)
AutoDone == (Start => file.auto = job.to) /\ (faults = 0 => Start /\ live.auto = job.to)
ClockDone == (Start => file.floor >= job.to) /\ (faults = 0 => Start /\ live.clock >= job.to)
WifiDone == faults = 0 => Start /\ live.wifi = job.to /\ file.wifi = job.to
MainDone == /\ job.ok /\ job.kept => file.main[ui.prof] = job.to /\ AsShown
            /\ ~job.ok => AsShown /\ MainChosen
            /\ Sure => live.res = ui.prof
CodecDone == /\ job.ok /\ job.kept => file.codec[ui.prof] = Parts(job.to) /\ AsShown
             /\ ~job.ok => AsShown /\ NameChosen
             /\ Sure => live.res = ui.prof
ResDone == /\ job.ok => (Sure => live.res = job.to /\ AsSaved(job.to))
           /\ job.ok /\ job.kept => file.res = job.to
           /\ ~job.ok => AsShown /\ OldRes
RecoverDone == job.kept /\ ~unsaved /\ CameraSet(ui.prof)
BootDone ==
  /\ job.kept /\ ~unsaved /\ ui.prof = file.res /\ CameraSet(file.res)
  /\ faults = 0 => /\ live.zone = file.zone /\ ClockRight /\ live.auto = file.auto
                   /\ live.wifi = file.wifi /\ live.audio = LoadAudio
                   /\ live.speaker = LoadSpeaker /\ ui.shown.speaker = LoadSpeaker
LEMMA AllDone ==
  ASSUME Outlined, job.todo = <<>>
  PROVE  /\ job.name = "image" => (Start => file.image = job.to)
         /\ job.name = "speaker" => SpeakerDone
         /\ job.name = "audio" => AudioDone
         /\ job.name = "pref" => PrefDone
         /\ job.name = "zone" => ZoneDone
         /\ job.name = "auto" => AutoDone
         /\ job.name = "clock" => ClockDone
         /\ job.name = "wifi" => WifiDone
         /\ job.name = "main" => MainDone
         /\ job.name = "codec" => CodecDone
         /\ job.name = "res" => ResDone
         /\ job.name = "recover" => RecoverDone
         /\ job.name = "boot" => BootDone
<1>1. /\ \A a : <<a>> # <<>>
      /\ \A a, b : <<a, b>> # <<>>
      /\ \A a, b, c : <<a, b, c>> # <<>>
      /\ \A a, b, c, d : <<a, b, c, d>> # <<>>
  BY Explicit
<1>2. \A a, s : IsList(s) => <<a>> \o s # <<>>
  BY PutFirst
<1>3. job.name = "image" => (Start => file.image = job.to)
  BY <1>1 DEF Outlined, ImageOutline
<1>4. job.name = "speaker" => SpeakerDone
  BY <1>1 DEF Outlined, SpeakerOutline, SpeakerDone
<1>5. job.name = "audio" => AudioDone
  BY <1>1 DEF Outlined, AudioOutline, AudioDone
<1>6. job.name = "pref" => PrefDone
  BY <1>1 DEF Outlined, PrefOutline, PrefDone
<1>7. job.name = "zone" => ZoneDone
  BY <1>1 DEF Outlined, ZoneOutline, ZoneDone
<1>8. job.name = "auto" => AutoDone
  BY <1>1 DEF Outlined, AutoOutline, AutoDone
<1>9. job.name = "clock" => ClockDone
  BY <1>1 DEF Outlined, ClockOutline, ClockDone
<1>10. job.name = "wifi" => WifiDone
  BY <1>1 DEF Outlined, WifiOutline, WifiDone
<1>11. job.name = "main" => MainDone
  <2>1. job.name = "main" => MainOutline
    BY DEF Outlined
  <2> QED BY <1>1, <2>1 DEF MainOutline, MainDone
<1>12. job.name = "codec" => CodecDone
  <2>1. job.name = "codec" => CodecOutline
    BY DEF Outlined
  <2> QED BY <1>1, <2>1 DEF CodecOutline, CodecDone
<1>13. job.name = "res" => ResDone
  <2>1. job.name = "res" => ResOutline
    BY DEF Outlined
  <2>3. Settle # <<>> /\ \A to : ResEnd(to) # <<>>
    BY <1>1 DEF Settle, ResEnd
  <2>4. BackCodec # <<>>
    BY <1>2, CameraLists DEF BackCodec
  <2>5. \A to : ResCodec(to) # <<>>
    BY <1>2, CameraLists DEF ResCodec
  <2>6. Rollback # <<>> /\ BackMain # <<>>
    BY <1>2, CameraLists
  <2>7. ASSUME NEW to PROVE Orders("res", to) # <<>> /\ ResMain(to) # <<>>
    <3>1. /\ IsList(ResCodec(to)) /\ IsList(ResMain(to))
          /\ ResMain(to) = <<MustElse("main", file.main[to], Rollback)>> \o ResCodec(to)
          /\ Orders("res", to) = <<Must("start", to)>> \o ResMain(to)
      BY CameraLists
    <3> QED BY <1>2, <3>1
  <2>2. /\ Rollback # <<>> /\ BackMain # <<>> /\ BackCodec # <<>> /\ Settle # <<>>
        /\ \A to : /\ Orders("res", to) # <<>> /\ ResMain(to) # <<>> /\ ResCodec(to) # <<>>
                   /\ ResEnd(to) # <<>>
    BY <2>3, <2>4, <2>5, <2>6, <2>7
  <2> QED BY <1>1, <2>1, <2>2 DEF ResOutline, ResDone
<1>14. job.name = "recover" => RecoverDone
  <2>1. job.name = "recover" => RecoverOutline
    BY DEF Outlined
  <2>2. Primary(ui.prof) # <<>> /\ RecoverMain # <<>> /\ RecoverCodec # <<>>
    BY <1>2, CameraLists DEF RecoverCodec
  <2> QED BY <2>1, <2>2 DEF RecoverOutline, RecoverDone
<1>15. job.name = "boot" => BootDone
  <2>1. job.name = "boot" => BootOutline
    BY DEF Outlined
  <2>2. /\ <<May("zone", file.zone)>> \o Restore # <<>>
        /\ <<May("zone", file.zone)>> \o BootClock # <<>>
        /\ Restore # <<>> /\ RestoreRtc # <<>> /\ BootGraph # <<>> /\ BootRtc # <<>>
        /\ BootSave # <<>> /\ BootMain # <<>> /\ BootCodec # <<>> /\ BootSound # <<>>
        /\ Speak # <<>>
    <3>1. /\ <<May("zone", file.zone)>> \o Restore # <<>>
          /\ <<May("zone", file.zone)>> \o BootClock # <<>>
          /\ BootMain # <<>> /\ BootGraph # <<>>
      BY <1>2, BootLists
    <3>2. Restore # <<>>
      BY <1>2, BootLists DEF Restore
    <3>3. RestoreRtc # <<>>
      BY <1>2, BootLists DEF RestoreRtc
    <3>4. BootRtc # <<>>
      BY <1>2, BootLists DEF BootRtc
    <3>5. BootSave # <<>>
      <4>1. IsList(BootRtc)
        BY BootLists
      <4> QED BY <1>2, <4>1 DEF BootSave
    <3>6. BootCodec # <<>>
      <4>1. IsList(BootApply)
        BY BootLists
      <4> QED BY <1>2, <4>1 DEF BootCodec
    <3>7. BootSound # <<>>
      <4>1. IsList(BootLast)
        BY BootLists
      <4> QED BY <1>2, <4>1 DEF BootSound
    <3>8. Speak # <<>>
      BY <1>1 DEF Speak
    <3> QED BY <3>1, <3>2, <3>3, <3>4, <3>5, <3>6, <3>7, <3>8
  <2>3. BootClock # <<>> /\ BootApply # <<>> /\ BootLast # <<>>
    BY <1>2, <2>2, BootLists
  <2> QED BY <2>1, <2>2, <2>3 DEF BootOutline, BootDone
<1> QED BY <1>3, <1>4, <1>5, <1>6, <1>7, <1>8, <1>9, <1>10, <1>11, <1>12, <1>13, <1>14, <1>15

LEMMA StepFinish == ASSUME Inv, Finish PROVE Inv'
<1> DEFINE u == Completes(ui)
<1>1. /\ TypeOK /\ JobOK /\ Right /\ Outlined /\ (Quiet => AsShown)
      /\ ui.up /\ job.name # "none" /\ job.todo = <<>>
  BY DEF Inv, Finish
<1>2. Completed(u)
  BY <1>1, Complete
<1>3. Looked(u)
  BY <1>1, <1>2, Looks DEF Finish, Completed
<1> HIDE DEF u
<1>4. /\ job' = NoJob /\ UNCHANGED <<live, belied, changes, cuts>>
      /\ unsaved' = (unsaved \/ (job.ok /\ ~job.kept))
      /\ chosen' = IF IsChoice /\ job.ok THEN Now(job.name, {job.to}) ELSE chosen
  BY DEF Finish
<1>5. ui'.up /\ ui'.prof = u.prof /\ ui'.available = u.available
  BY <1>1, <1>2, <1>3 DEF Looked, Completed
<1>6. JobOK' /\ Outlined' /\ Quiet' /\ job'.name = "none" /\ job'.kept
  <2>1. ~ui'.up => ~ui'.available
    BY <1>5
  <2> QED BY <1>4, <2>1, NoJobAfter
<1>7. \/ ~(IsChoice /\ job.ok) /\ chosen' = chosen
      \/ job.name \in Keys /\ job.ok /\ NowIs(job.name, {job.to}, chosen')
  <2>1. CASE IsChoice /\ job.ok
    <3>1. {job.to} \subseteq Values(job.name) /\ job.name \in Keys
      BY <1>1, <2>1, AmountsTyped DEF IsChoice
    <3>2. chosen' = Now(job.name, {job.to})
      BY <1>4, <2>1
    <3> QED BY <1>1, <2>1, <3>1, <3>2, NowSets
  <2> QED BY <1>4, <2>1
<1>8. TypeOK'
  <2>1. unsaved' \in BOOLEAN /\ belied' \in BOOLEAN /\ changes' \in Nat /\ cuts' \in Nat
    BY <1>1, <1>4 DEF TypeOK
  <2>2. live' \in LiveType /\ chosen' \in ChosenType
    BY <1>1, <1>4, <1>7 DEF TypeOK, NowIs
  <2> QED BY <1>3, <2>1, <2>2 DEF TypeOK, Looked
<1>9. /\ job.name = "speaker" => SpeakerDone
      /\ job.name = "audio" => AudioDone
      /\ job.name = "pref" => PrefDone
      /\ job.name = "zone" => ZoneDone
      /\ job.name = "auto" => AutoDone
      /\ job.name = "clock" => ClockDone
      /\ job.name = "wifi" => WifiDone
      /\ job.name = "main" => MainDone
      /\ job.name = "codec" => CodecDone
      /\ job.name = "res" => ResDone
      /\ job.name = "recover" => RecoverDone
      /\ job.name = "boot" => BootDone
  BY <1>1, AllDone
<1>10. /\ EncodersSame /\ PlainSame({"audio"}) /\ (faults' = 0 => faults = 0)
       /\ faults' = 0 /\ u.audio = LoadAudio => LoadAudio' = live.audio /\ ui'.audio = live.audio
  BY <1>3 DEF Looked
<1>11. AsSaved(ui'.prof) => AsSaved(ui.prof)'
  BY <1>4, <1>10 DEF AsSaved, EncodersSame
<1>12. "main" \in Keys /\ "codec" \in Keys /\ "res" \in Keys /\ "boot" \notin Keys /\ "recover" \notin Keys
  BY DEF Keys, Options
<1>13. AsShown'
  <2> SUFFICES ASSUME Sure'
               PROVE  live'.res = ui'.prof /\ (unsaved' \/ AsSaved(ui'.prof))
    BY <1>11 DEF AsShown
  <2>1. ui'.available /\ ~belied
    BY <1>4 DEF Sure
  <2>2. CASE job.name \in {"boot", "recover"}
    <3>1. job.ok /\ ui'.prof = ui.prof
      BY <1>2, <1>5, <1>12, <2>1, <2>2 DEF Completed, IsChoice
    <3>2. live.res = ui.prof /\ AsSaved(ui.prof)
      BY <1>9, <2>1, <2>2, <3>1 DEF BootDone, RecoverDone, CameraSet, Well
    <3> QED BY <1>4, <3>1, <3>2
  <2>3. CASE job.name \notin {"boot", "recover"}
    <3>0. IsChoice
      BY <1>1, <2>3 DEF JobOK, IsChoice
    <3>1. Sure
      BY <1>2, <1>5, <2>1, <3>0 DEF Completed, Sure
    <3>2. CASE job.name \in {"main", "codec"}
      <4>1. ui'.prof = ui.prof /\ live.res = ui.prof
        BY <1>2, <1>5, <1>9, <3>1, <3>2 DEF Completed, MainDone, CodecDone
      <4>2. unsaved \/ (job.ok /\ ~job.kept) \/ AsSaved(ui.prof)
        BY <1>9, <3>1, <3>2 DEF MainDone, CodecDone, AsShown
      <4> QED BY <1>4, <4>1, <4>2
    <3>3. CASE job.name = "res"
      <4>1. CASE job.ok
        <5>1. ui'.prof = job.to
          BY <1>2, <1>5, <3>3, <4>1 DEF Completed
        <5>2. live.res = job.to /\ AsSaved(job.to)
          BY <1>9, <3>1, <3>3, <4>1 DEF ResDone
        <5> QED BY <1>4, <5>1, <5>2
      <4>2. CASE ~job.ok
        <5>1. ui'.prof = ui.prof
          BY <1>2, <1>5, <3>3, <4>2 DEF Completed
        <5>2. live.res = ui.prof /\ (unsaved \/ AsSaved(ui.prof))
          BY <1>9, <3>1, <3>3, <4>2 DEF ResDone, AsShown
        <5> QED BY <1>4, <5>1, <5>2
      <4> QED BY <4>1, <4>2
    <3>4. CASE job.name \notin {"main", "codec", "res"}
      <4>1. ui'.prof = ui.prof
        BY <1>2, <1>5, <3>4 DEF Completed
      <4>2. live.res = ui.prof /\ (unsaved \/ AsSaved(ui.prof))
        BY <1>1, <2>3, <3>1, <3>4 DEF Quiet, Doing, AsShown
      <4> QED BY <1>4, <4>1, <4>2
    <3> QED BY <3>2, <3>3, <3>4
  <2> QED BY <2>2, <2>3
<1>14. Right'
  <2> SUFFICES ASSUME faults' = 0
               PROVE  /\ ZoneRight' /\ AutoRight' /\ WifiRight' /\ PrefRight' /\ SpeakerRight'
                      /\ AudioRight' /\ TimeRight' /\ ResRight' /\ MainRight' /\ CodecRight'
                      /\ ~unsaved' /\ job'.kept
    BY DEF Right
  <2>1. /\ ZoneRight /\ AutoRight /\ WifiRight /\ PrefRight /\ SpeakerRight /\ AudioRight
        /\ TimeRight /\ ResRight /\ MainRight /\ CodecRight /\ ~unsaved /\ job.kept /\ faults = 0
    BY <1>1, <1>10 DEF Right
  <2>2. ~unsaved'
    BY <1>4, <2>1
  <2>3. /\ file'.zone = file.zone /\ file'.auto = file.auto /\ file'.wifi = file.wifi
        /\ file'.pref = file.pref /\ file'.res = file.res /\ file'.floor = file.floor
        /\ file'.main = file.main /\ file'.codec = file.codec
        /\ LoadSpeaker' = LoadSpeaker /\ live' = live
    BY <1>4, <1>10 DEF PlainSame, EncodersSame, LoadSpeaker
  <2>4. /\ ui'.shown.zone = u.shown.zone /\ ui'.shown.auto = u.shown.auto
        /\ ui'.shown.wifi = u.shown.wifi /\ ui'.shown.pref = u.shown.pref
        /\ ui'.shown.speaker = u.shown.speaker
        /\ ui'.shown.audio = live.audio /\ ui'.shown.main = live.main
        /\ ui'.shown.codec = CodecName(live.codec) /\ ui'.shown.res = u.prof
    BY <1>3 DEF Looked
  <2>5. ZoneRight'
    <3>1. /\ file.zone \in chosen'.zone /\ ui'.shown.zone = file.zone /\ live.zone = file.zone
      <4>1. CASE job.name = "zone"
        <5>1. job.ok /\ file.zone = job.to /\ live.zone = job.to
          BY <1>9, <2>1, <4>1 DEF ZoneDone, Start
        <5>2. u.shown.zone = job.to
          BY <1>2, <4>1, <5>1 DEF Completed
        <5>3. chosen'.zone = {job.to}
          BY <1>7, <4>1, <5>1 DEF NowIs, IsChoice, Keys, Options
        <5> QED BY <2>4, <5>1, <5>2, <5>3
      <4>2. CASE job.name # "zone"
        <5>1. u.shown.zone = ui.shown.zone /\ chosen'.zone = chosen.zone
          BY <1>2, <1>7, <4>2 DEF Completed, NowIs
        <5>2. live.zone = file.zone
          BY <1>1, <1>9, <2>1, <4>2 DEF ZoneRight, Doing, BootDone
        <5> QED BY <1>1, <2>1, <2>4, <4>2, <5>1, <5>2 DEF ZoneRight, Doing
      <4> QED BY <4>1, <4>2
    <3> QED BY <2>3, <3>1 DEF ZoneRight
  <2>6. AutoRight'
    <3>1. /\ file.auto \in chosen'.auto /\ ui'.shown.auto = file.auto /\ live.auto = file.auto
      <4>1. CASE job.name = "auto"
        <5>1. job.ok /\ file.auto = job.to /\ live.auto = job.to
          BY <1>9, <2>1, <4>1 DEF AutoDone, Start
        <5>2. u.shown.auto = job.to
          BY <1>2, <4>1, <5>1 DEF Completed
        <5>3. chosen'.auto = {job.to}
          BY <1>7, <4>1, <5>1 DEF NowIs, IsChoice, Keys, Options
        <5> QED BY <2>4, <5>1, <5>2, <5>3
      <4>2. CASE job.name # "auto"
        <5>1. u.shown.auto = ui.shown.auto /\ chosen'.auto = chosen.auto
          BY <1>2, <1>7, <4>2 DEF Completed, NowIs
        <5>2. live.auto = file.auto
          BY <1>1, <1>9, <2>1, <4>2 DEF AutoRight, Doing, BootDone
        <5> QED BY <1>1, <2>1, <2>4, <4>2, <5>1, <5>2 DEF AutoRight, Doing
      <4> QED BY <4>1, <4>2
    <3> QED BY <2>3, <3>1 DEF AutoRight
  <2>7. WifiRight'
    <3>1. /\ file.wifi \in chosen'.wifi /\ ui'.shown.wifi = file.wifi /\ live.wifi = file.wifi
      <4>1. CASE job.name = "wifi"
        <5>1. job.ok /\ file.wifi = job.to /\ live.wifi = job.to
          BY <1>9, <2>1, <4>1 DEF WifiDone, Start
        <5>2. u.shown.wifi = job.to
          BY <1>2, <4>1, <5>1 DEF Completed
        <5>3. chosen'.wifi = {job.to}
          BY <1>7, <4>1, <5>1 DEF NowIs, IsChoice, Keys, Options
        <5> QED BY <2>4, <5>1, <5>2, <5>3
      <4>2. CASE job.name # "wifi"
        <5>1. u.shown.wifi = ui.shown.wifi /\ chosen'.wifi = chosen.wifi
          BY <1>2, <1>7, <4>2 DEF Completed, NowIs
        <5>2. live.wifi = file.wifi
          BY <1>1, <1>9, <2>1, <4>2 DEF WifiRight, Doing, BootDone
        <5> QED BY <1>1, <2>1, <2>4, <4>2, <5>1, <5>2 DEF WifiRight, Doing
      <4> QED BY <4>1, <4>2
    <3> QED BY <2>3, <3>1 DEF WifiRight
  <2>8. PrefRight'
    <3>1. file.pref \in chosen'.pref /\ ui'.shown.pref = file.pref
      <4>1. CASE job.name = "pref"
        <5>1. job.ok /\ file.pref = job.to
          BY <1>9, <2>1, <4>1 DEF PrefDone, Start
        <5>2. u.shown.pref = job.to
          BY <1>2, <4>1, <5>1 DEF Completed
        <5>3. chosen'.pref = {job.to}
          BY <1>7, <4>1, <5>1 DEF NowIs, IsChoice, Keys, Options
        <5> QED BY <2>4, <5>1, <5>2, <5>3
      <4>2. CASE job.name # "pref"
        <5>1. u.shown.pref = ui.shown.pref /\ chosen'.pref = chosen.pref
          BY <1>2, <1>7, <4>2 DEF Completed, NowIs
        <5> QED BY <1>1, <2>1, <2>4, <4>2, <5>1 DEF PrefRight, Doing
      <4> QED BY <4>1, <4>2
    <3> QED BY <2>3, <3>1 DEF PrefRight
  <2>9. SpeakerRight'
    <3>1. /\ LoadSpeaker \in chosen'.speaker /\ ui'.shown.speaker = LoadSpeaker
          /\ live.speaker = LoadSpeaker
      <4>1. CASE job.name = "speaker"
        <5>1. job.ok /\ file.speaker = job.to /\ live.speaker = job.to
          BY <1>9, <2>1, <4>1 DEF SpeakerDone, Start
        <5>4. job.to \in {50, 100}
          BY <1>1, <4>1 DEF JobOK, IsChoice, Keys, Options
        <5>5. LoadSpeaker = job.to
          BY <5>1, <5>4 DEF LoadSpeaker
        <5>2. u.shown.speaker = job.to
          BY <1>2, <4>1, <5>1 DEF Completed
        <5>3. chosen'.speaker = {job.to}
          BY <1>7, <4>1, <5>1 DEF NowIs, IsChoice, Keys, Options
        <5> QED BY <2>4, <5>1, <5>2, <5>3, <5>5
      <4>2. CASE job.name # "speaker"
        <5>1. u.shown.speaker = ui.shown.speaker /\ chosen'.speaker = chosen.speaker
          BY <1>2, <1>7, <4>2 DEF Completed, NowIs
        <5>2. live.speaker = LoadSpeaker /\ ui.shown.speaker = LoadSpeaker
          BY <1>1, <1>9, <2>1, <4>2 DEF SpeakerRight, Doing, BootDone
        <5> QED BY <2>1, <2>4, <4>2, <5>1, <5>2 DEF SpeakerRight, Doing
      <4> QED BY <4>1, <4>2
    <3> QED BY <2>3, <3>1 DEF SpeakerRight
  <2>10. AudioRight'
    <3>1. LoadAudio' = live.audio /\ ui'.audio = live.audio
      BY <1>1, <1>2, <1>10, <2>1 DEF AudioRight, Completed
    <3>2. live.audio \in chosen'.audio
      <4>1. CASE job.name = "audio"
        <5>1. job.ok /\ live.audio = job.to
          BY <1>9, <2>1, <4>1 DEF AudioDone, Start
        <5> QED BY <1>7, <4>1, <5>1 DEF NowIs, IsChoice, Keys, Options
      <4>2. CASE job.name # "audio"
        <5>1. live.audio = LoadAudio
          BY <1>1, <1>9, <2>1, <4>2 DEF AudioRight, Doing, BootDone
        <5> QED BY <1>7, <2>1, <4>2, <5>1 DEF NowIs, AudioRight
      <4> QED BY <4>1, <4>2
    <3> QED BY <1>5, <2>3, <2>4, <3>1, <3>2 DEF AudioRight
  <2>11. TimeRight'
    <3>1. \E c \in chosen'.clock : file.floor >= c
      <4>1. CASE job.name = "clock"
        BY <1>7, <1>9, <2>1, <4>1 DEF NowIs, ClockDone, Start, IsChoice, Keys, Options
      <4>2. CASE job.name # "clock"
        BY <1>7, <2>1, <4>2 DEF NowIs, TimeRight, FloorRight, Doing
      <4> QED BY <4>1, <4>2
    <3>2. \E c \in chosen'.clock : live.clock >= c
      <4>1. CASE job.name = "clock"
        BY <1>7, <1>9, <2>1, <4>1 DEF NowIs, ClockDone, Start, IsChoice, Keys, Options
      <4>2. CASE job.name # "clock"
        <5>1. ClockRight
          BY <1>1, <1>9, <2>1, <4>2 DEF TimeRight, Doing, BootDone
        <5> QED BY <1>7, <4>2, <5>1 DEF NowIs, ClockRight
      <4> QED BY <4>1, <4>2
    <3> QED BY <2>3, <3>1, <3>2 DEF TimeRight, FloorRight, ClockRight
  <2>12. ResRight'
    <3>1. file.res \in chosen'.res /\ u.prof = file.res
      <4>1. CASE job.name = "res" /\ job.ok
        <5>1. file.res = job.to /\ u.prof = job.to
          BY <1>2, <1>9, <2>1, <4>1 DEF ResDone, Completed
        <5> QED BY <1>7, <1>12, <4>1, <5>1 DEF NowIs, IsChoice
      <4>2. CASE job.name = "res" /\ ~job.ok
        <5>1. OldRes /\ u.prof = ui.prof
          BY <1>2, <1>9, <4>2 DEF ResDone, Completed
        <5> QED BY <1>7, <2>1, <4>2, <5>1 DEF OldRes
      <4>3. CASE job.name # "res"
        <5>1. u.prof = ui.prof /\ chosen'.res = chosen.res
          BY <1>2, <1>7, <4>3 DEF Completed, NowIs
        <5> QED BY <1>1, <2>1, <4>3, <5>1 DEF ResRight, Doing
      <4> QED BY <4>1, <4>2, <4>3
    <3> QED BY <1>5, <2>3, <2>4, <3>1 DEF ResRight
  <2>13. MainRight'
    <3>1. ASSUME NEW p \in Profiles PROVE file.main[p] \in chosen'.main[p]
      <4>1. CASE job.name = "main" /\ p = ui.prof /\ job.ok
        <5>1. file.main[p] = job.to
          BY <1>9, <2>1, <4>1 DEF MainDone
        <5> QED BY <1>7, <1>12, <4>1, <5>1 DEF NowIs, IsChoice
      <4>2. CASE job.name = "main" /\ p = ui.prof /\ ~job.ok
        <5>1. MainChosen
          BY <1>9, <4>2 DEF MainDone
        <5> QED BY <1>7, <2>1, <4>2, <5>1 DEF MainChosen
      <4>3. CASE ~(job.name = "main" /\ p = ui.prof)
        <5>1. file.main[p] \in chosen.main[p]
          BY <2>1, <4>3 DEF MainRight, Doing
        <5>2. chosen'.main[p] = chosen.main[p]
          BY <1>7, <4>3 DEF NowIs
        <5> QED BY <5>1, <5>2
      <4> QED BY <4>1, <4>2, <4>3
    <3> QED BY <2>3, <2>4, <3>1 DEF MainRight
  <2>14. CodecRight'
    <3>1. ASSUME NEW p \in Profiles PROVE CodecName(file.codec[p]) \in chosen'.codec[p]
      <4>1. CASE job.name = "codec" /\ p = ui.prof /\ job.ok
        <5>1. file.codec[p] = Parts(job.to)
          BY <1>9, <2>1, <4>1 DEF CodecDone
        <5>2. job.to \in {"H264_HIGH", "H265_MAIN"}
          BY <1>1, <4>1 DEF JobOK, IsChoice, Keys, Options
        <5>3. CodecName(Parts(job.to)) = job.to
          BY <5>2 DEF CodecName, Parts
        <5>4. chosen'.codec[p] = {job.to}
          BY <1>7, <1>12, <4>1 DEF NowIs, IsChoice
        <5> QED BY <5>1, <5>3, <5>4
      <4>2. CASE job.name = "codec" /\ p = ui.prof /\ ~job.ok
        <5>1. NameChosen
          BY <1>9, <4>2 DEF CodecDone
        <5> QED BY <1>7, <2>1, <4>2, <5>1 DEF NameChosen
      <4>3. CASE ~(job.name = "codec" /\ p = ui.prof)
        <5>1. CodecName(file.codec[p]) \in chosen.codec[p]
          BY <2>1, <4>3 DEF CodecRight, Doing
        <5>2. chosen'.codec[p] = chosen.codec[p]
          BY <1>7, <4>3 DEF NowIs
        <5> QED BY <5>1, <5>2
      <4> QED BY <4>1, <4>2, <4>3
    <3> QED BY <2>3, <2>4, <3>1 DEF CodecRight
  <2> QED BY <1>6, <2>2, <2>5, <2>6, <2>7, <2>8, <2>9, <2>10, <2>11, <2>12, <2>13, <2>14
<1> QED BY <1>6, <1>8, <1>13, <1>14 DEF Inv

LEMMA InvInit == Init => Inv
<1> SUFFICES ASSUME Init PROVE Inv
  OBVIOUS
<1> DEFINE w == Parts("H264_HIGH")
<1>1. /\ w \in Words /\ CodecName(w) = "H264_HIGH"
      /\ Fresh = [image |-> "auto", audio |-> "none", speaker |-> -1, zone |-> "UTC", auto |-> 0,
                  pref |-> 0, wifi |-> 1, res |-> "pic", floor |-> 0,
                  main |-> [p \in Profiles |-> "H264"], codec |-> [p \in Profiles |-> w]]
  BY DEF Words, Parts, Videos, CodecName, Fresh
<1> HIDE DEF w
<1>2. file \in FileType
  BY <1>1 DEF Init, FileType, Images, Sounds, Zones, Bit, Profiles, Videos
<1>3. /\ file.zone = "UTC" /\ file.auto = 0 /\ file.wifi = 1 /\ file.pref = 0 /\ file.res = "pic"
      /\ file.floor = 0 /\ LoadSpeaker = 50 /\ LoadAudio = "auto"
      /\ \A p \in Profiles : file.main[p] = "H264" /\ CodecName(file.codec[p]) = "H264_HIGH"
  BY <1>1 DEF Init, LoadSpeaker, LoadAudio
<1>4. /\ live \in LiveType /\ live.auto = 0 /\ live.wifi = 0 /\ live.audio = "auto"
  BY PowerOnIs DEF Init, PowerOn
<1>5. /\ chosen \in ChosenType
      /\ chosen.zone = {"UTC"} /\ chosen.auto = {0} /\ chosen.wifi = {1} /\ chosen.pref = {0}
      /\ chosen.res = {"pic"} /\ chosen.clock = {0} /\ chosen.speaker = {50} /\ chosen.audio = {"auto"}
      /\ \A p \in Profiles : chosen.main[p] = {"H264"} /\ chosen.codec[p] = {"H264_HIGH"}
  <2> DEFINE m == [p \in Profiles |-> {"H264"}]
             n == [p \in Profiles |-> {"H264_HIGH"}]
  <2>1. /\ m \in [Profiles -> SUBSET Videos] /\ \A p \in Profiles : m[p] = {"H264"}
        /\ n \in [Profiles -> SUBSET Names] /\ \A p \in Profiles : n[p] = {"H264_HIGH"}
    BY DEF Videos, Names
  <2>2. chosen = [image |-> {"auto"}, speaker |-> {50}, audio |-> {"auto"}, main |-> m, codec |-> n,
                  res |-> {"pic"}, zone |-> {"UTC"}, auto |-> {0}, clock |-> {0}, pref |-> {0},
                  wifi |-> {1}]
    BY DEF Init
  <2> HIDE DEF m, n
  <2>3. /\ {"auto"} \subseteq Images /\ {"auto"} \subseteq Sounds /\ {"pic"} \subseteq Profiles
        /\ {"UTC"} \subseteq Zones /\ {0} \subseteq Bit /\ {1} \subseteq Bit /\ {0} \subseteq Nat
    BY DEF Images, Sounds, Profiles, Zones, Bit
  <2> QED BY <2>1, <2>2, <2>3 DEF ChosenType
<1>6. ui \in UiType /\ ~ui.up /\ ~ui.available
  <2> DEFINE s == [image |-> "none", speaker |-> 50, audio |-> "none", main |-> "none",
                   codec |-> "none", res |-> file.res, zone |-> file.zone, auto |-> file.auto,
                   pref |-> file.pref, wifi |-> file.wifi]
  <2>1. s \in ShownType
    BY <1>2 DEF FileType, ShownType
  <2>2. ui = [up |-> FALSE, available |-> FALSE, prof |-> file.res, audio |-> LoadAudio,
              auto |-> file.auto, shown |-> s]
    BY DEF Init, Started
  <2> HIDE DEF s
  <2> QED BY <1>2, <1>3, <2>1, <2>2 DEF UiType, FileType, Sounds
<1>7. /\ job = NoJob /\ belied = FALSE /\ unsaved = FALSE /\ faults = 0 /\ changes = 0 /\ cuts = 0
  BY DEF Init
<1>8. TypeOK
  BY <1>2, <1>4, <1>5, <1>6, <1>7 DEF TypeOK
<1>9. JobOK /\ Outlined /\ job.name = "none" /\ job.kept
  BY <1>6, <1>7, NoJobIs DEF JobOK, Outlined, IsChoice
<1>10. AsShown
  BY <1>6 DEF AsShown, Sure
<1>11. Right
  <2>1. ZoneRight /\ AutoRight /\ WifiRight /\ PrefRight /\ SpeakerRight /\ AudioRight
    BY <1>3, <1>4, <1>5, <1>6
       DEF ZoneRight, AutoRight, WifiRight, PrefRight, SpeakerRight, AudioRight, AudioLater, Idle
  <2>2. TimeRight /\ ResRight /\ MainRight /\ CodecRight
    BY <1>3, <1>5, <1>6 DEF TimeRight, FloorRight, ResRight, MainRight, CodecRight, Idle
  <2> QED BY <1>7, <1>9, <2>1, <2>2 DEF Right
<1> QED BY <1>8, <1>9, <1>10, <1>11 DEF Inv

LEMMA InvStutter == ASSUME Inv, UNCHANGED vars PROVE Inv'
<1>1. UNCHANGED <<file, live, ui, job, chosen, belied, unsaved, faults, changes, cuts>>
  BY DEF vars
<1>2. TypeOK /\ JobOK /\ Right /\ (Quiet => AsShown) /\ Outlined
  BY DEF Inv
<1>3. TypeOK' /\ JobOK'
  BY <1>1, <1>2 DEF TypeOK, JobOK, IsChoice
<1>4. AsShown' = AsShown /\ Quiet' = Quiet
  BY <1>1 DEF AsShown, AsSaved, Sure, Quiet, Doing
<1>5. Outlined'
  <2>1. Aside
    BY <1>1, <1>2 DEF Aside, TypeOK, LiveType, ServicesSame, SoundSame
  <2> QED BY <1>2, <2>1, OutlinedAside
<1>6. Right'
  <2>1. /\ ZoneRight' = ZoneRight /\ AutoRight' = AutoRight /\ WifiRight' = WifiRight
        /\ PrefRight' = PrefRight /\ SpeakerRight' = SpeakerRight /\ AudioRight' = AudioRight
    BY <1>1 DEF ZoneRight, AutoRight, WifiRight, PrefRight, SpeakerRight, AudioRight, AudioLater,
                LoadSpeaker, LoadAudio, Doing, Idle
  <2>2. /\ TimeRight' = TimeRight /\ ResRight' = ResRight /\ MainRight' = MainRight
        /\ CodecRight' = CodecRight
    BY <1>1 DEF TimeRight, FloorRight, ClockRight, ResRight, MainRight, CodecRight, Doing, Idle
  <2> QED BY <1>1, <1>2, <2>1, <2>2 DEF Right
<1> QED BY <1>2, <1>3, <1>4, <1>5, <1>6 DEF Inv

LEMMA InvNext == Inv /\ [Next]_vars => Inv'
<1> SUFFICES ASSUME Inv, [Next]_vars PROVE Inv'
  OBVIOUS
<1>1. CASE Boot
  BY <1>1, StepBooted
<1>2. CASE Recover
  BY <1>2, StepRecovery
<1>3. CASE Choose
  BY <1>3, StepChoose
<1>4. CASE UiStep
  BY <1>4, StepUi
<1>5. CASE Finish
  BY <1>5, StepFinish
<1>6. CASE Poll
  BY <1>6, StepPoll
<1>7. CASE Verdict
  BY <1>7, StepVerdict
<1>8. CASE Tick
  BY <1>8, StepTick
<1>9. CASE SaveClock
  BY <1>9, StepSaveClock
<1>10. CASE PowerCut
  BY <1>10, StepPowerCut
<1>11. CASE UiEnds
  BY <1>11, StepUiEnds
<1>12. CASE UNCHANGED vars
  BY <1>12, InvStutter
<1> QED BY <1>1, <1>2, <1>3, <1>4, <1>5, <1>6, <1>7, <1>8, <1>9, <1>10, <1>11, <1>12 DEF Next

-----------------------------------------------------------------------------
(* Whatever steps follow each other, and however often calls and writes      *)
(* fail, an answer is lost, the power goes or the UI ends: each list of      *)
(* requests is at one of the places of its outline, and what the outline     *)
(* says of the card, of the backend and of the UI holds there.              *)
THEOREM OutlineHolds == Spec => []Inv
<1> QED BY InvInit, InvNext, PTL DEF Spec

(* A change the UI reports as done and not as unsaved is on the card         *)
(* (target.c, the save that ends each change): no failure of a call, of one  *)
(* of the three words of a codec, or of the way back of a resolution lets    *)
(* the list end in success without its last write.                          *)
THEOREM ToldSavedHolds == Spec => []ToldSavedIsSaved
<1>1. Inv => ToldSavedIsSaved
  <2> SUFFICES ASSUME Inv, IsChoice, job.todo = <<>>, job.ok, job.kept,
                      job.name \notin {"audio", "wifi"}
               PROVE  OnCard(job.name, job.to)
    BY DEF ToldSavedIsSaved
  <2>1. Outlined /\ Start /\ job.name \in Keys
    BY DEF Inv, Start, IsChoice
  <2>2. job.name \in {"image", "speaker", "main", "codec", "res", "zone", "auto", "clock", "pref"}
    BY <2>1 DEF Keys, Options
  <2>3. CASE job.name = "main"
    BY <2>1, <2>3, AllDone DEF MainDone, OnCard
  <2>4. CASE job.name = "codec"
    BY <2>1, <2>4, AllDone DEF CodecDone, OnCard
  <2>5. CASE job.name = "clock"
    BY <2>1, <2>5, AllDone DEF ClockDone, OnCard
  <2>6. CASE job.name \in {"image", "speaker", "res", "zone", "auto", "pref"}
    <3>1. file[job.name] = job.to
      BY <2>1, <2>6, AllDone DEF SpeakerDone, ResDone, ZoneDone, AutoDone, PrefDone
    <3> QED BY <2>6, <3>1 DEF OnCard
  <2> QED BY <2>2, <2>3, <2>4, <2>5, <2>6
<1> QED BY InvInit, InvNext, <1>1, PTL DEF Spec

LEMMA NameOfAttr == ASSUME NEW w PROVE CodecName(Attr(w)) = CodecName(w)
  BY DEF CodecName, Attr

(* After any failures the graph is that of the resolution on the screen,     *)
(* with the encoders that are saved, whichever step of a change of           *)
(* resolution had to be taken back (target.c:4113), unless an answer was     *)
(* lost, the way back failed as well, or the user was told it was not saved. *)
THEOREM CameraAsShownHolds == Spec => []CameraAsShown
<1>1. Inv => CameraAsShown
  <2> SUFFICES ASSUME Inv, Idle, ui.available, ~belied
               PROVE  /\ live.res = ui.prof
                      /\ unsaved \/ (live.main = file.main[ui.prof]
                                     /\ CodecName(live.codec) = CodecName(file.codec[ui.prof]))
    BY DEF CameraAsShown
  <2>1. AsShown /\ Sure
    BY DEF Inv, Quiet, Doing, Idle, Sure
  <2> QED BY <2>1, NameOfAttr DEF AsShown, AsSaved
<1> QED BY InvInit, InvNext, <1>1, PTL DEF Spec

(* Without a failure what the user chose last is in force and on the screen, *)
(* and the clock is not behind the time that was set, through any number of  *)
(* changes, losses of power and starts of the UI (target.c:3247): the order  *)
(* of the call and the write of each setting never leaves the card, the      *)
(* backend and the UI with different values of it, save after a change of    *)
(* resolution whose way back was refused.                                   *)
THEOREM ChosenInForceHolds == Spec => []ChosenInForce
<1>1. Inv => ChosenInForce
  <2> SUFFICES ASSUME Inv, faults = 0, Idle, ~belied PROVE
                 /\ \A key \in {"speaker", "audio", "zone", "auto", "pref", "wifi"} : Agrees(key)
                 /\ ui.available => \A key \in {"res", "main", "codec"} : Agrees(key)
                 /\ \E c \in chosen.clock : live.clock >= c
    BY DEF ChosenInForce
  <2>1. /\ ZoneRight /\ AutoRight /\ WifiRight /\ PrefRight /\ SpeakerRight /\ AudioRight
        /\ TimeRight /\ ResRight /\ MainRight /\ CodecRight /\ ~unsaved
        /\ ui.up /\ job.name = "none" /\ ui.prof \in Profiles
    BY DEF Inv, Right, Idle, TypeOK, UiType
  <2>2. Agrees("speaker")
    BY <2>1 DEF Agrees, InForce, Chosen, PerProfile, SpeakerRight, Doing
  <2>3. Agrees("audio")
    BY <2>1 DEF Agrees, InForce, Chosen, PerProfile, AudioRight, Doing
  <2>4. Agrees("zone") /\ Agrees("auto")
    BY <2>1 DEF Agrees, InForce, Chosen, PerProfile, ZoneRight, AutoRight, Doing
  <2>5. Agrees("pref") /\ Agrees("wifi")
    BY <2>1 DEF Agrees, InForce, Chosen, PerProfile, PrefRight, WifiRight, Doing
  <2>6. ASSUME ui.available PROVE Agrees("res") /\ Agrees("main") /\ Agrees("codec")
    <3>1. live.res = ui.prof /\ AsSaved(ui.prof)
      BY <2>1, <2>6 DEF Inv, Quiet, Doing, AsShown, Sure
    <3>2. Agrees("res")
      BY <2>1, <3>1 DEF Agrees, InForce, Chosen, PerProfile, ResRight, Doing
    <3>3. Agrees("main")
      BY <2>1, <3>1 DEF Agrees, InForce, Chosen, PerProfile, MainRight, Doing, AsSaved
    <3>4. Agrees("codec")
      <4>1. CodecName(live.codec) = CodecName(file.codec[ui.prof])
        BY <3>1, NameOfAttr DEF AsSaved
      <4> QED BY <2>1, <4>1 DEF Agrees, InForce, Chosen, PerProfile, CodecRight, Doing
    <3> QED BY <3>2, <3>3, <3>4
  <2>7. \E c \in chosen.clock : live.clock >= c
    BY <2>1 DEF TimeRight, ClockRight, Doing
  <2> QED BY <2>2, <2>3, <2>4, <2>5, <2>6, <2>7
<1> QED BY InvInit, InvNext, <1>1, PTL DEF Spec
=============================================================================
