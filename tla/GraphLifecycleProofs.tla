------------------------ MODULE GraphLifecycleProofs ------------------------
(***************************************************************************)
(* Theorems of GraphLifecycle, for every limit and every set of profiles,  *)
(* and of GraphWatchdog, which it implements.                              *)
(***************************************************************************)
EXTENDS GraphLifecycle, TLAPS

-----------------------------------------------------------------------------
(* The watchdog.                                                           *)

(* The deadline and the age of a stop add up to the limit.                 *)
StopIsTimed ==
  /\ main = "store" => age \in Nat /\ fresh \in Nat /\ fresh + age = Limit
  /\ main \in {"stop", "clear"} =>
       age \in Nat /\ deadline \in Nat /\ deadline + age = Limit

(* Outside of a stop there is no deadline.                                 *)
IdleIsUntimed == main \notin {"stop", "clear"} => deadline = None

(* What the watchdog has in hand between its two looks.                    *)
LoadedIsCurrent ==
  thread = "clock" /\ ~late => main \in {"stop", "clear"} /\ loaded = deadline

Inv == TypeOK /\ StopIsTimed /\ IdleIsUntimed /\ LoadedIsCurrent /\ AlarmIsDue

LEMMA InvInit == Init => Inv
  BY LimitAssumption
  DEF Init, Inv, TypeOK, Times, StopIsTimed, IdleIsUntimed, LoadedIsCurrent, AlarmIsDue

LEMMA InvNext == Inv /\ [Next]_vars => Inv'
<1> SUFFICES ASSUME Inv, [Next]_vars PROVE Inv'
  OBVIOUS
<1> USE LimitAssumption
    DEF Inv, TypeOK, Times, StopIsTimed, IdleIsUntimed, LoadedIsCurrent,
        AlarmIsDue, Main, mine, yours
<1>1. CASE BeginStop BY <1>1 DEF BeginStop
<1>2. CASE StoreDeadline BY <1>2 DEF StoreDeadline
<1>3. CASE StopReturns BY <1>3 DEF StopReturns
<1>4. CASE Clear BY <1>4 DEF Clear
<1>5. CASE ClearAgain BY <1>5 DEF ClearAgain
<1>6. CASE Flag BY <1>6 DEF Flag
<1>7. CASE Join BY <1>7 DEF Join
<1>8. CASE Test BY <1>8 DEF Test
<1>9. CASE LoadDeadline BY <1>9 DEF LoadDeadline
<1>10. CASE ReadClock BY <1>10 DEF ReadClock
<1>11. CASE Sleep BY <1>11 DEF Sleep
<1>12. CASE Tick BY <1>12 DEF Tick, Left
<1>13. CASE UNCHANGED vars BY <1>13 DEF vars
<1> QED
  BY <1>1, <1>2, <1>3, <1>4, <1>5, <1>6, <1>7, <1>8, <1>9, <1>10, <1>11,
     <1>12, <1>13 DEF Next, StopWatchdog, Watch

(* The types, for every limit.                                             *)
THEOREM WatchdogTypeOK == Spec => []TypeOK
<1>1. Inv => TypeOK BY DEF Inv
<1> QED BY InvInit, InvNext, <1>1, PTL DEF Spec

(* The watchdog ends the daemon in a stop that has taken the whole limit,  *)
(* unless that stop ended between its two looks.                           *)
THEOREM AlarmIsDueHolds == Spec => []AlarmIsDue
<1>1. Inv => AlarmIsDue BY DEF Inv
<1> QED BY InvInit, InvNext, <1>1, PTL DEF Spec

-----------------------------------------------------------------------------
(* The orders in which parts are switched on.                              *)

(* Parts that nothing else works on: their calls may switch nothing on.    *)
Dispensable == (Waits \cup {"histogram"}) \X {0, 1}

(* Each part of s finds what it needs in `before' or earlier in s; then     *)
(* `after' is there.                                                       *)
Builds(before, s, after) ==
  /\ s \in Seq(Parts)
  /\ \A i \in 1..Len(s) : Needs(s[i]) \subseteq before \cup {s[j] : j \in 1..(i - 1)}
  /\ after \subseteq before \cup {s[i] : i \in 1..Len(s)}

LEMMA BuildsConcat ==
  ASSUME NEW b, NEW s, NEW c, NEW t, NEW d, Builds(b, s, c), Builds(c, t, d)
  PROVE  Builds(b, s \o t, d)
<1> DEFINE u == s \o t
<1>1. /\ s \in Seq(Parts) /\ t \in Seq(Parts)
      /\ Len(s) \in Nat /\ Len(t) \in Nat
  BY DEF Builds
<1>2. /\ u \in Seq(Parts) /\ Len(u) = Len(s) + Len(t)
      /\ \A i \in 1..Len(s) : u[i] = s[i]
      /\ \A i \in 1..Len(t) : u[i + Len(s)] = t[i]
  BY <1>1
<1> HIDE DEF u
<1>3. ASSUME NEW i \in 1..Len(u)
      PROVE  Needs(u[i]) \subseteq b \cup {u[j] : j \in 1..(i - 1)}
  <2>1. CASE i \in 1..Len(s)
    <3>1. Needs(s[i]) \subseteq b \cup {s[j] : j \in 1..(i - 1)}
      BY <2>1 DEF Builds
    <3>2. ASSUME NEW j \in 1..(i - 1) PROVE s[j] = u[j]
      BY <1>1, <1>2, <2>1
    <3>3. u[i] = s[i] BY <1>2, <2>1
    <3>4. {s[j] : j \in 1..(i - 1)} = {u[j] : j \in 1..(i - 1)} BY <3>2
    <3> QED BY <3>1, <3>3, <3>4, Zenon
  <2>2. CASE i \notin 1..Len(s)
    <3>1. i - Len(s) \in 1..Len(t) /\ u[i] = t[i - Len(s)]
      <4>1. i - Len(s) \in 1..Len(t) BY <1>1, <1>2, <2>2
      <4>2. u[(i - Len(s)) + Len(s)] = t[i - Len(s)] BY <1>2, <4>1
      <4>3. (i - Len(s)) + Len(s) = i BY <1>1, <1>2
      <4> QED BY <4>1, <4>2, <4>3
    <3>2. Needs(u[i]) \subseteq c \cup {t[j] : j \in 1..((i - Len(s)) - 1)}
      BY <3>1 DEF Builds
    <3>3. ASSUME NEW j \in 1..((i - Len(s)) - 1)
          PROVE  t[j] \in {u[k] : k \in 1..(i - 1)}
      <4>1. j + Len(s) \in 1..(i - 1) /\ j \in 1..Len(t)
        BY <1>1, <3>1
      <4>2. t[j] = u[j + Len(s)] BY <1>2, <4>1
      <4> QED BY <4>1, <4>2
    <3>4. ASSUME NEW j \in 1..Len(s) PROVE s[j] \in {u[k] : k \in 1..(i - 1)}
      <4>1. j \in 1..(i - 1) BY <1>1, <2>2, <1>2
      <4>2. s[j] = u[j] BY <1>2, Zenon
      <4> QED BY <4>1, <4>2, Zenon
    <3>5. c \subseteq b \cup {s[k] : k \in 1..Len(s)} BY DEF Builds
    <3>6. {t[j] : j \in 1..((i - Len(s)) - 1)} \subseteq {u[k] : k \in 1..(i - 1)} BY <3>3
    <3>7. {s[k] : k \in 1..Len(s)} \subseteq {u[k] : k \in 1..(i - 1)} BY <3>4
    <3> HIDE <3>3, <3>4
    <3> QED BY <3>2, <3>5, <3>6, <3>7, Zenon
  <2> QED BY <2>1, <2>2
<1>4. ASSUME NEW i \in 1..Len(s) PROVE s[i] \in {u[k] : k \in 1..Len(u)}
  <2>1. i \in 1..Len(u) BY <1>1, <1>2
  <2> QED BY <1>2, <2>1
<1>5. ASSUME NEW i \in 1..Len(t) PROVE t[i] \in {u[k] : k \in 1..Len(u)}
  <2>1. i + Len(s) \in 1..Len(u) BY <1>1, <1>2
  <2> QED BY <1>2, <2>1
<1>6. d \subseteq b \cup {u[k] : k \in 1..Len(u)}
  <2>1. c \subseteq b \cup {s[k] : k \in 1..Len(s)} BY DEF Builds
  <2>2. d \subseteq c \cup {t[k] : k \in 1..Len(t)} BY DEF Builds
  <2> QED BY <1>4, <1>5, <2>1, <2>2
<1> QED BY <1>2, <1>3, <1>6 DEF Builds, u

LEMMA BuildsOne ==
  ASSUME NEW p \in Parts, NEW b, NEW d, Needs(p) \subseteq b, d \subseteq b \cup {p}
  PROVE  Builds(b, <<p>>, d)
<1> DEFINE s == <<p>>
<1>1. s \in Seq(Parts) /\ Len(s) = 1 /\ s[1] = p OBVIOUS
<1> HIDE DEF s
<1> QED BY <1>1 DEF Builds, s

LEMMA BuildsTwo ==
  ASSUME NEW p \in Parts, NEW q \in Parts, NEW b, NEW d,
         Needs(p) \subseteq b, Needs(q) \subseteq b \cup {p},
         d \subseteq b \cup {p, q}
  PROVE  Builds(b, <<p, q>>, d)
<1> DEFINE s == <<p, q>>
<1>1. s \in Seq(Parts) /\ Len(s) = 2 /\ s[1] = p /\ s[2] = q OBVIOUS
<1> HIDE DEF s
<1>2. \A i \in 1..Len(s) : Needs(s[i]) \subseteq b \cup {s[j] : j \in 1..(i - 1)}
  <2>1. Needs(s[1]) \subseteq b \cup {s[j] : j \in 1..(1 - 1)} BY <1>1
  <2>2. Needs(s[2]) \subseteq b \cup {s[j] : j \in 1..(2 - 1)}
    <3>1. s[1] \in {s[j] : j \in 1..(2 - 1)} OBVIOUS
    <3> QED BY <1>1, <3>1
  <2> QED BY <1>1, <2>1, <2>2
<1>3. d \subseteq b \cup {s[i] : i \in 1..Len(s)}
  <2>1. s[1] \in {s[i] : i \in 1..Len(s)} /\ s[2] \in {s[i] : i \in 1..Len(s)} BY <1>1
  <2> QED BY <1>1, <2>1
<1> QED BY <1>1, <1>2, <1>3 DEF Builds, s

LEMMA BuildsThree ==
  ASSUME NEW p \in Parts, NEW q \in Parts, NEW r \in Parts, NEW b, NEW d,
         Needs(p) \subseteq b, Needs(q) \subseteq b \cup {p},
         Needs(r) \subseteq b \cup {p, q}, d \subseteq b \cup {p, q, r}
  PROVE  Builds(b, <<p, q, r>>, d)
<1> DEFINE s == <<p, q, r>>
<1>1. s \in Seq(Parts) /\ Len(s) = 3 /\ s[1] = p /\ s[2] = q /\ s[3] = r OBVIOUS
<1> HIDE DEF s
<1>2. Needs(s[1]) \subseteq b \cup {s[j] : j \in 1..(1 - 1)} BY <1>1
<1>3. Needs(s[2]) \subseteq b \cup {s[j] : j \in 1..(2 - 1)}
  <2>1. s[1] \in {s[j] : j \in 1..(2 - 1)} OBVIOUS
  <2> QED BY <1>1, <2>1
<1>4. Needs(s[3]) \subseteq b \cup {s[j] : j \in 1..(3 - 1)}
  <2>1. s[1] \in {s[j] : j \in 1..(3 - 1)} /\ s[2] \in {s[j] : j \in 1..(3 - 1)} OBVIOUS
  <2> QED BY <1>1, <2>1
<1>5. d \subseteq b \cup {s[i] : i \in 1..Len(s)}
  <2>1. /\ s[1] \in {s[i] : i \in 1..Len(s)} /\ s[2] \in {s[i] : i \in 1..Len(s)}
        /\ s[3] \in {s[i] : i \in 1..Len(s)}
    BY <1>1
  <2> QED BY <1>1, <2>1
<1>6. \A i \in 1..Len(s) : Needs(s[i]) \subseteq b \cup {s[j] : j \in 1..(i - 1)}
  BY <1>1, <1>2, <1>3, <1>4
<1> QED BY <1>1, <1>5, <1>6 DEF Builds, s

LEMMA NeedsFacts ==
  ASSUME NEW p \in Parts
  PROVE  Needs(p) \subseteq Hardware \ Dispensable
  BY DEF Parts, Needs, WorksOn, IndexOf, Device, Part, Hardware, Dispensable,
         Single, Double, Waits

LEMMA NeedsTable ==
  ASSUME NEW k \in {0, 1}
  PROVE  /\ Needs(<<"viDevice", k>>) \subseteq {<<"sensor", k>>}
         /\ Needs(<<"vi", k>>) \subseteq {<<"viDevice", k>>}
         /\ Needs(<<"full", k>>) \subseteq {<<"group", k>>}
         /\ Needs(<<"small", k>>) \subseteq {<<"group", k>>}
         /\ Needs(<<"histogram", k>>) \subseteq {<<"group", k>>}
         /\ Needs(<<"viBind", k>>) \subseteq {<<"vi", Device(profile, k)>>, <<"group", k>>}
         /\ Needs(<<"avsChannel", k>>) \subseteq {<<"avs", 0>>}
         /\ Needs(<<"avsBind", k>>) \subseteq {<<"full", k>>, <<"avs", 0>>}
         /\ Needs(<<"layer", k>>) \subseteq {<<"layerBound", 0>>}
         /\ Needs(<<"screen", k>>) \subseteq {<<"layer", 0>>}
         /\ Needs(<<"screenBind", k>>) \subseteq {<<"screen", k>>, <<"small", IF Stitched THEN k ELSE 0>>}
         /\ Needs(<<"recordReceive", k>>) \subseteq {<<"record", 0>>}
         /\ Needs(<<"recordBind", k>>) \subseteq {<<"record", 0>>, <<"avsChannel", 0>>}
         /\ Needs(<<"validationReceive", k>>) \subseteq {<<"validation", 0>>}
         /\ Needs(<<"validationBind", k>>) \subseteq {<<"validation", 0>>, <<"avsChannel", 0>>}
         /\ Needs(<<"aiChannel", k>>) \subseteq {<<"aiDevice", 0>>}
         /\ Needs(<<"aiResample", k>>) \subseteq {<<"aiChannel", 0>>}
         /\ \A n \in {"sensor", "group", "avs", "layerBound", "record", "validation",
                       "aiDevice", "jpeg", "stack"} \cup Waits : Needs(<<n, k>>) = {}
  BY DEF Needs, WorksOn, IndexOf, Single, Part, Waits, Stitched

LEMMA InParts ==
  ASSUME NEW k \in {0, 1}
  PROVE  /\ \A n \in Double \cup Waits : <<n, k>> \in Parts
         /\ \A n \in Single : <<n, 0>> \in Parts
  BY DEF Parts, Hardware

LEMMA ViBuilds ==
  ASSUME NEW k \in {0, 1}, NEW b, NEW d, <<"sensor", k>> \in b,
         d \subseteq b \cup {<<"viDevice", k>>, <<"vi", k>>}
  PROVE  Builds(b, StartVi(k), d)
<1>1. <<"viDevice", k>> \in Parts /\ <<"vi", k>> \in Parts BY InParts DEF Double
<1> QED BY <1>1, BuildsTwo, NeedsTable DEF StartVi, Part

LEMMA VpssBuilds ==
  ASSUME NEW k \in {0, 1}, NEW b, NEW d, d \subseteq b \cup {<<"group", k>>, <<"full", k>>}
  PROVE  Builds(b, StartVpss(k), d)
<1>1. <<"group", k>> \in Parts /\ <<"full", k>> \in Parts BY InParts DEF Double
<1>2. Needs(<<"group", k>>) = {} /\ Needs(<<"full", k>>) \subseteq {<<"group", k>>}
  BY NeedsTable
<1> QED BY <1>1, <1>2, BuildsTwo DEF StartVpss, Part

LEMMA ChainBuilds ==
  ASSUME NEW p, p = profile, NEW k \in {0, 1}, NEW b, NEW d,
         <<"sensor", Device(p, k)>> \in b,
         d \subseteq b \cup {<<"group", k>>, <<"full", k>>}
  PROVE  Builds(b, Chain(p, k), d)
<1> DEFINE v == Device(p, k)
           c == b \cup {<<"vi", v>>}
           e == c \cup {<<"group", k>>, <<"full", k>>}
<1>1. v \in {0, 1} BY DEF Device
<1>2. Builds(b, StartVi(v), c) BY <1>1, ViBuilds
<1>3. Builds(c, StartVpss(k), e) BY VpssBuilds
<1>4. Builds(e, <<Part("viBind", k)>>, d)
  <2>1. <<"viBind", k>> \in Parts BY InParts DEF Double
  <2>2. Needs(<<"viBind", k>>) \subseteq e BY NeedsTable
  <2> QED BY <2>1, <2>2, BuildsOne DEF Part
<1>5. Builds(b, StartVi(v) \o StartVpss(k), e) BY <1>2, <1>3, BuildsConcat
<1> QED BY <1>4, <1>5, BuildsConcat DEF Chain

LEMMA AvsBuilds ==
  ASSUME NEW b, NEW d, {<<"full", 0>>, <<"full", 1>>} \subseteq b,
         d \subseteq b \cup {<<"avs", 0>>, <<"avsChannel", 0>>}
  PROVE  /\ Builds(b, StartAvs, b \cup {<<"avs", 0>>, <<"avsChannel", 0>>})
         /\ Builds(b \cup {<<"avs", 0>>, <<"avsChannel", 0>>}, AvsBinds, d)
<1>1. /\ <<"avs", 0>> \in Parts /\ <<"avsChannel", 0>> \in Parts
      /\ <<"avsBind", 0>> \in Parts /\ <<"avsBind", 1>> \in Parts
  BY InParts DEF Single, Double
<1>2. Needs(<<"avs", 0>>) = {} /\ Needs(<<"avsChannel", 0>>) \subseteq {<<"avs", 0>>}
  BY NeedsTable
<1>3. /\ Needs(<<"avsBind", 0>>) \subseteq {<<"full", 0>>, <<"avs", 0>>}
      /\ Needs(<<"avsBind", 1>>) \subseteq {<<"full", 1>>, <<"avs", 0>>}
  BY NeedsTable
<1>4. Builds(b, StartAvs, b \cup {<<"avs", 0>>, <<"avsChannel", 0>>})
  BY <1>1, <1>2, BuildsTwo DEF StartAvs, Part
<1>5. Builds(b \cup {<<"avs", 0>>, <<"avsChannel", 0>>}, AvsBinds, d)
  BY <1>1, <1>3, BuildsTwo DEF AvsBinds, Part
<1> QED BY <1>4, <1>5

LEMMA ScreenBuilds ==
  ASSUME NEW k \in {0, 1}, NEW b, NEW d, <<"layer", 0>> \in b,
         <<"small", IF Stitched THEN k ELSE 0>> \in b,
         d \subseteq b \cup {<<"screen", k>>, <<"screenBind", k>>}
  PROVE  Builds(b, Screen(k), d)
<1>1. <<"screen", k>> \in Parts /\ <<"screenBind", k>> \in Parts BY InParts DEF Double
<1>2. Needs(<<"screen", k>>) \subseteq {<<"layer", 0>>} BY NeedsTable
<1>3. Needs(<<"screenBind", k>>) \subseteq b \cup {<<"screen", k>>}
  <2>1. Needs(<<"screenBind", k>>) \subseteq
          {<<"screen", k>>, <<"small", IF Stitched THEN k ELSE 0>>}
    BY NeedsTable
  <2> QED BY <2>1
<1> QED BY <1>1, <1>2, <1>3, BuildsTwo DEF Screen, Part

LEMMA LayerBuilds ==
  ASSUME NEW b
  PROVE  Builds(b, VideoLayer, b \cup {<<"layer", 0>>})
<1>1. <<"layerBound", 0>> \in Parts /\ <<"layer", 0>> \in Parts BY InParts DEF Single
<1>2. Needs(<<"layerBound", 0>>) = {} /\ Needs(<<"layer", 0>>) \subseteq {<<"layerBound", 0>>}
  BY NeedsTable
<1> QED BY <1>1, <1>2, BuildsTwo DEF VideoLayer, Part

LEMMA PreviewBuilds ==
  ASSUME NEW b, <<"group", 0>> \in b, Stitched => <<"group", 1>> \in b
  PROVE  Builds(b, Preview(Stitched), {})
<1>1. /\ <<"small", 0>> \in Parts /\ <<"small", 1>> \in Parts
      /\ <<"histogram", 0>> \in Parts
  BY InParts DEF Double
<1>2. /\ Needs(<<"small", 0>>) \subseteq {<<"group", 0>>}
      /\ Needs(<<"small", 1>>) \subseteq {<<"group", 1>>}
      /\ Needs(<<"histogram", 0>>) \subseteq {<<"group", 0>>}
  BY NeedsTable
<1>3. CASE Stitched
  <2> DEFINE c == b \cup {<<"small", 0>>, <<"small", 1>>}
             e == c \cup {<<"layer", 0>>}
  <2>1. Builds(b, <<Part("small", 0), Part("small", 1), Part("histogram", 0)>>, c)
    BY <1>1, <1>2, <1>3, BuildsThree DEF Part
  <2>2. Builds(c, VideoLayer, e) BY LayerBuilds
  <2>3. Builds(e, Screen(0), e) BY <1>3, ScreenBuilds
  <2>4. Builds(e, Screen(1), {}) BY <1>3, ScreenBuilds
  <2> HIDE DEF c, e
  <2> QED BY <1>3, <2>1, <2>2, <2>3, <2>4, BuildsConcat DEF Preview
<1>4. CASE ~Stitched
  <2> DEFINE c == b \cup {<<"small", 0>>}
             e == c \cup {<<"layer", 0>>}
  <2>1. Builds(b, <<Part("small", 0), Part("histogram", 0)>>, c)
    BY <1>1, <1>2, BuildsTwo DEF Part
  <2>2. Builds(c, VideoLayer, e) BY LayerBuilds
  <2>3. Builds(e, Screen(1), {}) BY <1>4, ScreenBuilds
  <2> HIDE DEF c, e
  <2> QED BY <1>4, <2>1, <2>2, <2>3, BuildsConcat DEF Preview
<1> QED BY <1>3, <1>4

(* Every profile is switched on in an order in which each part finds what   *)
(* it needs.                                                               *)
LEMMA StartBuilds ==
  ASSUME profile \in Profiles
  PROVE  Builds({}, StartOrder(profile), {})
<1> USE ProfilesAssumption
<1>1. /\ <<"sensor", 0>> \in Parts /\ <<"sensor", 1>> \in Parts
      /\ <<"output", 0>> \in Parts /\ <<"output", 1>> \in Parts
      /\ <<"synchronize", 0>> \in Parts /\ <<"run", 0>> \in Parts
  BY InParts DEF Double, Waits
<1>2. /\ \A k \in {0, 1} : Needs(<<"sensor", k>>) = {} /\ Needs(<<"output", k>>) = {}
      /\ Needs(<<"synchronize", 0>>) = {} /\ Needs(<<"run", 0>>) = {}
  BY NeedsTable DEF Waits
<1> DEFINE S == {<<"sensor", 0>>, <<"sensor", 1>>}
           F == {<<"full", 0>>, <<"full", 1>>, <<"group", 0>>, <<"group", 1>>}
           G == F \cup {<<"avs", 0>>, <<"avsChannel", 0>>}
<1>3. CASE profile = "stitched"
  <2>0. /\ <<"sensor", Device("stitched", 0)>> \in S
        /\ <<"sensor", Device("stitched", 1)>> \in S
    BY DEF Device
  <2>1. Builds({}, <<Part("sensor", 1), Part("sensor", 0)>>, S)
    BY <1>1, <1>2, BuildsTwo DEF Part
  <2>2. Builds(S, Chain("stitched", 1), S \cup {<<"full", 1>>, <<"group", 1>>})
    <3>1. <<"sensor", Device("stitched", 1)>> \in S BY <2>0
    <3> DEFINE T == S \cup {<<"full", 1>>, <<"group", 1>>}
    <3>2. T \subseteq S \cup {<<"group", 1>>, <<"full", 1>>} OBVIOUS
    <3> HIDE DEF S, T
    <3>3. Builds(S, Chain("stitched", 1), T) BY <1>3, <3>1, <3>2, ChainBuilds
    <3> QED BY <3>3 DEF T
  <2>3. Builds(S \cup {<<"full", 1>>, <<"group", 1>>}, Chain("stitched", 0), F)
    <3>1. F \subseteq (S \cup {<<"full", 1>>, <<"group", 1>>}) \cup {<<"group", 0>>, <<"full", 0>>}
      OBVIOUS
    <3>2. <<"sensor", Device("stitched", 0)>> \in S \cup {<<"full", 1>>, <<"group", 1>>}
      BY <2>0
    <3> HIDE DEF S, F
    <3> QED BY <1>3, <3>1, <3>2, ChainBuilds
  <2>4. Builds(F, <<Part("output", 0), Part("output", 1), Part("synchronize", 0)>>, F)
    BY <1>1, <1>2, BuildsThree DEF Part
  <2>5. Builds(F, StartAvs, G) /\ Builds(G, AvsBinds, G)
    BY AvsBuilds
  <2>6. Builds(G, Preview(TRUE), {})
    <3>1. Stitched = TRUE BY <1>3 DEF Stitched
    <3> QED BY <3>1, PreviewBuilds
  <2>7. StartOrder(profile) = LiveStereo BY <1>3 DEF StartOrder
  <2> HIDE DEF S, F, G
  <2> QED BY <2>1, <2>2, <2>3, <2>4, <2>5, <2>6, <2>7, BuildsConcat DEF LiveStereo
<1>4. CASE profile \in {"single0", "single1"}
  <2> DEFINE d == Device(profile, 0)
             B == {<<"sensor", d>>}
             D == {<<"full", 0>>, <<"group", 0>>}
  <2>1. Builds({}, <<Part("sensor", d)>>, B)
    <3>1. <<"sensor", d>> \in Parts /\ Needs(<<"sensor", d>>) = {} BY <1>1, <1>2 DEF Device
    <3> QED BY <3>1, BuildsOne DEF Part
  <2>2. Builds(B, Chain(profile, 0), D)
    <3>1. <<"sensor", Device(profile, 0)>> \in B OBVIOUS
    <3>2. D \subseteq B \cup {<<"group", 0>>, <<"full", 0>>} OBVIOUS
    <3> HIDE DEF d, B, D
    <3> QED BY <3>1, <3>2, ChainBuilds
  <2>3. Builds(D, <<Part("output", 0)>>, D)
    BY <1>1, <1>2, BuildsOne DEF Part
  <2>4. Builds(D, Preview(FALSE), {})
    <3>1. Stitched = FALSE BY <1>4 DEF Stitched
    <3> QED BY <3>1, PreviewBuilds
  <2>5. StartOrder(profile) = LiveSingle(profile) BY <1>4 DEF StartOrder
  <2> HIDE DEF B, D, d
  <2> QED BY <2>1, <2>2, <2>3, <2>4, <2>5, BuildsConcat DEF LiveSingle, d
<1>5. CASE profile = "offline"
  <2>0. /\ <<"sensor", Device("offline", 0)>> \in S
        /\ <<"sensor", Device("offline", 1)>> \in S
    BY DEF Device
  <2>1. Builds({}, <<Part("sensor", 0), Part("sensor", 1), Part("run", 0)>>, S)
    BY <1>1, <1>2, BuildsThree DEF Part
  <2>2. Builds(S, Chain("offline", 0), S \cup {<<"full", 0>>, <<"group", 0>>})
    <3>1. <<"sensor", Device("offline", 0)>> \in S BY <2>0
    <3> DEFINE T == S \cup {<<"full", 0>>, <<"group", 0>>}
    <3>2. T \subseteq S \cup {<<"group", 0>>, <<"full", 0>>} OBVIOUS
    <3> HIDE DEF S, T
    <3>3. Builds(S, Chain("offline", 0), T) BY <1>5, <3>1, <3>2, ChainBuilds
    <3> QED BY <3>3 DEF T
  <2>3. Builds(S \cup {<<"full", 0>>, <<"group", 0>>}, Chain("offline", 1), F)
    <3>1. F \subseteq (S \cup {<<"full", 0>>, <<"group", 0>>}) \cup {<<"group", 1>>, <<"full", 1>>}
      OBVIOUS
    <3>2. <<"sensor", Device("offline", 1)>> \in S \cup {<<"full", 0>>, <<"group", 0>>}
      BY <2>0
    <3> HIDE DEF S, F
    <3> QED BY <1>5, <3>1, <3>2, ChainBuilds
  <2>4. Builds(F, StartAvs, G) /\ Builds(G, AvsBinds, {})
    BY AvsBuilds
  <2>5. StartOrder(profile) = Offline BY <1>5 DEF StartOrder
  <2> HIDE DEF S, F, G
  <2> QED BY <2>1, <2>2, <2>3, <2>4, <2>5, BuildsConcat DEF Offline
<1> QED BY <1>3, <1>4, <1>5

LEMMA ChannelsBuild ==
  ASSUME NEW b, {<<"avs", 0>>, <<"avsChannel", 0>>} \subseteq b
  PROVE  /\ Builds(b, StartRecordHardware, {})
         /\ Builds(b, StartRecordHardware \o StartAudioHardware, {})
         /\ Builds(b, StartValidationEncoder, {})
         /\ Builds(b, <<Jpeg>>, {})
<1>1. /\ <<"record", 0>> \in Parts /\ <<"recordReceive", 0>> \in Parts
      /\ <<"recordBind", 0>> \in Parts /\ <<"validation", 0>> \in Parts
      /\ <<"validationReceive", 0>> \in Parts /\ <<"validationBind", 0>> \in Parts
      /\ <<"aiDevice", 0>> \in Parts /\ <<"aiChannel", 0>> \in Parts
      /\ <<"aiResample", 0>> \in Parts /\ <<"jpeg", 0>> \in Parts
  BY InParts DEF Single
<1>2. /\ Needs(<<"record", 0>>) = {} /\ Needs(<<"recordReceive", 0>>) \subseteq {<<"record", 0>>}
      /\ Needs(<<"recordBind", 0>>) \subseteq {<<"record", 0>>, <<"avsChannel", 0>>}
  BY NeedsTable
<1>3. /\ Needs(<<"validation", 0>>) = {}
      /\ Needs(<<"validationReceive", 0>>) \subseteq {<<"validation", 0>>}
      /\ Needs(<<"validationBind", 0>>) \subseteq {<<"validation", 0>>, <<"avsChannel", 0>>}
  BY NeedsTable
<1>4. /\ Needs(<<"aiDevice", 0>>) = {} /\ Needs(<<"aiChannel", 0>>) \subseteq {<<"aiDevice", 0>>}
      /\ Needs(<<"aiResample", 0>>) \subseteq {<<"aiChannel", 0>>} /\ Needs(<<"jpeg", 0>>) = {}
  BY NeedsTable
<1>5. \A d : d \subseteq b => Builds(b, StartRecordHardware, d)
  BY <1>1, <1>2, BuildsThree DEF StartRecordHardware, Part
<1>6. Builds(b, StartAudioHardware, {})
  BY <1>1, <1>4, BuildsThree DEF StartAudioHardware, Part
<1>7. Builds(b, StartValidationEncoder, {})
  BY <1>1, <1>3, BuildsThree DEF StartValidationEncoder, Part
<1>8. Builds(b, <<Jpeg>>, {})
  BY <1>1, <1>4, BuildsOne DEF Jpeg, Part
<1> QED BY <1>5, <1>6, <1>7, <1>8, BuildsConcat

-----------------------------------------------------------------------------
(* The orders in which parts are given back.                               *)

(* s gives back the parts of S, each after those that need it.             *)
Unwinds(S, s) ==
  /\ s \in Seq(Parts)
  /\ S = {s[i] : i \in 1..Len(s)}
  /\ \A i, j \in 1..Len(s) : i <= j => s[i] \notin Needs(s[j])

LEMMA UnwindsConcat ==
  ASSUME NEW S, NEW s, NEW T, NEW t, Unwinds(S, s), Unwinds(T, t),
         \A q \in T : Needs(q) \cap S = {}
  PROVE  Unwinds(S \cup T, s \o t)
<1> DEFINE u == s \o t
<1>1. /\ s \in Seq(Parts) /\ t \in Seq(Parts)
      /\ Len(s) \in Nat /\ Len(t) \in Nat
  BY DEF Unwinds
<1>2. /\ u \in Seq(Parts) /\ Len(u) = Len(s) + Len(t)
      /\ \A i \in 1..Len(s) : u[i] = s[i]
      /\ \A i \in 1..Len(t) : u[i + Len(s)] = t[i]
  BY <1>1
<1> HIDE DEF u
<1>3. ASSUME NEW i \in 1..Len(u), i \notin 1..Len(s)
      PROVE  i - Len(s) \in 1..Len(t) /\ u[i] = t[i - Len(s)]
  <2>1. i - Len(s) \in 1..Len(t) BY <1>1, <1>2, <1>3
  <2>2. u[(i - Len(s)) + Len(s)] = t[i - Len(s)] BY <1>2, <2>1
  <2>3. (i - Len(s)) + Len(s) = i BY <1>1, <1>2
  <2> QED BY <2>1, <2>2, <2>3
<1>4. S \cup T = {u[i] : i \in 1..Len(u)}
  <2>1. ASSUME NEW i \in 1..Len(s) PROVE s[i] \in {u[k] : k \in 1..Len(u)}
    <3>1. i \in 1..Len(u) BY <1>1, <1>2
    <3> QED BY <1>2, <3>1
  <2>2. ASSUME NEW i \in 1..Len(t) PROVE t[i] \in {u[k] : k \in 1..Len(u)}
    <3>1. i + Len(s) \in 1..Len(u) BY <1>1, <1>2
    <3> QED BY <1>2, <3>1
  <2>3. ASSUME NEW i \in 1..Len(u) PROVE u[i] \in S \cup T
    <3>1. CASE i \in 1..Len(s) BY <1>2, <3>1 DEF Unwinds
    <3>2. CASE i \notin 1..Len(s)
      <4>1. i - Len(s) \in 1..Len(t) /\ u[i] = t[i - Len(s)] BY <1>3, <3>2
      <4>2. T = {t[j] : j \in 1..Len(t)} BY DEF Unwinds
      <4> QED BY <4>1, <4>2
    <3> QED BY <3>1, <3>2
  <2>4. S = {s[i] : i \in 1..Len(s)} /\ T = {t[i] : i \in 1..Len(t)} BY DEF Unwinds
  <2> QED BY <2>1, <2>2, <2>3, <2>4
<1>5. ASSUME NEW i \in 1..Len(u), NEW j \in 1..Len(u), i <= j
      PROVE  u[i] \notin Needs(u[j])
  <2>1. CASE j \in 1..Len(s)
    <3>1. i \in 1..Len(s) BY <1>1, <1>2, <1>5, <2>1
    <3>2. s[i] \notin Needs(s[j]) BY <1>5, <2>1, <3>1 DEF Unwinds
    <3>3. u[i] = s[i] /\ u[j] = s[j] BY <1>2, <2>1, <3>1
    <3> QED BY <3>2, <3>3
  <2>2. CASE i \in 1..Len(s) /\ j \notin 1..Len(s)
    <3>1. j - Len(s) \in 1..Len(t) /\ u[j] = t[j - Len(s)] BY <1>3, <2>2
    <3>2. t[j - Len(s)] \in T BY <3>1 DEF Unwinds
    <3>3. u[i] = s[i] /\ s[i] \in S BY <1>2, <2>2 DEF Unwinds
    <3>4. Needs(t[j - Len(s)]) \cap S = {} BY <3>2
    <3> QED BY <3>1, <3>3, <3>4
  <2>3. CASE i \notin 1..Len(s) /\ j \notin 1..Len(s)
    <3>1. i - Len(s) \in 1..Len(t) /\ u[i] = t[i - Len(s)] BY <1>3, <2>3
    <3>2. j - Len(s) \in 1..Len(t) /\ u[j] = t[j - Len(s)] BY <1>3, <2>3
    <3>3. i - Len(s) <= j - Len(s) BY <1>1, <1>2, <1>5
    <3>4. t[i - Len(s)] \notin Needs(t[j - Len(s)]) BY <3>1, <3>2, <3>3 DEF Unwinds
    <3> QED BY <3>1, <3>2, <3>4
  <2> QED BY <2>1, <2>2, <2>3
<1> QED BY <1>2, <1>4, <1>5 DEF Unwinds, u

LEMMA UnwindsOne ==
  ASSUME NEW a \in Parts,
         Needs(a) \cap {a} = {}
  PROVE  Unwinds({a}, <<a>>)
<1> DEFINE s == <<a>>
<1>1. s \in Seq(Parts) /\ Len(s) = 1 /\ s[1] = a
  OBVIOUS
<1> HIDE DEF s
<1>2. {a} = {s[i] : i \in 1..Len(s)}
  <2>1. \A i \in 1..Len(s) : s[i] \in {a} BY <1>1
  <2>2. 1 \in 1..Len(s) BY <1>1
  <2> QED BY <1>1, <2>1, <2>2
<1>3. \A i, j \in 1..Len(s) : i <= j => s[i] \notin Needs(s[j])
  BY <1>1
<1> QED BY <1>1, <1>2, <1>3 DEF Unwinds, s

LEMMA UnwindsTwo ==
  ASSUME NEW a \in Parts, NEW b \in Parts,
         Needs(a) \cap {a} = {},
         Needs(b) \cap {a, b} = {}
  PROVE  Unwinds({a, b}, <<a, b>>)
<1> DEFINE s == <<a, b>>
<1>1. s \in Seq(Parts) /\ Len(s) = 2 /\ s[1] = a /\ s[2] = b
  OBVIOUS
<1> HIDE DEF s
<1>2. {a, b} = {s[i] : i \in 1..Len(s)}
  <2>1. \A i \in 1..Len(s) : s[i] \in {a, b} BY <1>1
  <2>2. 1 \in 1..Len(s) /\ 2 \in 1..Len(s) BY <1>1
  <2> QED BY <1>1, <2>1, <2>2
<1>3. \A i, j \in 1..Len(s) : i <= j => s[i] \notin Needs(s[j])
  BY <1>1
<1> QED BY <1>1, <1>2, <1>3 DEF Unwinds, s

LEMMA UnwindsThree ==
  ASSUME NEW a \in Parts, NEW b \in Parts, NEW c \in Parts,
         Needs(a) \cap {a} = {},
         Needs(b) \cap {a, b} = {},
         Needs(c) \cap {a, b, c} = {}
  PROVE  Unwinds({a, b, c}, <<a, b, c>>)
<1> DEFINE s == <<a, b, c>>
<1>1. s \in Seq(Parts) /\ Len(s) = 3 /\ s[1] = a /\ s[2] = b /\ s[3] = c
  OBVIOUS
<1> HIDE DEF s
<1>2. {a, b, c} = {s[i] : i \in 1..Len(s)}
  <2>1. \A i \in 1..Len(s) : s[i] \in {a, b, c} BY <1>1
  <2>2. 1 \in 1..Len(s) /\ 2 \in 1..Len(s) /\ 3 \in 1..Len(s) BY <1>1
  <2> QED BY <1>1, <2>1, <2>2
<1>3. \A i, j \in 1..Len(s) : i <= j => s[i] \notin Needs(s[j])
  BY <1>1
<1> QED BY <1>1, <1>2, <1>3 DEF Unwinds, s

LEMMA UnwindsFour ==
  ASSUME NEW a \in Parts, NEW b \in Parts, NEW c \in Parts, NEW d \in Parts,
         Needs(a) \cap {a} = {},
         Needs(b) \cap {a, b} = {},
         Needs(c) \cap {a, b, c} = {},
         Needs(d) \cap {a, b, c, d} = {}
  PROVE  Unwinds({a, b, c, d}, <<a, b, c, d>>)
<1> DEFINE s == <<a, b, c, d>>
<1>1. s \in Seq(Parts) /\ Len(s) = 4 /\ s[1] = a /\ s[2] = b /\ s[3] = c /\ s[4] = d
  OBVIOUS
<1> HIDE DEF s
<1>2. {a, b, c, d} = {s[i] : i \in 1..Len(s)}
  <2>1. \A i \in 1..Len(s) : s[i] \in {a, b, c, d} BY <1>1
  <2>2. 1 \in 1..Len(s) /\ 2 \in 1..Len(s) /\ 3 \in 1..Len(s) /\ 4 \in 1..Len(s) BY <1>1
  <2> QED BY <1>1, <2>1, <2>2
<1>3. \A i, j \in 1..Len(s) : i <= j => s[i] \notin Needs(s[j])
  BY <1>1
<1> QED BY <1>1, <1>2, <1>3 DEF Unwinds, s

LEMMA UnwindsFive ==
  ASSUME NEW a \in Parts, NEW b \in Parts, NEW c \in Parts, NEW d \in Parts, NEW e \in Parts,
         Needs(a) \cap {a} = {},
         Needs(b) \cap {a, b} = {},
         Needs(c) \cap {a, b, c} = {},
         Needs(d) \cap {a, b, c, d} = {},
         Needs(e) \cap {a, b, c, d, e} = {}
  PROVE  Unwinds({a, b, c, d, e}, <<a, b, c, d, e>>)
<1> DEFINE s == <<a, b, c, d, e>>
<1>1. s \in Seq(Parts) /\ Len(s) = 5 /\ s[1] = a /\ s[2] = b /\ s[3] = c /\ s[4] = d /\ s[5] = e
  OBVIOUS
<1> HIDE DEF s
<1>2. {a, b, c, d, e} = {s[i] : i \in 1..Len(s)}
  <2>1. \A i \in 1..Len(s) : s[i] \in {a, b, c, d, e} BY <1>1
  <2>2. 1 \in 1..Len(s) /\ 2 \in 1..Len(s) /\ 3 \in 1..Len(s) /\ 4 \in 1..Len(s) /\ 5 \in 1..Len(s) BY <1>1
  <2> QED BY <1>1, <2>1, <2>2
<1>3. \A i, j \in 1..Len(s) : i <= j => s[i] \notin Needs(s[j])
  BY <1>1
<1> QED BY <1>1, <1>2, <1>3 DEF Unwinds, s

LEMMA MicrophoneUnwinds ==
  Unwinds({<<"aiResample", 0>>, <<"aiChannel", 0>>, <<"aiDevice", 0>>},
          StopMicrophone)
<1>1. /\ <<"aiResample", 0>> \in Parts
      /\ <<"aiChannel", 0>> \in Parts
      /\ <<"aiDevice", 0>> \in Parts
  BY InParts DEF Single, Double
<1>2. /\ Needs(<<"aiResample", 0>>) \cap {<<"aiResample", 0>>} = {}
      /\ Needs(<<"aiChannel", 0>>) \cap {<<"aiResample", 0>>, <<"aiChannel", 0>>} = {}
      /\ Needs(<<"aiDevice", 0>>) \cap {<<"aiResample", 0>>, <<"aiChannel", 0>>, <<"aiDevice", 0>>} = {}
  <2>1. Needs(<<"aiResample", 0>>) \cap {<<"aiResample", 0>>} = {} BY NeedsTable
  <2>2. Needs(<<"aiChannel", 0>>) \cap {<<"aiResample", 0>>, <<"aiChannel", 0>>} = {} BY NeedsTable
  <2>3. Needs(<<"aiDevice", 0>>) \cap {<<"aiResample", 0>>, <<"aiChannel", 0>>, <<"aiDevice", 0>>} = {} BY NeedsTable
  <2> QED BY <2>1, <2>2, <2>3
<1> QED BY <1>1, <1>2, UnwindsThree DEF Part, StopMicrophone

LEMMA RecordUnwinds ==
  Unwinds({<<"recordBind", 0>>, <<"recordReceive", 0>>, <<"record", 0>>},
          StopRecordHardware)
<1>1. /\ <<"recordBind", 0>> \in Parts
      /\ <<"recordReceive", 0>> \in Parts
      /\ <<"record", 0>> \in Parts
  BY InParts DEF Single, Double
<1>2. /\ Needs(<<"recordBind", 0>>) \cap {<<"recordBind", 0>>} = {}
      /\ Needs(<<"recordReceive", 0>>) \cap {<<"recordBind", 0>>, <<"recordReceive", 0>>} = {}
      /\ Needs(<<"record", 0>>) \cap {<<"recordBind", 0>>, <<"recordReceive", 0>>, <<"record", 0>>} = {}
  <2>1. Needs(<<"recordBind", 0>>) \cap {<<"recordBind", 0>>} = {} BY NeedsTable
  <2>2. Needs(<<"recordReceive", 0>>) \cap {<<"recordBind", 0>>, <<"recordReceive", 0>>} = {} BY NeedsTable
  <2>3. Needs(<<"record", 0>>) \cap {<<"recordBind", 0>>, <<"recordReceive", 0>>, <<"record", 0>>} = {} BY NeedsTable
  <2> QED BY <2>1, <2>2, <2>3
<1> QED BY <1>1, <1>2, UnwindsThree DEF Part, StopRecordHardware

LEMMA ValidationUnwinds ==
  Unwinds({<<"validationBind", 0>>, <<"validationReceive", 0>>, <<"validation", 0>>},
          StopValidationEncoder)
<1>1. /\ <<"validationBind", 0>> \in Parts
      /\ <<"validationReceive", 0>> \in Parts
      /\ <<"validation", 0>> \in Parts
  BY InParts DEF Single, Double
<1>2. /\ Needs(<<"validationBind", 0>>) \cap {<<"validationBind", 0>>} = {}
      /\ Needs(<<"validationReceive", 0>>) \cap {<<"validationBind", 0>>, <<"validationReceive", 0>>} = {}
      /\ Needs(<<"validation", 0>>) \cap {<<"validationBind", 0>>, <<"validationReceive", 0>>, <<"validation", 0>>} = {}
  <2>1. Needs(<<"validationBind", 0>>) \cap {<<"validationBind", 0>>} = {} BY NeedsTable
  <2>2. Needs(<<"validationReceive", 0>>) \cap {<<"validationBind", 0>>, <<"validationReceive", 0>>} = {} BY NeedsTable
  <2>3. Needs(<<"validation", 0>>) \cap {<<"validationBind", 0>>, <<"validationReceive", 0>>, <<"validation", 0>>} = {} BY NeedsTable
  <2> QED BY <2>1, <2>2, <2>3
<1> QED BY <1>1, <1>2, UnwindsThree DEF Part, StopValidationEncoder

LEMMA ScreenUnwinds ==
  ASSUME NEW k \in {0, 1}
  PROVE  Unwinds({<<"screenBind", k>>, <<"screen", k>>},
                 StopScreen(k))
<1>1. /\ <<"screenBind", k>> \in Parts
      /\ <<"screen", k>> \in Parts
  BY InParts DEF Single, Double
<1>2. /\ Needs(<<"screenBind", k>>) \cap {<<"screenBind", k>>} = {}
      /\ Needs(<<"screen", k>>) \cap {<<"screenBind", k>>, <<"screen", k>>} = {}
  <2>1. Needs(<<"screenBind", k>>) \cap {<<"screenBind", k>>} = {}
    <3>1. Needs(<<"screenBind", k>>) \subseteq {<<"screen", k>>, <<"small", IF Stitched THEN k ELSE 0>>} BY NeedsTable
    <3> QED BY <3>1
  <2>2. Needs(<<"screen", k>>) \cap {<<"screenBind", k>>, <<"screen", k>>} = {}
    <3>1. Needs(<<"screen", k>>) \subseteq {<<"layer", 0>>} BY NeedsTable
    <3> QED BY <3>1
  <2> QED BY <2>1, <2>2
<1> QED BY <1>1, <1>2, UnwindsTwo DEF Part, StopScreen

LEMMA LayerUnwinds ==
  Unwinds({<<"layer", 0>>, <<"layerBound", 0>>},
          <<Part("layer", 0), Part("layerBound", 0)>>)
<1>1. /\ <<"layer", 0>> \in Parts
      /\ <<"layerBound", 0>> \in Parts
  BY InParts DEF Single, Double
<1>2. /\ Needs(<<"layer", 0>>) \cap {<<"layer", 0>>} = {}
      /\ Needs(<<"layerBound", 0>>) \cap {<<"layer", 0>>, <<"layerBound", 0>>} = {}
  <2>1. Needs(<<"layer", 0>>) \cap {<<"layer", 0>>} = {} BY NeedsTable
  <2>2. Needs(<<"layerBound", 0>>) \cap {<<"layer", 0>>, <<"layerBound", 0>>} = {} BY NeedsTable
  <2> QED BY <2>1, <2>2
<1> QED BY <1>1, <1>2, UnwindsTwo DEF Part

LEMMA AvsUnwinds ==
  Unwinds({<<"avsBind", 1>>, <<"avsBind", 0>>, <<"avsChannel", 0>>, <<"avs", 0>>},
          <<Part("avsBind", 1), Part("avsBind", 0), Part("avsChannel", 0), Part("avs", 0)>>)
<1>1. /\ <<"avsBind", 1>> \in Parts
      /\ <<"avsBind", 0>> \in Parts
      /\ <<"avsChannel", 0>> \in Parts
      /\ <<"avs", 0>> \in Parts
  BY InParts DEF Single, Double
<1>2. /\ Needs(<<"avsBind", 1>>) \cap {<<"avsBind", 1>>} = {}
      /\ Needs(<<"avsBind", 0>>) \cap {<<"avsBind", 1>>, <<"avsBind", 0>>} = {}
      /\ Needs(<<"avsChannel", 0>>) \cap {<<"avsBind", 1>>, <<"avsBind", 0>>, <<"avsChannel", 0>>} = {}
      /\ Needs(<<"avs", 0>>) \cap {<<"avsBind", 1>>, <<"avsBind", 0>>, <<"avsChannel", 0>>, <<"avs", 0>>} = {}
  <2>1. Needs(<<"avsBind", 1>>) \cap {<<"avsBind", 1>>} = {} BY NeedsTable
  <2>2. Needs(<<"avsBind", 0>>) \cap {<<"avsBind", 1>>, <<"avsBind", 0>>} = {} BY NeedsTable
  <2>3. Needs(<<"avsChannel", 0>>) \cap {<<"avsBind", 1>>, <<"avsBind", 0>>, <<"avsChannel", 0>>} = {} BY NeedsTable
  <2>4. Needs(<<"avs", 0>>) \cap {<<"avsBind", 1>>, <<"avsBind", 0>>, <<"avsChannel", 0>>, <<"avs", 0>>} = {} BY NeedsTable
  <2> QED BY <2>1, <2>2, <2>3, <2>4
<1> QED BY <1>1, <1>2, UnwindsFour DEF Part

LEMMA VpssUnwinds ==
  ASSUME NEW k \in {0, 1}
  PROVE  Unwinds({<<"viBind", k>>, <<"histogram", k>>, <<"small", k>>, <<"full", k>>, <<"group", k>>},
                 StopVpss(k))
<1>1. /\ <<"viBind", k>> \in Parts
      /\ <<"histogram", k>> \in Parts
      /\ <<"small", k>> \in Parts
      /\ <<"full", k>> \in Parts
      /\ <<"group", k>> \in Parts
  BY InParts DEF Single, Double
<1>2. /\ Needs(<<"viBind", k>>) \cap {<<"viBind", k>>} = {}
      /\ Needs(<<"histogram", k>>) \cap {<<"viBind", k>>, <<"histogram", k>>} = {}
      /\ Needs(<<"small", k>>) \cap {<<"viBind", k>>, <<"histogram", k>>, <<"small", k>>} = {}
      /\ Needs(<<"full", k>>) \cap {<<"viBind", k>>, <<"histogram", k>>, <<"small", k>>, <<"full", k>>} = {}
      /\ Needs(<<"group", k>>) \cap {<<"viBind", k>>, <<"histogram", k>>, <<"small", k>>, <<"full", k>>, <<"group", k>>} = {}
  <2>1. Needs(<<"viBind", k>>) \cap {<<"viBind", k>>} = {}
    <3>1. Needs(<<"viBind", k>>) \subseteq {<<"vi", Device(profile, k)>>, <<"group", k>>} BY NeedsTable
    <3> QED BY <3>1
  <2>2. Needs(<<"histogram", k>>) \cap {<<"viBind", k>>, <<"histogram", k>>} = {}
    <3>1. Needs(<<"histogram", k>>) \subseteq {<<"group", k>>} BY NeedsTable
    <3> QED BY <3>1
  <2>3. Needs(<<"small", k>>) \cap {<<"viBind", k>>, <<"histogram", k>>, <<"small", k>>} = {}
    <3>1. Needs(<<"small", k>>) \subseteq {<<"group", k>>} BY NeedsTable
    <3> QED BY <3>1
  <2>4. Needs(<<"full", k>>) \cap {<<"viBind", k>>, <<"histogram", k>>, <<"small", k>>, <<"full", k>>} = {}
    <3>1. Needs(<<"full", k>>) \subseteq {<<"group", k>>} BY NeedsTable
    <3> QED BY <3>1
  <2>5. Needs(<<"group", k>>) \cap {<<"viBind", k>>, <<"histogram", k>>, <<"small", k>>, <<"full", k>>, <<"group", k>>} = {}
    <3>1. Needs(<<"group", k>>) = {} BY NeedsTable
    <3> QED BY <3>1
  <2> QED BY <2>1, <2>2, <2>3, <2>4, <2>5
<1> QED BY <1>1, <1>2, UnwindsFive DEF Part, StopVpss

LEMMA ViUnwinds ==
  ASSUME NEW k \in {0, 1}
  PROVE  Unwinds({<<"vi", k>>, <<"viDevice", k>>, <<"sensor", k>>},
                 StopVi(k))
<1>1. /\ <<"vi", k>> \in Parts
      /\ <<"viDevice", k>> \in Parts
      /\ <<"sensor", k>> \in Parts
  BY InParts DEF Single, Double
<1>2. /\ Needs(<<"vi", k>>) \cap {<<"vi", k>>} = {}
      /\ Needs(<<"viDevice", k>>) \cap {<<"vi", k>>, <<"viDevice", k>>} = {}
      /\ Needs(<<"sensor", k>>) \cap {<<"vi", k>>, <<"viDevice", k>>, <<"sensor", k>>} = {}
  <2>1. Needs(<<"vi", k>>) \cap {<<"vi", k>>} = {}
    <3>1. Needs(<<"vi", k>>) \subseteq {<<"viDevice", k>>} BY NeedsTable
    <3> QED BY <3>1
  <2>2. Needs(<<"viDevice", k>>) \cap {<<"vi", k>>, <<"viDevice", k>>} = {}
    <3>1. Needs(<<"viDevice", k>>) \subseteq {<<"sensor", k>>} BY NeedsTable
    <3> QED BY <3>1
  <2>3. Needs(<<"sensor", k>>) \cap {<<"vi", k>>, <<"viDevice", k>>, <<"sensor", k>>} = {}
    <3>1. Needs(<<"sensor", k>>) = {} BY NeedsTable
    <3> QED BY <3>1
  <2> QED BY <2>1, <2>2, <2>3
<1> QED BY <1>1, <1>2, UnwindsThree DEF Part, StopVi

LEMMA PhotoUnwinds ==
  Unwinds({<<"stack", 0>>, <<"jpeg", 0>>},
          <<Stack, Jpeg>>)
<1>1. /\ <<"stack", 0>> \in Parts
      /\ <<"jpeg", 0>> \in Parts
  BY InParts DEF Single, Double
<1>2. /\ Needs(<<"stack", 0>>) \cap {<<"stack", 0>>} = {}
      /\ Needs(<<"jpeg", 0>>) \cap {<<"stack", 0>>, <<"jpeg", 0>>} = {}
  <2>1. Needs(<<"stack", 0>>) \cap {<<"stack", 0>>} = {} BY NeedsTable
  <2>2. Needs(<<"jpeg", 0>>) \cap {<<"stack", 0>>, <<"jpeg", 0>>} = {} BY NeedsTable
  <2> QED BY <2>1, <2>2
<1> QED BY <1>1, <1>2, UnwindsTwo DEF Part, Stack, Jpeg

LEMMA JpegUnwinds ==
  Unwinds({<<"jpeg", 0>>},
          <<Jpeg>>)
<1>1. /\ <<"jpeg", 0>> \in Parts
  BY InParts DEF Single, Double
<1>2. /\ Needs(<<"jpeg", 0>>) \cap {<<"jpeg", 0>>} = {}
  <2>1. Needs(<<"jpeg", 0>>) \cap {<<"jpeg", 0>>} = {} BY NeedsTable
  <2> QED BY <2>1
<1> QED BY <1>1, <1>2, UnwindsOne DEF Part, Jpeg

(* ngcd_rk_graph_stop gives back all the hardware, each part after those    *)
(* that need it.                                                           *)
LEMMA StopUnwinds == Unwinds(Hardware, StopOrder)
<1> DEFINE PhotoParts == {<<"stack", 0>>, <<"jpeg", 0>>}
           MicParts == {<<"aiResample", 0>>, <<"aiChannel", 0>>, <<"aiDevice", 0>>}
           Record == {<<"recordBind", 0>>, <<"recordReceive", 0>>, <<"record", 0>>}
           Validation == {<<"validationBind", 0>>, <<"validationReceive", 0>>, <<"validation", 0>>}
           Screen1 == {<<"screenBind", 1>>, <<"screen", 1>>}
           Screen0 == {<<"screenBind", 0>>, <<"screen", 0>>}
           Layer == {<<"layer", 0>>, <<"layerBound", 0>>}
           Avs == {<<"avsBind", 1>>, <<"avsBind", 0>>, <<"avsChannel", 0>>, <<"avs", 0>>}
           Vpss1 == {<<"viBind", 1>>, <<"histogram", 1>>, <<"small", 1>>, <<"full", 1>>, <<"group", 1>>}
           Vpss0 == {<<"viBind", 0>>, <<"histogram", 0>>, <<"small", 0>>, <<"full", 0>>, <<"group", 0>>}
           Vi1 == {<<"vi", 1>>, <<"viDevice", 1>>, <<"sensor", 1>>}
           Vi0 == {<<"vi", 0>>, <<"viDevice", 0>>, <<"sensor", 0>>}
           S1 == PhotoParts \cup MicParts
           S2 == S1 \cup Record
           S3 == S2 \cup Validation
           S4 == S3 \cup Screen1
           S5 == S4 \cup Screen0
           S6 == S5 \cup Layer
           S7 == S6 \cup Avs
           S8 == S7 \cup Vpss1
           S9 == S8 \cup Vpss0
           S10 == S9 \cup Vi1
           S11 == S10 \cup Vi0
<1>1. Unwinds(PhotoParts, <<Stack, Jpeg>>) BY PhotoUnwinds
<1>2. Unwinds(MicParts, StopMicrophone) BY MicrophoneUnwinds
<1>3. Unwinds(Record, StopRecordHardware) BY RecordUnwinds
<1>4. Unwinds(Validation, StopValidationEncoder) BY ValidationUnwinds
<1>5. Unwinds(Screen1, StopScreen(1)) BY ScreenUnwinds
<1>6. Unwinds(Screen0, StopScreen(0)) BY ScreenUnwinds
<1>7. Unwinds(Layer, <<Part("layer", 0), Part("layerBound", 0)>>) BY LayerUnwinds
<1>8. Unwinds(Avs, <<Part("avsBind", 1), Part("avsBind", 0), Part("avsChannel", 0), Part("avs", 0)>>) BY AvsUnwinds
<1>9. Unwinds(Vpss1, StopVpss(1)) BY VpssUnwinds
<1>10. Unwinds(Vpss0, StopVpss(0)) BY VpssUnwinds
<1>11. Unwinds(Vi1, StopVi(1)) BY ViUnwinds
<1>12. Unwinds(Vi0, StopVi(0)) BY ViUnwinds
<1>13. \A q \in MicParts : Needs(q) \cap PhotoParts = {}
  <2>1. \A q \in MicParts : Needs(q) \subseteq {<<"aiChannel", 0>>, <<"aiDevice", 0>>}
    BY NeedsTable DEF Device
  <2>2. {<<"aiChannel", 0>>, <<"aiDevice", 0>>} \cap PhotoParts = {} OBVIOUS
  <2> QED BY <2>1, <2>2
<1>14. \A q \in Record : Needs(q) \cap S1 = {}
  <2>1. \A q \in Record : Needs(q) \subseteq {<<"record", 0>>, <<"avsChannel", 0>>}
    BY NeedsTable DEF Device
  <2>2. {<<"record", 0>>, <<"avsChannel", 0>>} \cap S1 = {} OBVIOUS
  <2> QED BY <2>1, <2>2
<1>15. \A q \in Validation : Needs(q) \cap S2 = {}
  <2>1. \A q \in Validation : Needs(q) \subseteq {<<"validation", 0>>, <<"avsChannel", 0>>}
    BY NeedsTable DEF Device
  <2>2. {<<"validation", 0>>, <<"avsChannel", 0>>} \cap S2 = {} OBVIOUS
  <2> QED BY <2>1, <2>2
<1>16. \A q \in Screen1 : Needs(q) \cap S3 = {}
  <2>1. \A q \in Screen1 : Needs(q) \subseteq {<<"screen", 1>>, <<"small", 0>>, <<"small", 1>>, <<"layer", 0>>}
    BY NeedsTable DEF Device
  <2>2. {<<"screen", 1>>, <<"small", 0>>, <<"small", 1>>, <<"layer", 0>>} \cap S3 = {} OBVIOUS
  <2> QED BY <2>1, <2>2
<1>17. \A q \in Screen0 : Needs(q) \cap S4 = {}
  <2>1. \A q \in Screen0 : Needs(q) \subseteq {<<"screen", 0>>, <<"small", 0>>, <<"layer", 0>>}
    BY NeedsTable DEF Device
  <2>2. {<<"screen", 0>>, <<"small", 0>>, <<"layer", 0>>} \cap S4 = {} OBVIOUS
  <2> QED BY <2>1, <2>2
<1>18. \A q \in Layer : Needs(q) \cap S5 = {}
  <2>1. \A q \in Layer : Needs(q) \subseteq {<<"layerBound", 0>>}
    BY NeedsTable DEF Device
  <2>2. {<<"layerBound", 0>>} \cap S5 = {} OBVIOUS
  <2> QED BY <2>1, <2>2
<1>19. \A q \in Avs : Needs(q) \cap S6 = {}
  <2>1. \A q \in Avs : Needs(q) \subseteq {<<"avs", 0>>, <<"full", 0>>, <<"full", 1>>}
    BY NeedsTable DEF Device
  <2>2. {<<"avs", 0>>, <<"full", 0>>, <<"full", 1>>} \cap S6 = {} OBVIOUS
  <2> QED BY <2>1, <2>2
<1>20. \A q \in Vpss1 : Needs(q) \cap S7 = {}
  <2>1. \A q \in Vpss1 : Needs(q) \subseteq {<<"group", 1>>, <<"vi", 0>>, <<"vi", 1>>}
    BY NeedsTable DEF Device
  <2>2. {<<"group", 1>>, <<"vi", 0>>, <<"vi", 1>>} \cap S7 = {} OBVIOUS
  <2> QED BY <2>1, <2>2
<1>21. \A q \in Vpss0 : Needs(q) \cap S8 = {}
  <2>1. \A q \in Vpss0 : Needs(q) \subseteq {<<"group", 0>>, <<"vi", 0>>, <<"vi", 1>>}
    BY NeedsTable DEF Device
  <2>2. {<<"group", 0>>, <<"vi", 0>>, <<"vi", 1>>} \cap S8 = {} OBVIOUS
  <2> QED BY <2>1, <2>2
<1>22. \A q \in Vi1 : Needs(q) \cap S9 = {}
  <2>1. \A q \in Vi1 : Needs(q) \subseteq {<<"viDevice", 1>>, <<"sensor", 1>>}
    BY NeedsTable DEF Device
  <2>2. {<<"viDevice", 1>>, <<"sensor", 1>>} \cap S9 = {} OBVIOUS
  <2> QED BY <2>1, <2>2
<1>23. \A q \in Vi0 : Needs(q) \cap S10 = {}
  <2>1. \A q \in Vi0 : Needs(q) \subseteq {<<"viDevice", 0>>, <<"sensor", 0>>}
    BY NeedsTable DEF Device
  <2>2. {<<"viDevice", 0>>, <<"sensor", 0>>} \cap S10 = {} OBVIOUS
  <2> QED BY <2>1, <2>2
<1>24. S11 = Hardware
  BY DEF Hardware, Single, Double
<1> HIDE DEF PhotoParts, MicParts, Record, Validation, Screen1, Screen0, Layer, Avs, Vpss1, Vpss0, Vi1, Vi0, S1, S2, S3, S4, S5, S6, S7, S8, S9, S10, S11
<1> DEFINE t1 == <<Stack, Jpeg>> \o StopMicrophone
           t2 == t1 \o StopRecordHardware
           t3 == t2 \o StopValidationEncoder
           t4 == t3 \o StopScreen(1)
           t5 == t4 \o StopScreen(0)
           t6 == t5 \o <<Part("layer", 0), Part("layerBound", 0)>>
           t7 == t6 \o <<Part("avsBind", 1), Part("avsBind", 0), Part("avsChannel", 0), Part("avs", 0)>>
           t8 == t7 \o StopVpss(1)
           t9 == t8 \o StopVpss(0)
           t10 == t9 \o StopVi(1)
           t11 == t10 \o StopVi(0)
<1>25. Unwinds(S1, t1) BY <1>1, <1>2, <1>13, UnwindsConcat DEF S1
<1>26. Unwinds(S2, t2) BY <1>25, <1>3, <1>14, UnwindsConcat DEF S2
<1>27. Unwinds(S3, t3) BY <1>26, <1>4, <1>15, UnwindsConcat DEF S3
<1>28. Unwinds(S4, t4) BY <1>27, <1>5, <1>16, UnwindsConcat DEF S4
<1>29. Unwinds(S5, t5) BY <1>28, <1>6, <1>17, UnwindsConcat DEF S5
<1>30. Unwinds(S6, t6) BY <1>29, <1>7, <1>18, UnwindsConcat DEF S6
<1>31. Unwinds(S7, t7) BY <1>30, <1>8, <1>19, UnwindsConcat DEF S7
<1>32. Unwinds(S8, t8) BY <1>31, <1>9, <1>20, UnwindsConcat DEF S8
<1>33. Unwinds(S9, t9) BY <1>32, <1>10, <1>21, UnwindsConcat DEF S9
<1>34. Unwinds(S10, t10) BY <1>33, <1>11, <1>22, UnwindsConcat DEF S10
<1>35. Unwinds(S11, t11) BY <1>34, <1>12, <1>23, UnwindsConcat DEF S11
<1> QED BY <1>24, <1>35 DEF StopOrder

-----------------------------------------------------------------------------
(* The inductive invariant.                                                *)

ChannelOrders == {StopRecordHardware, StopValidationEncoder, StopMicrophone, <<Jpeg>>,
                  StopRecordHardware \o StopValidationEncoder}
GivingOrders == ChannelOrders \cup {StopOrder}
Stitch == {<<"avs", 0>>, <<"avsChannel", 0>>}

GraphTypes ==
  /\ profile \in Profiles
  /\ {started, recording, pending} \subseteq BOOLEAN
  /\ job \in [op : Taking \cup Giving \cup {"none"}, todo : Seq(Parts), at : Nat]
  /\ pair \in Pairs

(* Every part that is on has what it needs.                                *)
Supplied ==
  /\ owned = on
  /\ on \subseteq Hardware
  /\ \A p \in on : Needs(p) \subseteq on

(* Which orders the operations follow.                                     *)
Planned ==
  /\ job.op = "none" => job = Nothing
  /\ job.op = "start" => job.todo = StartOrder(profile) /\ ~started
  /\ job.op = "activate" => job.todo = StartRecordHardware
  /\ job.op = "record" => job.todo = StartRecordHardware \o StartAudioHardware
  /\ job.op = "validation" => job.todo = StartValidationEncoder
  /\ job.op = "photo" => job.todo = <<Jpeg>>
  /\ job.op \in Taking \ {"start"} => started /\ Stitch \subseteq on
  /\ job.op = "validate" => started /\ Stitch \subseteq on
  /\ job.op = "stop" => ~started
  /\ job.op \in Giving /\ started => job.todo \in ChannelOrders
  /\ job.op \in Giving /\ ~started => job.todo = StopOrder
  /\ pending => started /\ Stitch \subseteq on

(* How far an operation has come: the parts before "at" are dealt with.    *)
Reached ==
  /\ job.at \in 1..(Len(job.todo) + 1)
  /\ job.op \in Taking => \A i \in 1..(job.at - 1) : job.todo[i] \in on \cup Dispensable
  /\ job.op \in Giving => \A i \in 1..(job.at - 1) : job.todo[i] \notin on

IdleIsEmpty == ~started /\ job.op = "none" => on = {}

PairInJob ==
  /\ pair.op \in {"raw", "enqueue"} => job.op = "none" /\ started
  /\ pair.op = "run" => /\ job.op = "start" /\ job.at \in 1..Len(job.todo)
                        /\ job.todo[job.at] = Part("run", 0)

GraphInv == GraphTypes /\ Supplied /\ Planned /\ Reached /\ IdleIsEmpty /\ PairInJob

LEMMA GivingFacts ==
  ASSUME NEW s \in GivingOrders
  PROVE  \E S \in SUBSET Hardware :
           /\ Unwinds(S, s)
           /\ \A p \in S, q \in Hardware : p \in Needs(q) => q \in S
           /\ s = StopOrder \/ S \cap Stitch = {}
<1> DEFINE Together(S) == \A p \in S, q \in Hardware : p \in Needs(q) => q \in S
           R == {<<"recordBind", 0>>, <<"recordReceive", 0>>, <<"record", 0>>}
           V == {<<"validationBind", 0>>, <<"validationReceive", 0>>, <<"validation", 0>>}
           M == {<<"aiResample", 0>>, <<"aiChannel", 0>>, <<"aiDevice", 0>>}
           J == {<<"jpeg", 0>>}
<1>1. R \subseteq Hardware /\ V \subseteq Hardware /\ M \subseteq Hardware /\ J \subseteq Hardware
  BY DEF Hardware, Single
<1>0. /\ R \cap Stitch = {} /\ V \cap Stitch = {} /\ M \cap Stitch = {} /\ J \cap Stitch = {}
      /\ (R \cup V) \cap Stitch = {}
  BY DEF Stitch
<1>2. Together(R)
  BY DEF Needs, WorksOn, IndexOf, Device, Part, Hardware, Single, Double
<1>3. Together(V)
  BY DEF Needs, WorksOn, IndexOf, Device, Part, Hardware, Single, Double
<1>4. Together(M)
  BY DEF Needs, WorksOn, IndexOf, Device, Part, Hardware, Single, Double
<1>5. Together(J)
  BY DEF Needs, WorksOn, IndexOf, Device, Part, Hardware, Single, Double
<1>6. Together(R \cup V) BY <1>2, <1>3
<1>7. Together(Hardware) OBVIOUS
<1>8. Unwinds(R \cup V, StopRecordHardware \o StopValidationEncoder)
  <2>1. \A q \in V : Needs(q) \subseteq {<<"validation", 0>>, <<"avsChannel", 0>>} BY NeedsTable
  <2>2. {<<"validation", 0>>, <<"avsChannel", 0>>} \cap R = {} OBVIOUS
  <2>3. \A q \in V : Needs(q) \cap R = {} BY <2>1, <2>2
  <2>4. Unwinds(R, StopRecordHardware) /\ Unwinds(V, StopValidationEncoder)
    BY RecordUnwinds, ValidationUnwinds
  <2> HIDE DEF R, V
  <2> QED BY <2>3, <2>4, UnwindsConcat
<1>9. /\ Unwinds(R, StopRecordHardware) /\ Unwinds(V, StopValidationEncoder)
      /\ Unwinds(M, StopMicrophone) /\ Unwinds(J, <<Jpeg>>) /\ Unwinds(Hardware, StopOrder)
  BY RecordUnwinds, ValidationUnwinds, MicrophoneUnwinds, JpegUnwinds, StopUnwinds
<1> HIDE DEF R, V, M, J
<1>10. CASE s = StopOrder
  <2>1. Hardware \in SUBSET Hardware /\ Unwinds(Hardware, s) /\ Together(Hardware)
    BY <1>7, <1>9, <1>10
  <2> QED BY <1>10, <2>1
<1>11. CASE s = StopRecordHardware
  <2>1. R \in SUBSET Hardware /\ Unwinds(R, s) /\ Together(R) /\ R \cap Stitch = {}
    BY <1>0, <1>1, <1>2, <1>9, <1>11
  <2> QED BY <2>1
<1>12. CASE s = StopValidationEncoder
  <2>1. V \in SUBSET Hardware /\ Unwinds(V, s) /\ Together(V) /\ V \cap Stitch = {}
    BY <1>0, <1>1, <1>3, <1>9, <1>12
  <2> QED BY <2>1
<1>13. CASE s = StopMicrophone
  <2>1. M \in SUBSET Hardware /\ Unwinds(M, s) /\ Together(M) /\ M \cap Stitch = {}
    BY <1>0, <1>1, <1>4, <1>9, <1>13
  <2> QED BY <2>1
<1>14. CASE s = <<Jpeg>>
  <2>1. J \in SUBSET Hardware /\ Unwinds(J, s) /\ Together(J) /\ J \cap Stitch = {}
    BY <1>0, <1>1, <1>5, <1>9, <1>14
  <2> QED BY <2>1
<1>15. CASE s = StopRecordHardware \o StopValidationEncoder
  <2>1. (R \cup V) \in SUBSET Hardware /\ Unwinds(R \cup V, s) /\ Together(R \cup V)
        /\ (R \cup V) \cap Stitch = {}
    BY <1>0, <1>1, <1>6, <1>8, <1>15
  <2> QED BY <2>1
<1> QED BY <1>10, <1>11, <1>12, <1>13, <1>14, <1>15 DEF GivingOrders, ChannelOrders

(* The stop of the graph takes more than any channel.                      *)
LEMMA StopIsNoChannel == StopOrder \notin ChannelOrders
<1>1. \A i \in 1..Len(StopOrder) : StopOrder[i] \in Hardware
  BY StopUnwinds DEF Unwinds
<1>2. <<"sensor", 0>> \in {StopOrder[i] : i \in 1..Len(StopOrder)}
  BY StopUnwinds DEF Unwinds, Hardware, Double
<1>3. ASSUME NEW s \in ChannelOrders, NEW i \in 1..Len(s) PROVE s[i] # <<"sensor", 0>>
  <2>1. CASE s \in {StopRecordHardware, StopValidationEncoder, StopMicrophone, <<Jpeg>>}
    BY <2>1 DEF StopRecordHardware, StopValidationEncoder, StopMicrophone, Jpeg, Part
  <2>2. CASE s = StopRecordHardware \o StopValidationEncoder
    BY <2>2 DEF StopRecordHardware, StopValidationEncoder, Part
  <2> QED BY <2>1, <2>2 DEF ChannelOrders
<1> QED BY <1>2, <1>3

LEMMA TakingFacts ==
  ASSUME GraphInv, job.op \in Taking
  PROVE  \E b \in SUBSET on : Builds(b, job.todo, {})
<1>1. CASE job.op = "start"
  <2>1. Builds({}, job.todo, {}) BY <1>1, StartBuilds DEF GraphInv, GraphTypes, Planned
  <2> QED BY <2>1
<1>2. CASE job.op # "start"
  <2>1. Stitch \subseteq on BY <1>2 DEF GraphInv, Planned
  <2>2. Builds(Stitch, job.todo, {})
    BY <1>2, ChannelsBuild DEF GraphInv, Planned, Taking, Stitch
  <2> QED BY <2>1, <2>2
<1> QED BY <1>1, <1>2

LEMMA OrdersAreParts ==
  /\ \A s \in GivingOrders : s \in Seq(Parts)
  /\ \A p \in Profiles : StartOrder(p) \in Seq(Parts)
  /\ StartRecordHardware \in Seq(Parts)
  /\ StartRecordHardware \o StartAudioHardware \in Seq(Parts)
  /\ StartValidationEncoder \in Seq(Parts)
<1> USE DEF Part
<1>0. \A s, t \in Seq(Parts) : s \o t \in Seq(Parts) OBVIOUS
<1>1. \A s \in GivingOrders : s \in Seq(Parts) BY GivingFacts DEF Unwinds
<1>2. /\ StartRecordHardware \in Seq(Parts) /\ StartAudioHardware \in Seq(Parts)
      /\ StartValidationEncoder \in Seq(Parts)
  BY InParts DEF StartRecordHardware, StartAudioHardware, StartValidationEncoder, Single
<1>3. /\ StartAvs \in Seq(Parts) /\ AvsBinds \in Seq(Parts) /\ VideoLayer \in Seq(Parts)
      /\ \A k \in {0, 1} : Screen(k) \in Seq(Parts)
  BY InParts DEF StartAvs, AvsBinds, VideoLayer, Screen, Single, Double
<1>4. \A b \in BOOLEAN : Preview(b) \in Seq(Parts)
  <2>1. /\ <<Part("small", 0), Part("small", 1), Part("histogram", 0)>> \in Seq(Parts)
        /\ <<Part("small", 0), Part("histogram", 0)>> \in Seq(Parts)
    BY InParts DEF Double
  <2>2. Screen(0) \in Seq(Parts) /\ Screen(1) \in Seq(Parts) BY <1>3
  <2> QED BY <1>3, <2>1, <2>2 DEF Preview
<1>5. ASSUME NEW p \in Profiles, NEW k \in {0, 1} PROVE Chain(p, k) \in Seq(Parts)
  <2>1. Device(p, k) \in {0, 1} BY DEF Device
  <2>2. StartVi(Device(p, k)) \in Seq(Parts) BY <2>1, InParts DEF StartVi, Double
  <2>3. StartVpss(k) \in Seq(Parts) /\ <<Part("viBind", k)>> \in Seq(Parts)
    BY InParts DEF StartVpss, Double
  <2> QED BY <2>2, <2>3 DEF Chain
<1>6. ASSUME NEW p \in Profiles PROVE StartOrder(p) \in Seq(Parts)
  <2>1. /\ <<Part("sensor", 1), Part("sensor", 0)>> \in Seq(Parts)
        /\ <<Part("output", 0), Part("output", 1), Part("synchronize", 0)>> \in Seq(Parts)
        /\ <<Part("output", 0)>> \in Seq(Parts)
        /\ <<Part("sensor", 0), Part("sensor", 1), Part("run", 0)>> \in Seq(Parts)
        /\ <<Part("sensor", Device(p, 0))>> \in Seq(Parts)
    BY InParts DEF Double, Waits, Device
  <2>2. Chain(p, 0) \in Seq(Parts) /\ Chain(p, 1) \in Seq(Parts) BY <1>5
  <2>3. Preview(TRUE) \in Seq(Parts) /\ Preview(FALSE) \in Seq(Parts) BY <1>4
  <2>4. CASE p = "stitched"
    <3> HIDE DEF Part
    <3>1. LiveStereo \in Seq(Parts)
      BY <1>0, <1>3, <2>1, <2>2, <2>3, <2>4, Zenon DEF LiveStereo
    <3> QED BY <2>4, <3>1 DEF StartOrder
  <2>5. CASE p = "offline"
    <3>1. Offline \in Seq(Parts) BY <1>3, <2>1, <2>2, <2>5 DEF Offline
    <3> QED BY <2>5, <3>1 DEF StartOrder
  <2>6. CASE p \notin {"stitched", "offline"}
    <3> HIDE DEF Part
    <3>1. LiveSingle(p) \in Seq(Parts) BY <1>0, <2>1, <2>2, <2>3, Zenon DEF LiveSingle
    <3> QED BY <2>6, <3>1 DEF StartOrder
  <2> QED BY <2>4, <2>5, <2>6
<1> QED BY <1>1, <1>2, <1>6

LEMMA NeedsStay == UNCHANGED profile => \A p : Needs(p)' = Needs(p)
  BY DEF Needs, IndexOf, Device, Stitched

LEMMA SwitchOnInv == GraphInv /\ SwitchOn => GraphInv'
<1> SUFFICES ASSUME GraphInv, SwitchOn PROVE GraphInv' OBVIOUS
<1>1. PICK i \in Due :
        LET p == job.todo[i] IN
        /\ FirstDue(i) /\ p # Part("run", 0)
        /\ \E o \in Outcomes(p) :
             /\ on' = on \cup o.on /\ owned' = owned \cup o.owned
             /\ IF o.ok \/ p[1] = "histogram"
                THEN job' = [job EXCEPT !.at = i + 1] /\ UNCHANGED pending
                ELSE /\ Begin("undo", GivenBack(p))
                     /\ pending' = (pending /\ job.op # "validation")
  BY DEF SwitchOn
<1> DEFINE p == job.todo[i]
<1>2. PICK o \in Outcomes(p) :
        /\ on' = on \cup o.on /\ owned' = owned \cup o.owned
        /\ IF o.ok \/ p[1] = "histogram"
           THEN job' = [job EXCEPT !.at = i + 1] /\ UNCHANGED pending
           ELSE /\ Begin("undo", GivenBack(p))
                /\ pending' = (pending /\ job.op # "validation")
  BY <1>1
<1>3. /\ job.op \in Taking /\ UNCHANGED <<profile, started, recording, pair>>
      /\ job \in [op : Taking \cup Giving \cup {"none"}, todo : Seq(Parts), at : Nat]
      /\ job.todo \in Seq(Parts) /\ Len(job.todo) \in Nat /\ job.at \in 1..(Len(job.todo) + 1)
  BY DEF SwitchOn, GraphInv, GraphTypes, Reached
<1>4. /\ i \in 1..Len(job.todo) /\ job.at <= i /\ p \notin on /\ p \in Parts
      /\ \A j \in job.at..(i - 1) : job.todo[j] \in on
  <2>1. Due = {j \in job.at..Len(job.todo) : job.todo[j] \notin owned} BY <1>3 DEF Due
  <2>2. owned = on BY DEF GraphInv, Supplied
  <2> QED BY <1>1, <1>3, <2>1, <2>2 DEF FirstDue
<1>5. \A j \in 1..(i - 1) : job.todo[j] \in on \cup Dispensable
  BY <1>3, <1>4 DEF GraphInv, Reached
<1>6. Needs(p) \subseteq on
  <2>1. PICK b \in SUBSET on : Builds(b, job.todo, {}) BY <1>3, TakingFacts
  <2>2. Needs(p) \subseteq b \cup {job.todo[j] : j \in 1..(i - 1)}
    BY <1>4, <2>1 DEF Builds
  <2>3. Needs(p) \cap Dispensable = {} BY <1>4, NeedsFacts
  <2> QED BY <1>5, <2>2, <2>3
<1>7. /\ o.on = o.owned /\ o.on \subseteq {p}
      /\ p[1] \in Waits => o.on = {}
      /\ o.ok /\ p[1] \notin Waits => o.on = {p}
  <2>1. p \notin on /\ o \in Outcomes(p) BY <1>4
  <2>2. CASE p[1] \in Waits BY <2>1, <2>2 DEF Outcomes
  <2>3. CASE p[1] \notin Waits
    <3>1. \/ o = [on |-> {p}, owned |-> {p}, ok |-> TRUE]
          \/ o = [on |-> {}, owned |-> {}, ok |-> FALSE]
          \/ o = [on |-> {p}, owned |-> {p}, ok |-> FALSE]
      BY <2>1, <2>3 DEF Outcomes
    <3> QED BY <2>3, <3>1
  <2> QED BY <2>2, <2>3
<1>8. /\ p[1] \notin Waits => p \in Hardware
      /\ p[1] \in Waits \cup {"histogram"} => p \in Dispensable
  BY <1>4 DEF Parts, Hardware, Dispensable, Single, Double, Waits
<1>9. Supplied'
  <2>1. owned' = on' /\ on' \subseteq Hardware BY <1>2, <1>7, <1>8 DEF GraphInv, Supplied
  <2>2. \A q \in on' : Needs(q) \subseteq on' BY <1>2, <1>6, <1>7 DEF GraphInv, Supplied
  <2> QED BY <1>3, <2>1, <2>2, NeedsStay DEF Supplied
<1>10. pair.op \in {"none", "run"} /\ (pair.op = "run" => job.op = "start")
  BY <1>3 DEF GraphInv, GraphTypes, PairInJob, Pairs, Taking
<1>11. pair.op # "run"
  <2>1. SUFFICES ASSUME pair.op = "run" PROVE FALSE OBVIOUS
  <2>2. job.at \in 1..Len(job.todo) /\ job.todo[job.at] = Part("run", 0)
    BY <2>1 DEF GraphInv, PairInJob
  <2>3. Part("run", 0) \notin owned
    BY DEF GraphInv, Supplied, Part, Hardware, Single, Double
  <2>4. job.at \in Due BY <1>3, <2>2, <2>3 DEF Due
  <2>5. i = job.at BY <1>1, <1>3, <1>4, <2>4 DEF FirstDue
  <2> QED BY <1>1, <2>2, <2>5
<1>12. CASE o.ok \/ p[1] = "histogram"
  <2>1. job' = [job EXCEPT !.at = i + 1] /\ UNCHANGED pending BY <1>2, <1>12
  <2>2. /\ job'.op = job.op /\ job'.todo = job.todo /\ job'.at = i + 1
        /\ job' \in [op : Taking \cup Giving \cup {"none"}, todo : Seq(Parts), at : Nat]
    BY <1>3, <1>4, <2>1
  <2>3. GraphTypes' BY <1>3, <2>1, <2>2 DEF GraphInv, GraphTypes
  <2>4. Planned' BY <1>2, <1>3, <2>1, <2>2 DEF GraphInv, Planned, Taking, Giving
  <2>5. Reached'
    <3>1. p \in on' \cup Dispensable BY <1>2, <1>7, <1>8, <1>12
    <3>2. \A j \in 1..i : job.todo[j] \in on' \cup Dispensable
      BY <1>2, <1>4, <1>5, <3>1
    <3> QED BY <1>3, <1>4, <2>2, <3>2 DEF Reached, Taking, Giving
  <2>6. IdleIsEmpty' /\ PairInJob'
    BY <1>3, <1>10, <1>11, <2>2 DEF IdleIsEmpty, PairInJob, Taking
  <2> QED BY <1>9, <2>3, <2>4, <2>5, <2>6 DEF GraphInv
<1>13. CASE ~(o.ok \/ p[1] = "histogram")
  <2>1. Begin("undo", GivenBack(p)) /\ pending' = (pending /\ job.op # "validation")
    BY <1>2, <1>13
  <2>2. /\ started => GivenBack(p) \in ChannelOrders
        /\ ~started => GivenBack(p) = StopOrder
        /\ GivenBack(p) \in GivingOrders
    BY <1>3 DEF GivenBack, GivingOrders, ChannelOrders, GraphInv, Planned
  <2>3. job' = [op |-> "undo", todo |-> GivenBack(p), at |-> 1] BY <2>1 DEF Begin
  <2>4. GivenBack(p) \in Seq(Parts) BY <2>2, OrdersAreParts
  <2>5. GraphTypes' BY <1>3, <2>1, <2>3, <2>4 DEF GraphInv, GraphTypes, Giving
  <2>6. Planned' BY <1>2, <1>3, <2>1, <2>2, <2>3 DEF GraphInv, Planned, Taking, Giving
  <2>7. Reached' BY <2>3, <2>4 DEF Reached, Taking
  <2>8. IdleIsEmpty' /\ PairInJob'
    BY <1>3, <1>10, <1>11, <2>3 DEF IdleIsEmpty, PairInJob
  <2> QED BY <1>9, <2>5, <2>6, <2>7, <2>8 DEF GraphInv
<1> QED BY <1>12, <1>13

LEMMA SwitchOffInv == GraphInv /\ SwitchOff => GraphInv'
<1> SUFFICES ASSUME GraphInv, SwitchOff PROVE GraphInv' OBVIOUS
<1>1. PICK i \in Due :
        /\ FirstDue(i)
        /\ owned' = owned \ {job.todo[i]} /\ on' = on \ {job.todo[i]}
        /\ job' = [job EXCEPT !.at = i + 1]
  BY DEF SwitchOff
<1> DEFINE p == job.todo[i]
<1>2. /\ job.op \in Giving /\ UNCHANGED <<profile, started, recording, pending, pair>>
      /\ job \in [op : Taking \cup Giving \cup {"none"}, todo : Seq(Parts), at : Nat]
      /\ job.todo \in Seq(Parts) /\ Len(job.todo) \in Nat /\ job.at \in 1..(Len(job.todo) + 1)
      /\ job.todo \in GivingOrders /\ (started => job.todo \in ChannelOrders)
  BY DEF SwitchOff, GraphInv, GraphTypes, Reached, Planned, channel, GivingOrders
<1>3. /\ i \in 1..Len(job.todo) /\ job.at <= i /\ p \in on
      /\ \A j \in job.at..(i - 1) : job.todo[j] \notin on
  <2>1. job.op \notin Taking BY <1>2 DEF Taking, Giving
  <2>2. Due = {j \in job.at..Len(job.todo) : job.todo[j] \in owned} BY <2>1 DEF Due
  <2>3. owned = on BY DEF GraphInv, Supplied
  <2> QED BY <1>1, <1>2, <2>2, <2>3 DEF FirstDue
<1>4. \A j \in 1..(i - 1) : job.todo[j] \notin on
  BY <1>2, <1>3 DEF GraphInv, Reached
<1>5. PICK S \in SUBSET Hardware :
        /\ Unwinds(S, job.todo)
        /\ \A r \in S, q \in Hardware : r \in Needs(q) => q \in S
        /\ job.todo = StopOrder \/ S \cap Stitch = {}
  BY <1>2, GivingFacts
<1>13. started /\ Stitch \subseteq on => Stitch \subseteq on'
  <2>1. SUFFICES ASSUME started, Stitch \subseteq on PROVE Stitch \subseteq on' OBVIOUS
  <2>2. p \in S BY <1>3, <1>5 DEF Unwinds
  <2>3. job.todo # StopOrder BY <1>2, <2>1, StopIsNoChannel
  <2>4. p \notin Stitch BY <1>5, <2>2, <2>3
  <2> QED BY <1>1, <2>1, <2>4
<1>6. \A q \in on : p \notin Needs(q)
  <2>1. SUFFICES ASSUME NEW q \in on, p \in Needs(q) PROVE FALSE OBVIOUS
  <2>2. S = {job.todo[j] : j \in 1..Len(job.todo)} BY <1>5 DEF Unwinds
  <2>3. p \in S BY <1>3, <2>2
  <2>4. q \in S BY <1>5, <2>1, <2>3 DEF GraphInv, Supplied
  <2>5. PICK j \in 1..Len(job.todo) : q = job.todo[j] BY <2>2, <2>4
  <2>6. i <= j BY <1>2, <1>3, <1>4, <2>5
  <2>7. job.todo[i] \notin Needs(job.todo[j]) BY <1>3, <1>5, <2>6 DEF Unwinds
  <2> QED BY <2>1, <2>5, <2>7
<1>7. Supplied'
  <2>1. owned' = on' /\ on' \subseteq Hardware BY <1>1 DEF GraphInv, Supplied
  <2>2. \A q \in on' : Needs(q) \subseteq on' BY <1>1, <1>6 DEF GraphInv, Supplied
  <2> QED BY <1>2, <2>1, <2>2, NeedsStay DEF Supplied
<1>8. /\ job'.op = job.op /\ job'.todo = job.todo /\ job'.at = i + 1
      /\ job' \in [op : Taking \cup Giving \cup {"none"}, todo : Seq(Parts), at : Nat]
  BY <1>1, <1>2, <1>3
<1>9. GraphTypes' BY <1>2, <1>8 DEF GraphInv, GraphTypes
<1>10. Planned' BY <1>2, <1>8, <1>13 DEF GraphInv, Planned, Taking, Giving
<1>11. Reached'
  <2>1. \A j \in 1..i : job.todo[j] \notin on' BY <1>1, <1>3, <1>4
  <2> QED BY <1>2, <1>3, <1>8, <2>1 DEF Reached, Taking, Giving
<1>12. IdleIsEmpty' /\ PairInJob'
  BY <1>2, <1>8 DEF GraphInv, GraphTypes, IdleIsEmpty, PairInJob, Giving
<1> QED BY <1>7, <1>9, <1>10, <1>11, <1>12 DEF GraphInv

(* A step that leaves the hardware and the operation alone.                *)
LEMMA CoreStays ==
  ASSUME GraphInv, UNCHANGED <<graph, job, pair>>, {recording', pending'} \subseteq BOOLEAN,
         pending' => pending
  PROVE  GraphInv'
<1>1. /\ profile' = profile /\ started' = started /\ on' = on /\ owned' = owned
      /\ job' = job /\ pair' = pair
  BY DEF graph
<1>2. GraphTypes' BY <1>1 DEF GraphInv, GraphTypes
<1>3. Supplied' BY <1>1, NeedsStay DEF GraphInv, Supplied
<1>4. Planned' BY <1>1 DEF GraphInv, Planned
<1>5. Reached' /\ IdleIsEmpty' /\ PairInJob'
  BY <1>1 DEF GraphInv, Reached, IdleIsEmpty, PairInJob
<1> QED BY <1>2, <1>3, <1>4, <1>5 DEF GraphInv

LEMMA PairMoves ==
  ASSUME GraphInv, UNCHANGED calls, pair' \in Pairs, pair'.op = pair.op
  PROVE  GraphInv'
<1>1. /\ profile' = profile /\ started' = started /\ on' = on /\ owned' = owned
      /\ job' = job /\ recording' = recording /\ pending' = pending
  BY DEF calls, graph, channel
<1>2. GraphTypes' BY <1>1 DEF GraphInv, GraphTypes
<1>3. Supplied' BY <1>1, NeedsStay DEF GraphInv, Supplied
<1>4. Planned' BY <1>1 DEF GraphInv, Planned
<1>5. Reached' /\ IdleIsEmpty' /\ PairInJob'
  BY <1>1 DEF GraphInv, Reached, IdleIsEmpty, PairInJob
<1> QED BY <1>2, <1>3, <1>4, <1>5 DEF GraphInv

(* A step to the beginning of an operation, or to none.                    *)
LEMMA JobChanges ==
  ASSUME GraphInv, UNCHANGED <<profile, on, owned>>, UNCHANGED pair \/ pair' = NoPair,
         {started', recording', pending'} \subseteq BOOLEAN,
         NEW op \in Taking \cup Giving \cup {"none"}, NEW s \in Seq(Parts),
         job' = [op |-> op, todo |-> s, at |-> 1],
         Planned', IdleIsEmpty', PairInJob'
  PROVE  GraphInv'
<1>1. NoPair \in Pairs BY DEF NoPair, Pairs
<1>2. GraphTypes' BY <1>1 DEF GraphInv, GraphTypes
<1>3. Supplied' BY NeedsStay DEF GraphInv, Supplied
<1>4. Reached'
  <2>1. job'.at = 1 /\ job'.todo = s /\ Len(s) \in Nat OBVIOUS
  <2> QED BY <2>1 DEF Reached
<1> QED BY <1>2, <1>3, <1>4 DEF GraphInv

LEMMA FreeFacts ==
  ASSUME GraphInv, Free
  PROVE  /\ job.op = "none" /\ pair = NoPair /\ pair.op = "none"
         /\ owned # {} => started
         /\ AvsOn => started /\ Stitch \subseteq on
  BY DEF GraphInv, Free, Nothing, NoPair, IdleIsEmpty, Supplied, AvsOn, Stitch, Part

(* Only a start meets the two threads of its sensors.                      *)
LEMMA PairIdle ==
  ASSUME GraphInv, job.op # "none", Due = {} \/ job.op # "start"
  PROVE  pair.op = "none"
<1>1. pair.op \in {"none", "raw", "enqueue", "run"} BY DEF GraphInv, GraphTypes, Pairs
<1>2. pair.op \notin {"raw", "enqueue"} BY DEF GraphInv, PairInJob
<1>3. ASSUME pair.op = "run" PROVE FALSE
  <2>1. /\ job.op = "start" /\ job.at \in 1..Len(job.todo)
        /\ job.todo[job.at] = Part("run", 0)
    BY <1>3 DEF GraphInv, PairInJob
  <2>2. Part("run", 0) \notin owned
    BY DEF GraphInv, Supplied, Part, Hardware, Single, Double
  <2>3. job.at \in Due
    BY <2>1, <2>2 DEF Due, Taking, GraphInv, GraphTypes
  <2> QED BY <2>1, <2>3
<1> QED BY <1>1, <1>2, <1>3

(* When nothing is left to give back, a graph that is stopped is empty.    *)
LEMMA StoppedIsEmpty ==
  ASSUME GraphInv, job.op \in Giving, ~started, Due = {}
  PROVE  on = {}
<1>1. SUFFICES ASSUME NEW q \in on PROVE FALSE OBVIOUS
<1>2. job.todo = StopOrder BY DEF GraphInv, Planned
<1>3. Hardware = {job.todo[i] : i \in 1..Len(job.todo)}
  BY <1>2, StopUnwinds DEF Unwinds
<1>4. PICK j \in 1..Len(job.todo) : q = job.todo[j]
  BY <1>3 DEF GraphInv, Supplied
<1>5. job.at \in Nat /\ Len(job.todo) \in Nat /\ job.op \notin Taking /\ owned = on
  BY DEF GraphInv, GraphTypes, Supplied, Taking, Giving
<1>6. j \notin 1..(job.at - 1) BY <1>4 DEF GraphInv, Reached
<1>7. j \in job.at..Len(job.todo) BY <1>4, <1>5, <1>6
<1>8. j \in Due BY <1>4, <1>5, <1>7 DEF Due
<1> QED BY <1>8

LEMMA StartInv == GraphInv /\ Start => GraphInv'
<1> SUFFICES ASSUME GraphInv, Start PROVE GraphInv' OBVIOUS
<1>1. PICK p \in Profiles : profile' = p /\ Begin("start", StartOrder(p))
  BY DEF Start
<1>2. /\ ~started /\ started' = started /\ on' = on /\ owned' = {} /\ recording' = FALSE
      /\ pending' = FALSE /\ pair' = pair /\ Free
  BY DEF Start
<1>3. on = {} /\ pair.op = "none" BY <1>2, FreeFacts DEF GraphInv, IdleIsEmpty
<1>4. job' = [op |-> "start", todo |-> StartOrder(p), at |-> 1] BY <1>1 DEF Begin
<1>5. StartOrder(p) \in Seq(Parts) BY OrdersAreParts
<1>6. GraphTypes'
  <2>1. started \in BOOLEAN /\ pair \in Pairs BY DEF GraphInv, GraphTypes
  <2>2. job' \in [op : Taking \cup Giving \cup {"none"}, todo : Seq(Parts), at : Nat]
    BY <1>4, <1>5 DEF Taking
  <2> QED BY <1>1, <1>2, <2>1, <2>2 DEF GraphTypes
<1>7. Supplied' BY <1>2, <1>3 DEF Supplied
<1>8. Planned' BY <1>1, <1>2, <1>4 DEF Planned, Taking, Giving
<1>9. Reached' /\ IdleIsEmpty' /\ PairInJob'
  BY <1>2, <1>3, <1>4, <1>5 DEF Reached, IdleIsEmpty, PairInJob
<1> QED BY <1>6, <1>7, <1>8, <1>9 DEF GraphInv

LEMMA StopInv == GraphInv /\ Stop => GraphInv'
<1> SUFFICES ASSUME GraphInv, Stop PROVE GraphInv' OBVIOUS
<1>1. /\ UNCHANGED <<profile, on, owned, pair>> /\ Free
      /\ started' = FALSE /\ recording' = FALSE /\ pending' = FALSE
      /\ job' = [op |-> "stop", todo |-> StopOrder, at |-> 1]
  BY DEF Stop, Begin
<1>2. StopOrder \in Seq(Parts) BY OrdersAreParts DEF GivingOrders
<1>3. pair.op = "none" BY <1>1, FreeFacts
<1>4. Planned' BY <1>1 DEF Planned, Taking, Giving
<1>5. IdleIsEmpty' /\ PairInJob' BY <1>1, <1>3 DEF IdleIsEmpty, PairInJob
<1> QED BY <1>1, <1>2, <1>4, <1>5, JobChanges DEF GraphInv, GraphTypes, Giving

(* An operation of a running graph begins.                                 *)
LEMMA TakingBegins ==
  ASSUME GraphInv, Free, AvsOn \/ pending, NEW op \in Taking \ {"start"}, NEW s,
         \/ op = "activate" /\ s = StartRecordHardware
         \/ op = "record" /\ s = StartRecordHardware \o StartAudioHardware
         \/ op = "validation" /\ s = StartValidationEncoder
         \/ op = "photo" /\ s = <<Jpeg>>,
         Begin(op, s), UNCHANGED <<graph, channel, pair>>
  PROVE  GraphInv'
<1>1. started /\ Stitch \subseteq on BY FreeFacts DEF GraphInv, Planned
<1>2. s \in Seq(Parts) BY OrdersAreParts DEF GivingOrders, ChannelOrders
<1>3. job' = [op |-> op, todo |-> s, at |-> 1] BY DEF Begin
<1>4. UNCHANGED <<profile, started, on, owned, recording, pending>> BY DEF graph, channel
<1>5. Planned' BY <1>1, <1>3, <1>4 DEF GraphInv, Planned, Taking, Giving
<1>6. IdleIsEmpty' /\ PairInJob'
  BY <1>1, <1>3, <1>4, FreeFacts DEF IdleIsEmpty, PairInJob, Taking
<1> QED BY <1>2, <1>3, <1>4, <1>5, <1>6, JobChanges DEF GraphInv, GraphTypes

LEMMA GivingBegins ==
  ASSUME GraphInv, started, pair.op = "none", UNCHANGED pair,
         NEW op \in {"undo", "validate"}, NEW s \in ChannelOrders,
         op = "validate" => AvsOn,
         Begin(op, s), UNCHANGED <<graph, recording>>, pending' \in BOOLEAN,
         pending' => pending
  PROVE  GraphInv'
<1>2. s \in Seq(Parts) BY OrdersAreParts DEF GivingOrders
<1>3. job' = [op |-> op, todo |-> s, at |-> 1] BY DEF Begin
<1>4. UNCHANGED <<profile, started, on, owned>> BY DEF graph
<1>5. AvsOn => Stitch \subseteq on BY DEF AvsOn, Stitch, Part, GraphInv, Supplied
<1>6. Planned' BY <1>3, <1>4, <1>5 DEF GraphInv, Planned, Taking, Giving
<1>7. IdleIsEmpty' /\ PairInJob' BY <1>3, <1>4 DEF IdleIsEmpty, PairInJob
<1> QED BY <1>2, <1>3, <1>4, <1>6, <1>7, JobChanges DEF GraphInv, GraphTypes, Giving

(* An operation ends.                                                      *)
LEMMA DoneInv ==
  ASSUME GraphInv, Due = {}, job.op # "none", Done, UNCHANGED <<profile, on, owned, pair>>,
         recording' \in BOOLEAN, pending' \in BOOLEAN,
         pending' => pending \/ job.op = "validate",
         started' = (started \/ job.op = "start")
  PROVE  GraphInv'
<1>1. job' = [op |-> "none", todo |-> <<>>, at |-> 1] /\ job' = Nothing
  BY DEF Done, Nothing
<1>2. pair.op = "none" BY PairIdle
<1>3. Planned' BY <1>1 DEF GraphInv, Planned, Taking, Giving
<1>4. ~started' => on' = {}
  <2>1. job.op \in Taking \ {"start"} => started BY DEF GraphInv, Planned
  <2>2. job.op \in Taking \cup Giving BY DEF GraphInv, GraphTypes
  <2> QED BY <2>1, <2>2, StoppedIsEmpty
<1>5. {started', recording', pending'} \subseteq BOOLEAN BY DEF GraphInv, GraphTypes
<1>6. IdleIsEmpty' /\ PairInJob' BY <1>1, <1>2, <1>4 DEF IdleIsEmpty, PairInJob
<1>7. <<>> \in Seq(Parts) OBVIOUS
<1> QED BY <1>1, <1>3, <1>5, <1>6, <1>7, JobChanges

LEMMA RecordStartedInv == GraphInv /\ RecordStarted => GraphInv'
<1> SUFFICES ASSUME GraphInv, RecordStarted PROVE GraphInv' OBVIOUS
<1>1. /\ Due = {} /\ job.op = "record" /\ UNCHANGED <<graph, pending, pair>>
      /\ UNCHANGED <<profile, started, on, owned>> /\ pending \in BOOLEAN
      /\ pair.op = "none" /\ recording \in BOOLEAN
  BY PairIdle DEF RecordStarted, Return, graph, GraphInv, GraphTypes
<1>2. started BY <1>1 DEF GraphInv, Planned, Taking
<1>3. CASE Done /\ recording' \in BOOLEAN BY <1>1, <1>2, <1>3, DoneInv
<1>4. CASE Begin("undo", StopRecordHardware) /\ UNCHANGED recording
  BY <1>1, <1>2, <1>4, GivingBegins DEF ChannelOrders
<1> QED BY <1>3, <1>4 DEF RecordStarted

(* A photo's stacked frame is none of the parts of an operation.           *)
LEMMA StackStays ==
  ASSUME GraphInv, job.op = "none" \/ job.op = "photo", started,
         NEW used \in {{}, {Stack}},
         \/ owned' = owned \ used /\ on' = on \ used
         \/ owned' = owned \cup used /\ on' = on \cup used,
         UNCHANGED <<profile, started, channel>>,
         pair' \in Pairs, pair'.op = "none",
         \/ job' = job \/ job' = Nothing
         \/ job' = [op |-> "undo", todo |-> <<Jpeg>>, at |-> 1]
  PROVE  GraphInv'
<1>1. Stack \in Hardware /\ Stack = <<"stack", 0>> /\ Stack \notin Stitch /\ Stack \notin Dispensable
      /\ Stack # Jpeg
  BY DEF Stack, Part, Hardware, Single, Stitch, Dispensable, Waits, Jpeg
<1>2. Needs(Stack) = {} BY <1>1, NeedsTable
<1>3. \A q \in Hardware : Stack \notin Needs(q)
  BY <1>1 DEF Needs, WorksOn, IndexOf, Device, Part
<1>4. /\ <<Jpeg>> \in Seq(Parts) /\ Nothing \in [op : Taking \cup Giving \cup {"none"}, todo : Seq(Parts), at : Nat]
      /\ <<>> \in Seq(Parts)
  BY OrdersAreParts DEF GivingOrders, ChannelOrders, Nothing
<1>5. GraphTypes'
  <2>1. job' \in [op : Taking \cup Giving \cup {"none"}, todo : Seq(Parts), at : Nat]
    <3>1. job \in [op : Taking \cup Giving \cup {"none"}, todo : Seq(Parts), at : Nat]
      BY DEF GraphInv, GraphTypes
    <3>2. [op |-> "undo", todo |-> <<Jpeg>>, at |-> 1]
            \in [op : Taking \cup Giving \cup {"none"}, todo : Seq(Parts), at : Nat]
      BY <1>4 DEF Giving
    <3> QED BY <1>4, <3>1, <3>2
  <2>2. {started, recording, pending} \subseteq BOOLEAN BY DEF GraphInv, GraphTypes
  <2> QED BY <2>1, <2>2 DEF GraphInv, GraphTypes, channel
<1>6. Supplied'
  <2>1. owned' = on' /\ on' \subseteq Hardware BY <1>1 DEF GraphInv, Supplied
  <2>2. \A q \in on' : Needs(q) \subseteq on' BY <1>1, <1>2, <1>3 DEF GraphInv, Supplied
  <2> QED BY <2>1, <2>2, NeedsStay DEF Supplied
<1>7. Stitch \subseteq on => Stitch \subseteq on' BY <1>1
<1>8. Planned' BY <1>7 DEF GraphInv, Planned, Taking, Giving, Nothing, ChannelOrders, channel
<1>9. Reached'
  <2>1. CASE job' = job
    <3>1. job.op = "photo" => job.todo = <<Jpeg>> BY DEF GraphInv, Planned
    <3>2. job.op = "none" => job.op \notin Taking \cup Giving BY DEF Taking, Giving
    <3>3. ASSUME job.op = "photo", NEW i \in 1..(job.at - 1)
          PROVE  job.todo[i] \in on' \cup Dispensable
      <4>0. Len(<<Jpeg>>) = 1 OBVIOUS
      <4>1. Len(job.todo) = 1 /\ job.at \in 1..(Len(job.todo) + 1)
        BY <3>1, <3>3, <4>0 DEF GraphInv, Reached
      <4>2. job.todo[i] = Jpeg BY <3>1, <3>3, <4>1
      <4>3. job.todo[i] \in on \cup Dispensable BY <3>3 DEF GraphInv, Reached, Taking
      <4> QED BY <1>1, <4>2, <4>3
    <3> QED BY <2>1, <3>2, <3>3 DEF GraphInv, Reached, Giving
  <2>2. CASE job' = Nothing BY <2>2 DEF Reached, Nothing, Taking, Giving
  <2>3. CASE job' = [op |-> "undo", todo |-> <<Jpeg>>, at |-> 1]
    BY <2>3 DEF Reached, Taking
  <2> QED BY <2>1, <2>2, <2>3
<1>10. IdleIsEmpty' /\ PairInJob' BY DEF IdleIsEmpty, PairInJob
<1> QED BY <1>5, <1>6, <1>8, <1>9, <1>10 DEF GraphInv

LEMMA PhotoTakenInv == GraphInv /\ PhotoTaken => GraphInv'
<1> SUFFICES ASSUME GraphInv, PhotoTaken PROVE GraphInv' OBVIOUS
<1>1. /\ Due = {} /\ job.op = "photo" /\ UNCHANGED <<profile, started, channel, pair>>
      /\ pair.op = "none" /\ pair \in Pairs
  BY PairIdle DEF PhotoTaken, Return, GraphInv, GraphTypes
<1>2. started BY <1>1 DEF GraphInv, Planned, Taking
<1>3. PICK used \in {{}, {Stack}} :
        /\ owned' = owned \ used /\ on' = on \ used
        /\ \/ job' = Nothing
           \/ job' = [op |-> "undo", todo |-> <<Jpeg>>, at |-> 1]
  BY DEF PhotoTaken, Done, Begin
<1> QED BY <1>1, <1>2, <1>3, StackStays

LEMMA StackSnapshotInv == GraphInv /\ StackSnapshot => GraphInv'
<1> SUFFICES ASSUME GraphInv, StackSnapshot PROVE GraphInv' OBVIOUS
<1>1. /\ Free /\ AvsOn /\ UNCHANGED <<profile, started, channel, job, pair>>
  BY DEF StackSnapshot, Serving
<1>2. started /\ job.op = "none" /\ pair.op = "none" /\ pair \in Pairs
  BY <1>1, FreeFacts DEF GraphInv, GraphTypes
<1>3. PICK worked \in BOOLEAN : StackFrames(worked) BY DEF StackSnapshot
<1>4. {Stack} \in {{}, {Stack}} OBVIOUS
<1> QED BY <1>1, <1>2, <1>3, <1>4, StackStays DEF StackFrames

LEMMA JoinPairInv == GraphInv /\ JoinPair => GraphInv'
<1> SUFFICES ASSUME GraphInv, JoinPair PROVE GraphInv' OBVIOUS
<1>1. /\ pair.op # "none" /\ pair' = NoPair /\ UNCHANGED <<profile, started, channel>>
      /\ pair'.op = "none" /\ pair' \in Pairs /\ pair.op \in {"raw", "enqueue", "run"}
  BY DEF JoinPair, Paired, NoPair, Pairs, GraphInv, GraphTypes
<1>2. CASE pair.op = "run"
  <2>1. /\ job.op = "start" /\ job.at \in 1..Len(job.todo) /\ job.todo[job.at] = Part("run", 0)
        /\ ~started /\ UNCHANGED <<on, owned>>
    BY <1>2 DEF GraphInv, PairInJob, Planned, JoinPair
  <2>2. CASE job' = [job EXCEPT !.at = @ + 1]
    <3>1. /\ job'.op = job.op /\ job'.todo = job.todo /\ job'.at = job.at + 1
          /\ job' \in [op : Taking \cup Giving \cup {"none"}, todo : Seq(Parts), at : Nat]
          /\ job.at \in Nat /\ Len(job.todo) \in Nat
      BY <2>2 DEF GraphInv, GraphTypes
    <3>2. GraphTypes' BY <1>1, <3>1 DEF GraphInv, GraphTypes, channel
    <3>3. Supplied' BY <1>1, <2>1, NeedsStay DEF GraphInv, Supplied
    <3>4. Planned' BY <1>1, <2>1, <3>1 DEF GraphInv, Planned, Taking, Giving, channel
    <3>5. Part("run", 0) \in Dispensable BY DEF Part, Dispensable, Waits
    <3>6. \A i \in 1..job.at : job.todo[i] \in on \cup Dispensable
      BY <2>1, <3>1, <3>5 DEF GraphInv, Reached, Taking
    <3>7. Reached' BY <2>1, <3>1, <3>6 DEF Reached, Giving
    <3>8. IdleIsEmpty' /\ PairInJob' BY <1>1, <2>1, <3>1 DEF IdleIsEmpty, PairInJob
    <3> QED BY <3>2, <3>3, <3>4, <3>7, <3>8 DEF GraphInv
  <2>3. CASE Begin("undo", StopOrder)
    <3>1. job' = [op |-> "undo", todo |-> StopOrder, at |-> 1] BY <2>3 DEF Begin
    <3>2. StopOrder \in Seq(Parts) BY OrdersAreParts DEF GivingOrders
    <3>3. Planned' BY <1>1, <2>1, <3>1 DEF GraphInv, Planned, Taking, Giving, channel
    <3>4. IdleIsEmpty' /\ PairInJob' BY <1>1, <3>1 DEF IdleIsEmpty, PairInJob
    <3> QED BY <1>1, <2>1, <3>1, <3>2, <3>3, <3>4, JobChanges DEF GraphInv, GraphTypes, channel, Giving
  <2> QED BY <1>2, <2>2, <2>3 DEF JoinPair
<1>3. CASE pair.op \in {"raw", "enqueue"}
  <2>1. job.op = "none" /\ started BY <1>3 DEF GraphInv, PairInJob
  <2>2. PICK used \in {{}, {Stack}} :
          /\ \/ owned' = owned \ used /\ on' = on \ used
             \/ owned' = owned \cup used /\ on' = on \cup used
          /\ job' = job
    <3>1. {} \in {{}, {Stack}} /\ {Stack} \in {{}, {Stack}}
          /\ owned \ {} = owned /\ on \ {} = on
      OBVIOUS
    <3>2. \/ job' = job /\ owned' = owned /\ on' = on
          \/ job' = job /\ owned' = owned \cup {Stack} /\ on' = on \cup {Stack}
          \/ job' = job /\ owned' = owned \ {Stack} /\ on' = on \ {Stack}
      BY <1>3 DEF JoinPair, StackFrames
    <3> QED BY <3>1, <3>2
  <2> QED BY <1>1, <2>1, <2>2, StackStays
<1> QED BY <1>1, <1>2, <1>3

LEMMA PairStepsInv == GraphInv /\ (CreateThread \/ Release \/ \E t \in 1..2 : Thread(t)) => GraphInv'
<1> SUFFICES ASSUME GraphInv, CreateThread \/ Release \/ \E t \in 1..2 : Thread(t)
             PROVE  GraphInv'
  OBVIOUS
<1>1. pair \in Pairs BY DEF GraphInv, GraphTypes
<1>2. UNCHANGED calls BY DEF CreateThread, Release, Thread
<1>3. CASE CreateThread
  <2>1. pair.created \in {0, 1} BY <1>1, <1>3 DEF CreateThread, Pairs
  <2>2. CASE pair' = [pair EXCEPT !.created = @ + 1, !.at[pair.created + 1] = "new"]
    <3> DEFINE at == [pair.at EXCEPT ![pair.created + 1] = "new"]
    <3>1. at \in [1..2 -> {"none", "new", "waiting", "call", "done"}] BY <1>1 DEF Pairs
    <3>2. pair' = [pair EXCEPT !.created = pair.created + 1, !.at = at] BY <2>2
    <3> HIDE DEF at
    <3> DEFINE q == [pair EXCEPT !.created = pair.created + 1]
    <3>3. q \in Pairs /\ q.op = pair.op BY <1>1, <2>1 DEF Pairs
    <3>4. pair' = [q EXCEPT !.at = at] BY <3>2
    <3> HIDE DEF q
    <3>5. pair' \in Pairs /\ pair'.op = pair.op BY <3>1, <3>3, <3>4 DEF Pairs
    <3> QED BY <1>2, <3>5, PairMoves
  <2>3. CASE pair' = [pair EXCEPT !.broken = TRUE]
    <3>1. pair' \in Pairs /\ pair'.op = pair.op BY <1>1, <2>3 DEF Pairs
    <3> QED BY <1>2, <3>1, PairMoves
  <2> QED BY <1>3, <2>2, <2>3 DEF CreateThread
<1>4. CASE Release
  <2>1. pair' \in Pairs /\ pair'.op = pair.op BY <1>1, <1>4 DEF Release, Pairs
  <2> QED BY <1>2, <2>1, PairMoves
<1>5. ASSUME NEW t \in 1..2, Thread(t) PROVE GraphInv'
  <2> DEFINE At(x) == [pair.at EXCEPT ![t] = x]
  <2>1. \A x \in {"waiting", "call", "done"} :
           At(x) \in [1..2 -> {"none", "new", "waiting", "call", "done"}]
    BY <1>1 DEF Pairs
  <2>2. \/ pair' = [pair EXCEPT !.at = At("waiting"), !.ready = pair.ready + 1]
        \/ pair' = [pair EXCEPT !.at = At("call")]
        \/ \E ok \in BOOLEAN : pair' = [pair EXCEPT !.at = At("done"), !.good = pair.good /\ ok]
    BY <1>5 DEF Thread
  <2> HIDE DEF At
  <2>3. pair' \in Pairs /\ pair'.op = pair.op
    <3>1. CASE pair' = [pair EXCEPT !.at = At("waiting"), !.ready = pair.ready + 1]
      <4> DEFINE q == [pair EXCEPT !.at = At("waiting")]
      <4>1. q \in Pairs /\ q.op = pair.op /\ q.ready = pair.ready BY <1>1, <2>1 DEF Pairs
      <4>2. pair' = [q EXCEPT !.ready = q.ready + 1] BY <3>1, <4>1
      <4> HIDE DEF q
      <4> QED BY <4>1, <4>2 DEF Pairs
    <3>2. CASE pair' = [pair EXCEPT !.at = At("call")] BY <1>1, <2>1, <3>2 DEF Pairs
    <3>3. ASSUME NEW ok \in BOOLEAN, pair' = [pair EXCEPT !.at = At("done"), !.good = pair.good /\ ok]
          PROVE  pair' \in Pairs /\ pair'.op = pair.op
      BY <1>1, <2>1, <3>3 DEF Pairs
    <3> QED BY <2>2, <3>1, <3>2, <3>3
  <2> QED BY <1>2, <2>3, PairMoves
<1> QED BY <1>3, <1>4, <1>5

LEMMA PairBeginsInv ==
  GraphInv /\ (CaptureRaw \/ OfflineEnqueue \/ StartOfflineSensors) => GraphInv'
<1> SUFFICES ASSUME GraphInv, CaptureRaw \/ OfflineEnqueue \/ StartOfflineSensors
             PROVE  GraphInv'
  OBVIOUS
<1>1. /\ UNCHANGED <<profile, started, on, owned, job, recording, pending>>
      /\ UNCHANGED graph
  BY DEF CaptureRaw, OfflineEnqueue, StartOfflineSensors, calls, graph, channel
<1>2. pair' \in Pairs
  <2>1. NoPair \in Pairs BY DEF NoPair, Pairs
  <2>2. \A op \in {"raw", "enqueue", "run"} : [NoPair EXCEPT !.op = op] \in Pairs
    BY <2>1 DEF Pairs
  <2> QED BY <2>2 DEF CaptureRaw, OfflineEnqueue, StartOfflineSensors
<1>3. PairInJob'
  <2>1. CASE CaptureRaw \/ OfflineEnqueue
    <3>1. job.op = "none" /\ started /\ pair'.op \in {"raw", "enqueue"}
      BY <2>1, FreeFacts DEF CaptureRaw, OfflineEnqueue, Serving, NoPair
    <3> QED BY <1>1, <3>1 DEF PairInJob
  <2>2. CASE StartOfflineSensors
    <3>1. /\ pair'.op = "run" /\ job.op = "start" /\ job.at \in Due
          /\ job.todo[job.at] = Part("run", 0)
      BY <2>2 DEF StartOfflineSensors, NoPair
    <3>2. job.at \in 1..Len(job.todo)
      BY <3>1 DEF Due, GraphInv, GraphTypes, Reached
    <3> QED BY <1>1, <3>1, <3>2 DEF PairInJob
  <2> QED BY <2>1, <2>2
<1>4. GraphTypes' BY <1>1, <1>2 DEF GraphInv, GraphTypes
<1>5. Supplied' BY <1>1, NeedsStay DEF GraphInv, Supplied
<1>6. Planned' BY <1>1 DEF GraphInv, Planned
<1>7. Reached' /\ IdleIsEmpty' BY <1>1 DEF GraphInv, Reached, IdleIsEmpty
<1> QED BY <1>3, <1>4, <1>5, <1>6, <1>7 DEF GraphInv

LEMMA GraphInvInit == GraphInit => GraphInv
<1> SUFFICES ASSUME GraphInit PROVE GraphInv OBVIOUS
<1> USE DEF GraphInit
<1>1. GraphTypes
  <2>1. NoPair \in Pairs BY DEF NoPair, Pairs
  <2>2. Nothing \in [op : Taking \cup Giving \cup {"none"}, todo : Seq(Parts), at : Nat]
    BY DEF Nothing
  <2> QED BY <2>1, <2>2 DEF GraphTypes
<1>2. Supplied /\ IdleIsEmpty BY DEF Supplied, IdleIsEmpty
<1>3. Planned /\ Reached BY DEF Planned, Reached, Nothing, Taking, Giving
<1>4. PairInJob BY DEF PairInJob, NoPair
<1> QED BY <1>1, <1>2, <1>3, <1>4 DEF GraphInv

LEMMA GraphInvNext == GraphInv /\ [GraphNext]_system => GraphInv'
<1> SUFFICES ASSUME GraphInv, [GraphNext]_system PROVE GraphInv' OBVIOUS
<1>0. {started, recording, pending} \subseteq BOOLEAN BY DEF GraphInv, GraphTypes
<1>1. CASE SwitchOn BY <1>1, SwitchOnInv
<1>2. CASE SwitchOff BY <1>2, SwitchOffInv
<1>3. CASE Undone
  <2>1. /\ Due = {} /\ job.op = "undo" /\ Done /\ UNCHANGED <<graph, channel, pair>>
    BY <1>3 DEF Undone, Return
  <2> QED BY <1>0, <2>1, DoneInv DEF graph, channel
<1>4. CASE StartReturns
  <2>1. /\ Due = {} /\ job.op = "start" /\ Done /\ started' = TRUE
        /\ UNCHANGED <<profile, on, owned, channel, pair>>
    BY <1>4 DEF StartReturns, Return
  <2> QED BY <1>0, <2>1, DoneInv DEF channel
<1>5. CASE Stopped
  <2>1. /\ Due = {} /\ job.op = "stop" /\ Done /\ UNCHANGED <<graph, channel, pair>>
    BY <1>5 DEF Stopped
  <2> QED BY <1>0, <2>1, DoneInv DEF graph, channel
<1>6. CASE EncoderActive \/ ValidationStarted
  <2>1. /\ Due = {} /\ job.op \in {"activate", "validation"} /\ Done
        /\ UNCHANGED <<graph, channel, pair>>
    BY <1>6 DEF EncoderActive, ValidationStarted, Return
  <2> QED BY <1>0, <2>1, DoneInv DEF graph, channel
<1>7. CASE RecordStarted BY <1>7, RecordStartedInv
<1>8. CASE ValidationPending
  <2>1. /\ Due = {} /\ job.op = "validate" /\ Done /\ pending' = TRUE
        /\ UNCHANGED <<graph, recording, pair>>
    BY <1>8 DEF ValidationPending, Return
  <2> QED BY <1>0, <2>1, DoneInv DEF graph
<1>9. CASE PhotoTaken BY <1>9, PhotoTakenInv
<1>10. CASE Start BY <1>10, StartInv
<1>11. CASE Stop BY <1>11, StopInv
<1>12. CASE ActivateEncoder
  BY <1>12, TakingBegins DEF ActivateEncoder, Serving, MayActivate, Taking
<1>13. CASE RecordStart
  BY <1>13, TakingBegins DEF RecordStart, Serving, MayActivate, Taking
<1>14. CASE Photo
  BY <1>14, TakingBegins DEF Photo, Taking
<1>15. CASE ValidateEncoder
  <2>1. /\ started /\ pair.op = "none" /\ AvsOn /\ UNCHANGED <<graph, channel, pair>>
        /\ Begin("validate", StopRecordHardware \o StopValidationEncoder)
    BY <1>15, FreeFacts DEF ValidateEncoder, Serving
  <2> QED BY <1>0, <2>1, GivingBegins DEF ChannelOrders, channel
<1>16. CASE DrainRecordStream
  <2>1. /\ started /\ pair.op = "none" /\ UNCHANGED <<graph, channel, pair>>
        /\ Begin("undo", StopRecordHardware)
    BY <1>16, FreeFacts DEF DrainRecordStream
  <2> QED BY <1>0, <2>1, GivingBegins DEF ChannelOrders, channel
<1>17. CASE TickValidation
  <2>1. Free /\ pending /\ UNCHANGED <<graph, recording, pair>>
    BY <1>17 DEF TickValidation
  <2>2. CASE Begin("validation", StartValidationEncoder) /\ UNCHANGED pending
    BY <2>1, <2>2, TakingBegins DEF Taking, channel
  <2>3. CASE Begin("undo", StopValidationEncoder) /\ pending' = FALSE
    <3>1. started /\ pair.op = "none" BY <2>1, FreeFacts DEF GraphInv, Planned
    <3> QED BY <1>0, <2>1, <2>3, <3>1, GivingBegins DEF ChannelOrders
  <2> QED BY <1>17, <2>2, <2>3 DEF TickValidation
<1>18. CASE RecordStop \/ TickRecording
  <2>1. /\ UNCHANGED <<graph, job, pair, pending>> /\ recording' \in BOOLEAN
    BY <1>0, <1>18 DEF RecordStop, TickRecording, calls, channel
  <2> QED BY <1>0, <2>1, CoreStays
<1>19. CASE StackSnapshot BY <1>19, StackSnapshotInv
<1>20. CASE CaptureRaw \/ OfflineEnqueue \/ StartOfflineSensors BY <1>20, PairBeginsInv
<1>21. CASE JoinPair BY <1>21, JoinPairInv
<1>22. CASE CreateThread \/ Release \/ \E t \in 1..2 : Thread(t) BY <1>22, PairStepsInv
<1>23. CASE Watching \/ Passing \/ Deadline \/ EndWatchdog \/ UNCHANGED system
  <2>1. UNCHANGED <<graph, job, pair, recording, pending>>
    BY <1>23 DEF Watching, Passing, Deadline, EndWatchdog, system, calls, channel
  <2> QED BY <1>0, <2>1, CoreStays
<1> QED
  BY <1>1, <1>2, <1>3, <1>4, <1>5, <1>6, <1>7, <1>8, <1>9, <1>10, <1>11, <1>12,
     <1>13, <1>14, <1>15, <1>16, <1>17, <1>18, <1>19, <1>20, <1>21, <1>22, <1>23
  DEF GraphNext, Calls, Handlers, Ticks, PairSteps

-----------------------------------------------------------------------------
(* The graph under its watchdog.                                           *)

(* Every step of the graph is one of the watchdog and its main thread, or   *)
(* none of them sees it: the graph implements GraphWatchdog.               *)
LEMMA GraphStepIsWatchdogStep == [GraphNext]_system => [Next]_vars
<1> SUFFICES ASSUME [GraphNext]_system PROVE [Next]_vars OBVIOUS
<1>1. CASE Calls
  <2>1. CASE Stopped BY <2>1 DEF Stopped, Next
  <2>2. CASE ~Stopped
    BY <1>1, <2>2 DEF Calls, SwitchOn, SwitchOff, Undone, StartReturns, EncoderActive,
       RecordStarted, ValidationPending, ValidationStarted, PhotoTaken, watchdog, vars
  <2> QED BY <2>1, <2>2
<1>2. CASE Handlers
  <2>1. CASE Stop BY <2>1 DEF Stop, Next
  <2>2. CASE ~Stop
    BY <1>2, <2>2 DEF Handlers, Start, ActivateEncoder, RecordStart, RecordStop,
       ValidateEncoder, Photo, StackSnapshot, CaptureRaw, OfflineEnqueue,
       watchdog, vars
  <2> QED BY <2>1, <2>2
<1>3. CASE Ticks \/ StartOfflineSensors
  BY <1>3 DEF Ticks, TickRecording, DrainRecordStream, TickValidation,
     StartOfflineSensors, watchdog, vars
<1>4. CASE PairSteps
  BY <1>4 DEF PairSteps, CreateThread, Release, JoinPair, Thread, watchdog, vars
<1>5. CASE Watching \/ Passing \/ Deadline \/ EndWatchdog
  BY <1>5 DEF Watching, Passing, Deadline, EndWatchdog, Next
<1>6. CASE UNCHANGED system BY <1>6 DEF system, watchdog, vars
<1> QED BY <1>1, <1>2, <1>3, <1>4, <1>5, <1>6 DEF GraphNext

(* The camera graph implements the main thread that GraphWatchdog watches:  *)
(* whatever it calls, it keeps to the order of deadline, stop and clear     *)
(* (target_graph_stop around ngcd_rk_graph_stop).                           *)
THEOREM GraphKeepsDeadlines == GraphSpec => Init /\ [][Next]_vars
<1>1. GraphInit => Init BY DEF GraphInit
<1> QED BY <1>1, GraphStepIsWatchdogStep, PTL DEF GraphSpec

(* The watchdog over the real graph ends the daemon only in a stop that has *)
(* taken the whole limit, unless that stop ended between its two looks.     *)
THEOREM GraphAlarmIsDue == GraphSpec => []AlarmIsDue
<1>1. GraphInit => Init BY DEF GraphInit
<1>2. Inv => AlarmIsDue BY DEF Inv
<1> QED BY <1>1, <1>2, InvInit, InvNext, GraphStepIsWatchdogStep, PTL DEF GraphSpec

(* The types, for every set of profiles.                                   *)
THEOREM GraphTypeOKHolds == GraphSpec => []GraphTypeOK
<1>1. GraphInit => Init BY DEF GraphInit
<1>2. Inv /\ GraphInv => GraphTypeOK
  <2>1. Hardware \subseteq Parts BY DEF Parts
  <2> QED BY <2>1 DEF Inv, GraphInv, GraphTypes, Supplied, GraphTypeOK
<1> QED
  BY <1>1, <1>2, InvInit, InvNext, GraphInvInit, GraphInvNext, GraphStepIsWatchdogStep, PTL
  DEF GraphSpec

(* What Rockit holds is what the graph will give back, through every failed *)
(* call; a graph that is not started holds nothing; and no part that is on  *)
(* misses one that it works on.                                            *)
THEOREM NothingForgottenHolds == GraphSpec => []NothingForgotten
<1>1. GraphInv => NothingForgotten
  BY DEF GraphInv, Supplied, IdleIsEmpty, NothingForgotten, Free, Nothing
<1> QED BY <1>1, GraphInvInit, GraphInvNext, PTL DEF GraphSpec
=============================================================================
