--------------------------- MODULE InstallerProofs ---------------------------
(***************************************************************************)
(* Theorems of Installer: what is on the camera after any interruption; and *)
(* of Session, the pair it installs.                                       *)
(***************************************************************************)
EXTENDS Installer, Session, TLAPS

Preserved == \A x \in Sides \cup Policies : kept[x]
IsStock == /\ \A s \in Sides : entry[s] = "stock"
           /\ \A x \in Policies : policy[x] = "stock"
IsNew == /\ \A s \in Sides : entry[s] = "selector"
         /\ \A p \in Programs : prog[p] = "new"
         /\ \A x \in Policies : policy[x] = "calf"

(* What a list has done is what is no longer in todo.                      *)
Keeping ==
  step = "keep" => \A x \in (Sides \cup Policies) \ todo : kept[x]
Kept ==
  step \in (Before \ {"keep"}) \cup Transaction \cup Rollback => Preserved
Publishing ==
  /\ step = "policies" => \A x \in Policies \ todo : policy[x] = "calf"
  /\ step = "publish" =>
       /\ \A x \in Policies : policy[x] = "calf"
       /\ \A p \in Programs \ todo : prog[p] = "new"
       /\ \A s \in Sides \ todo : entry[s] = "selector"
  /\ step \in {"resume", "unnote", "observe", "installed"} => IsNew
Restoring ==
  /\ step \in {"restore", "urestore"} =>
       /\ \A s \in Sides \ todo : entry[s] = "stock"
       /\ \A x \in Policies \ todo : policy[x] = "stock"
  /\ step \in {"rresume", "uresume", "restored", "remove", "removed"} => IsStock

Rest == /\ Keeping /\ Kept /\ Publishing /\ Restoring
        /\ StockIsRecoverable /\ SelectorIsComplete
Inv == TypeOK /\ Rest

(* Every list names the programs before the selectors.                     *)
LEMMA ProgramsFirst ==
  ASSUME NEW s \in Sides, First(s), todo \subseteq Items
  PROVE  todo \cap Programs = {}
<1>1. \A p \in Programs : Rank[p] \in {1, 2, 3}
  BY DEF Rank, Programs, Items
<1>2. Rank[s] \in {4, 5}
  BY DEF Rank, Sides, Items
<1> QED BY <1>1, <1>2 DEF First

-----------------------------------------------------------------------------
LEMMA TypeInit == Init => TypeOK
<1>1. 0 \in 0..Attempts /\ 0 \in 0..3 BY InstallerAssumption
<1> SUFFICES ASSUME Init PROVE TypeOK
  OBVIOUS
<1>2. /\ entry \in [Sides -> {"stock", "selector"}]
      /\ kept \in [Sides \cup Policies -> BOOLEAN]
      /\ prog \in [Programs -> {"none", "old", "new"}]
      /\ policy \in [Policies -> {"stock", "calf"}]
  BY DEF Init
<1> QED BY <1>1, <1>2 DEF Init, TypeOK, Ends

LEMMA TypeNext == TypeOK /\ [Next]_vars => TypeOK'
<1> SUFFICES ASSUME TypeOK, [Next]_vars PROVE TypeOK'
  OBVIOUS
<1> USE InstallerAssumption
    DEF TypeOK, Before, Transaction, Rollback, Removal, Ends, Items, Go, files,
        camera, look
<1>0. 0 \in 0..Attempts /\ 0 \in 0..3 BY InstallerAssumption
<1>a. interrupted' \in BOOLEAN BY DEF Next, vars, work
<1> USE <1>a
<1>1. BeginInstall => TypeOK' BY DEF BeginInstall
<1>2. Keep => TypeOK' BY DEF Keep
<1>3. Stage => TypeOK' BY DEF Stage
<1>4. Staged => TypeOK' BY DEF Staged
<1>5. Pause => TypeOK' BY DEF Pause
<1>6. Note => TypeOK' BY DEF Note
<1>7. StopChildren => TypeOK' BY DEF StopChildren, Stopped
<1>8. PublishPolicy => TypeOK' BY DEF PublishPolicy
<1>9. VerifyRoute => TypeOK' BY DEF VerifyRoute
<1>10. Publish => TypeOK' BY DEF Publish, PublishItem
<1>11. Published => TypeOK' BY DEF Published
<1>12. (Resume => TypeOK') /\ (Unnote => TypeOK') BY <1>0 DEF Resume, Unnote
<1>13. Observe => TypeOK' BY DEF Observe
<1>14. Succeed => TypeOK' BY DEF Succeed
<1>15. GiveUp => TypeOK' BY DEF GiveUp
<1>16. BeginUninstall => TypeOK' BY DEF BeginUninstall
<1>17. Restore => TypeOK' BY DEF Restore, RestoreItem
<1>18. RestoreMisses => TypeOK' BY DEF RestoreMisses
<1>19. Restored => TypeOK' BY DEF Restored
<1>20. ResumeStock => TypeOK' BY DEF ResumeStock
<1>21. Remove => TypeOK' BY DEF Remove
<1>22. Removed => TypeOK' BY DEF Removed
<1>23. (Fail => TypeOK') /\ (FailAgain => TypeOK')
  BY DEF Fail, FailAgain, Fails, Stopped
<1>24. ExitTrap => TypeOK' BY DEF ExitTrap
<1>25. StartPair => TypeOK' BY DEF StartPair, Started, Programs
<1>26. ASSUME NEW s \in Sides PROVE ChildEnds(s) => TypeOK'
  BY <1>26 DEF ChildEnds
<1>27. ASSUME PowerLoss PROVE TypeOK'
  <2>1. child' \in [Sides -> {"none", "stock", "fallback", "old", "new"}]
    BY <1>27 DEF PowerLoss
  <2>2. attempts' \in 0..Attempts /\ seen' \in 0..3 BY <1>0, <1>27 DEF PowerLoss
  <2>3. stock_marker' \in BOOLEAN /\ noted' \in BOOLEAN /\ ngmonitor' \in {"run", "paused"}
    BY <1>27 DEF PowerLoss
  <2>4. step' \in Ends /\ todo' \subseteq Items BY <1>27 DEF PowerLoss
  <2>5. UNCHANGED files BY <1>27 DEF PowerLoss
  <2> QED BY <2>1, <2>2, <2>3, <2>4, <2>5
<1>28. CASE UNCHANGED vars BY <1>28 DEF vars, work
<1> QED
  BY <1>1, <1>2, <1>3, <1>4, <1>5, <1>6, <1>7, <1>8, <1>9, <1>10, <1>11, <1>12,
     <1>13, <1>14, <1>15, <1>16, <1>17, <1>18, <1>19, <1>20, <1>21, <1>22, <1>23,
     <1>24, <1>25, <1>26, <1>27, <1>28 DEF Next, Forward, Back

LEMMA RestInit == Init => Rest
  BY DEF Init, Rest, Keeping, Kept, Publishing, Restoring, IsStock, IsNew,
         Preserved, StockIsRecoverable, SelectorIsComplete, Before, Transaction, Rollback

(* One item restored: the list shrinks as the files are put back.          *)
LEMMA RestoringStep == TypeOK /\ Restoring /\ Restore => Restoring'
<1> SUFFICES ASSUME TypeOK, Restoring, Restore PROVE Restoring'
  OBVIOUS
<1>1. PICK x \in todo : RestoreItem(x) BY DEF Restore
<1>2. step' = step /\ step \in {"restore", "urestore"} BY DEF Restore
<1>3. (\A s \in Sides \ todo : entry[s] = "stock")
      /\ \A y \in Policies \ todo : policy[y] = "stock"
  BY <1>2 DEF Restoring
<1>4. entry \in [Sides -> {"stock", "selector"}] /\ policy \in [Policies -> {"stock", "calf"}]
  BY DEF TypeOK
<1>5. Sides \cap Policies = {} BY DEF Sides, Policies
<1>6. \A s \in Sides \ todo' : entry'[s] = "stock"
  BY <1>1, <1>3, <1>4, <1>5 DEF RestoreItem
<1>7. \A y \in Policies \ todo' : policy'[y] = "stock"
  BY <1>1, <1>3, <1>4, <1>5 DEF RestoreItem
<1> QED BY <1>2, <1>6, <1>7 DEF Restoring

LEMMA RestNext == Inv /\ [Next]_vars => Rest'
<1> SUFFICES ASSUME Inv, [Next]_vars PROVE Rest'
  OBVIOUS
<1> USE DEF Inv, Rest, Keeping, Kept, Publishing, Restoring, IsStock,
        IsNew, Preserved, StockIsRecoverable, SelectorIsComplete, TypeOK, Before,
        Transaction, Rollback, Removal, Ends, Go, files, camera, look
<1>1. BeginInstall => Rest' BY DEF BeginInstall
<1>2. Keep => Rest' BY DEF Keep
<1>3. Stage => Rest' BY DEF Stage
<1>4. Staged => Rest' BY DEF Staged
<1>5. Pause => Rest' BY DEF Pause
<1>6. Note => Rest' BY DEF Note
<1>7. StopChildren => Rest' BY DEF StopChildren
<1>8. PublishPolicy => Rest' BY DEF PublishPolicy
<1>9. VerifyRoute => Rest' BY DEF VerifyRoute
<1>10. Publish => Rest' BY ProgramsFirst DEF Publish, PublishItem
<1>11. Published => Rest' BY DEF Published
<1>12. (Resume => Rest') /\ (Unnote => Rest') BY DEF Resume, Unnote
<1>13. Observe => Rest' BY DEF Observe
<1>14. Succeed => Rest' BY DEF Succeed
<1>15. GiveUp => Rest' BY DEF GiveUp
<1>16. BeginUninstall => Rest' BY DEF BeginUninstall
<1>17. ASSUME Restore PROVE Rest'
  <2>1. PICK x \in todo : First(x) /\ RestoreItem(x) BY <1>17 DEF Restore
  <2>2. CASE x \in Sides
    <3>1. Keeping' BY <1>17, <2>1, <2>2 DEF Restore, RestoreItem
    <3>2. Kept' BY <1>17, <2>1, <2>2 DEF Restore, RestoreItem
    <3>3. Publishing' BY <1>17, <2>1, <2>2 DEF Restore, RestoreItem
    <3>4. Restoring' BY <1>17, RestoringStep
    <3>5. StockIsRecoverable' BY <1>17, <2>1, <2>2 DEF Restore, RestoreItem
    <3>6. SelectorIsComplete' BY <1>17, <2>1, <2>2 DEF Restore, RestoreItem
    <3> QED BY <3>1, <3>2, <3>3, <3>4, <3>5, <3>6
  <2>3. CASE x \in Policies
    <3>1. Keeping' BY <1>17, <2>1, <2>3 DEF Restore, RestoreItem
    <3>2. Kept' BY <1>17, <2>1, <2>3 DEF Restore, RestoreItem
    <3>3. Publishing' BY <1>17, <2>1, <2>3 DEF Restore, RestoreItem
    <3>4. Restoring' BY <1>17, RestoringStep
    <3>5. StockIsRecoverable' BY <1>17, <2>1, <2>3 DEF Restore, RestoreItem
    <3>6. SelectorIsComplete' BY <1>17, <2>1, <2>3 DEF Restore, RestoreItem
    <3> QED BY <3>1, <3>2, <3>3, <3>4, <3>5, <3>6
  <2> QED BY <2>1, <2>2, <2>3 DEF RestoreItem
<1>18. RestoreMisses => Rest' BY DEF RestoreMisses
<1>19. Restored => Rest' BY DEF Restored
<1>20. ResumeStock => Rest' BY DEF ResumeStock, Items
<1>21. ASSUME Remove PROVE Rest'
  <2>1. step = "remove" /\ UNCHANGED <<entry, policy, step>>
    BY <1>21 DEF Remove
  <2>2. IsStock BY <2>1
  <2>3. IsStock' BY <2>1, <2>2
  <2>4. Keeping' /\ Kept' /\ Publishing' /\ Restoring' BY <2>1, <2>3
  <2>5. StockIsRecoverable' /\ SelectorIsComplete' BY <2>3
  <2> QED BY <2>4, <2>5
<1>22. Removed => Rest' BY DEF Removed
<1>23. (Fail => Rest') /\ (FailAgain => Rest') BY DEF Fail, FailAgain, Fails
<1>24. ExitTrap => Rest' BY DEF ExitTrap
<1>25. StartPair => Rest' BY DEF StartPair
<1>26. ASSUME NEW s \in Sides PROVE ChildEnds(s) => Rest'
  BY <1>26 DEF ChildEnds
<1>27. PowerLoss => Rest' BY DEF PowerLoss
<1>28. CASE UNCHANGED vars BY <1>28 DEF vars, work
<1> QED
  BY <1>1, <1>2, <1>3, <1>4, <1>5, <1>6, <1>7, <1>8, <1>9, <1>10, <1>11, <1>12,
     <1>13, <1>14, <1>15, <1>16, <1>17, <1>18, <1>19, <1>20, <1>21, <1>22, <1>23,
     <1>24, <1>25, <1>26, <1>27, <1>28 DEF Next, Forward, Back
LEMMA InvHolds == Spec => []Inv
<1>1. Init => Inv BY TypeInit, RestInit DEF Inv
<1>2. Inv /\ [Next]_vars => Inv' BY TypeNext, RestNext DEF Inv
<1> QED BY <1>1, <1>2, PTL DEF Spec

(* Every variable keeps its type, with any number of attempts.             *)
THEOREM InstallerTypeOK == Spec => []TypeOK
<1>1. Inv => TypeOK BY DEF Inv
<1> QED BY InvHolds, <1>1, PTL

(* The stock programs and policies are in place or preserved at every      *)
(* moment of every installation, rollback and removal, whatever interrupts *)
(* it (backend_original_backup and the others of package_builder.py).      *)
THEOREM StockIsRecoverableHolds == Spec => []StockIsRecoverable
<1>1. Inv => StockIsRecoverable BY DEF Inv, Rest
<1> QED BY InvHolds, <1>1, PTL

(* A selector in place of a stock program always finds the three custom    *)
(* programs: they are published before it and removed after it.            *)
THEOREM SelectorIsCompleteHolds == Spec => []SelectorIsComplete
<1>1. Inv => SelectorIsComplete BY DEF Inv, Rest
<1> QED BY InvHolds, <1>1, PTL

(* What the script says it did is true of the programs' entries and of the *)
(* policies when it says so: a whole new installation, or the stock one    *)
(* back in its places, also when some rm of the removal failed.            *)
THEOREM VerdictIsTrueHolds == Spec => []VerdictIsTrue
<1>1. Inv => VerdictIsTrue
  BY DEF Inv, Rest, Publishing, Restoring, IsNew, IsStock, VerdictIsTrue
<1> QED BY InvHolds, <1>1, PTL

-----------------------------------------------------------------------------
(* The installed pair and its fallback (Session).                          *)

(* A pair that found the marker never gets beyond its first test.          *)
MarkedStays == marked => marker /\ \A s \in Pair : proc[s] \in {"test", "stock", "none"}

(* While the monitor stops a pair nothing starts, and only then is a       *)
(* program asked to stop.                                                  *)
StoppingEnds == monitor = "stop" => \A s \in Pair : proc[s] \in {"none"} \cup Ending
QuitIsAsked == \A s \in Pair : proc[s] = "quit" => monitor = "stop"

(* The selectors agree: one falls back only when the other does.           *)
SelectorsAgree ==
  \A s \in Pair :
    /\ proc[s] \in {"server"} \cup Custom \cup Ending => healthy
    /\ proc[s] = "mark" => ~healthy

StockIsMarked == \A s \in Pair : proc[s] \in {"leave", "stock"} => marker

(* Whoever writes the marker beside a custom program is about to end.      *)
WriterLeaves ==
  marker /\ ~marked /\ healthy =>
    monitor = "stop" \/ \E s \in Pair : proc[s] \in {"leave", "none"}

(* A program that is gone has left the marker.                             *)
GoneIsMarked ==
  \A s \in Pair : proc[s] = "none" /\ monitor = "watch" /\ healthy => marker

CrashPending == crashed => marker \/ \E s \in Pair : proc[s] = "crash"

PairInv == /\ SessionTypeOK /\ MarkedStays /\ StoppingEnds /\ QuitIsAsked
           /\ SelectorsAgree /\ StockIsMarked /\ WriterLeaves

-----------------------------------------------------------------------------
LEMMA PairTypeNext == SessionTypeOK /\ [SessionNext]_session => SessionTypeOK'
<1> SUFFICES ASSUME SessionTypeOK, [SessionNext]_session PROVE SessionTypeOK'
  OBVIOUS
<1> USE DEF SessionTypeOK, Pair, States, Selecting, Custom, Ending, Become
<1>1. ASSUME NEW s \in Pair PROVE TestMarker(s) => SessionTypeOK' BY <1>1 DEF TestMarker
<1>2. ASSUME NEW s \in Pair PROVE Check(s) => SessionTypeOK' BY <1>2 DEF Check
<1>3. ASSUME NEW s \in Pair PROVE StartServer(s) => SessionTypeOK' BY <1>3 DEF StartServer
<1>4. ASSUME NEW s \in Pair PROVE Mark(s) => SessionTypeOK' BY <1>4 DEF Mark
<1>5. ASSUME NEW s \in Pair PROVE Record(s) => SessionTypeOK' BY <1>5 DEF Record
<1>6. ASSUME NEW s \in Pair PROVE Exit(s) => SessionTypeOK' BY <1>6 DEF Exit
<1>7. ASSUME NEW s \in Pair PROVE Loaded(s) => SessionTypeOK' BY <1>7 DEF Loaded
<1>8. ASSUME NEW s \in Pair PROVE Die(s) => SessionTypeOK' BY <1>8 DEF Die
<1>9. ASSUME NEW s \in Pair PROVE FailUnrecorded(s) => SessionTypeOK'
  BY <1>9 DEF FailUnrecorded
<1>10. ASSUME NEW s \in Pair PROVE StockEnds(s) => SessionTypeOK' BY <1>10 DEF StockEnds
<1>11. LoadStockUi => SessionTypeOK' BY DEF LoadStockUi
<1>12. StopPair => SessionTypeOK' BY DEF StopPair, Terminated
<1>13. StartAgain => SessionTypeOK' BY DEF StartAgain
<1>14. Reboot => SessionTypeOK' BY DEF Reboot
<1>15. CASE UNCHANGED session BY <1>15 DEF session
<1> QED
  BY <1>1, <1>2, <1>3, <1>4, <1>5, <1>6, <1>7, <1>8, <1>9, <1>10, <1>11,
     <1>12, <1>13, <1>14, <1>15 DEF SessionNext, Proceed

LEMMA PairInvInit == SessionInit => PairInv
  BY DEF SessionInit, PairInv, SessionTypeOK, Pair, States, Selecting, Custom, Ending,
         MarkedStays, StoppingEnds, QuitIsAsked, SelectorsAgree, StockIsMarked, WriterLeaves

(* The first three parts hold with every fault.                            *)
LEMMA MarkedNext ==
  SessionTypeOK /\ MarkedStays /\ [SessionNext]_session => MarkedStays'
<1> SUFFICES ASSUME SessionTypeOK, MarkedStays, [SessionNext]_session PROVE MarkedStays'
  OBVIOUS
<1> USE DEF SessionTypeOK, MarkedStays, Pair, States, Selecting, Custom, Ending, Become
<1>1. ASSUME NEW s \in Pair PROVE TestMarker(s) => MarkedStays'
  BY <1>1 DEF TestMarker
<1>2. ASSUME NEW s \in Pair PROVE Check(s) => MarkedStays' BY <1>2 DEF Check
<1>3. ASSUME NEW s \in Pair PROVE StartServer(s) => MarkedStays'
  BY <1>3 DEF StartServer
<1>4. ASSUME NEW s \in Pair PROVE Mark(s) => MarkedStays' BY <1>4 DEF Mark
<1>5. ASSUME NEW s \in Pair PROVE Record(s) => MarkedStays' BY <1>5 DEF Record
<1>6. ASSUME NEW s \in Pair PROVE Exit(s) => MarkedStays' BY <1>6 DEF Exit
<1>7. ASSUME NEW s \in Pair PROVE Loaded(s) => MarkedStays' BY <1>7 DEF Loaded
<1>8. ASSUME NEW s \in Pair PROVE Die(s) => MarkedStays' BY <1>8 DEF Die
<1>9. ASSUME NEW s \in Pair PROVE FailUnrecorded(s) => MarkedStays'
  BY <1>9 DEF FailUnrecorded
<1>10. ASSUME NEW s \in Pair PROVE StockEnds(s) => MarkedStays'
  BY <1>10 DEF StockEnds
<1>11. LoadStockUi => MarkedStays' BY DEF LoadStockUi
<1>12. StopPair => MarkedStays' BY DEF StopPair, Terminated
<1>13. StartAgain => MarkedStays' BY DEF StartAgain
<1>14. Reboot => MarkedStays' BY DEF Reboot
<1>15. CASE UNCHANGED session BY <1>15 DEF session
<1> QED
  BY <1>1, <1>2, <1>3, <1>4, <1>5, <1>6, <1>7, <1>8, <1>9, <1>10, <1>11,
     <1>12, <1>13, <1>14, <1>15 DEF SessionNext, Proceed

LEMMA PairInvNext == "server" \notin faults' /\ PairInv /\ [SessionNext]_session => PairInv'
<1> SUFFICES ASSUME "server" \notin faults', PairInv, [SessionNext]_session PROVE PairInv'
  OBVIOUS
<1>a. SessionTypeOK' BY PairTypeNext DEF PairInv
<1>b. MarkedStays' BY MarkedNext DEF PairInv
<1> DEFINE Others == /\ StoppingEnds /\ QuitIsAsked
                     /\ SelectorsAgree /\ StockIsMarked /\ WriterLeaves
<1>c. Others'
  <2> USE DEF PairInv, SessionTypeOK, MarkedStays, Pair, States, Selecting, Custom, Ending,
          Become, StoppingEnds, QuitIsAsked, SelectorsAgree, StockIsMarked, WriterLeaves
  <2>1. ASSUME NEW s \in Pair PROVE TestMarker(s) => Others'
    BY <2>1 DEF TestMarker
  <2>2. ASSUME NEW s \in Pair PROVE Check(s) => Others' BY <2>2 DEF Check
  <2>3. ASSUME NEW s \in Pair PROVE StartServer(s) => Others'
    BY <2>3 DEF StartServer
  <2>4. ASSUME NEW s \in Pair PROVE Mark(s) => Others' BY <2>4 DEF Mark
  <2>5. ASSUME NEW s \in Pair PROVE Record(s) => Others' BY <2>5 DEF Record
  <2>6. ASSUME NEW s \in Pair PROVE Exit(s) => Others' BY <2>6 DEF Exit
  <2>7. ASSUME NEW s \in Pair PROVE Loaded(s) => Others' BY <2>7 DEF Loaded
  <2>8. ASSUME NEW s \in Pair PROVE Die(s) => Others' BY <2>8 DEF Die
  <2>9. ASSUME NEW s \in Pair PROVE FailUnrecorded(s) => Others'
    BY <2>9 DEF FailUnrecorded
  <2>10. ASSUME NEW s \in Pair PROVE StockEnds(s) => Others'
    BY <2>10 DEF StockEnds
  <2>11. LoadStockUi => Others' BY DEF LoadStockUi
  <2>12. StopPair => Others' BY DEF StopPair, Terminated
  <2>13. StartAgain => Others' BY DEF StartAgain
  <2>14. Reboot => Others' BY DEF Reboot
  <2>15. CASE UNCHANGED session BY <2>15 DEF session
  <2> QED
    BY <2>1, <2>2, <2>3, <2>4, <2>5, <2>6, <2>7, <2>8, <2>9, <2>10, <2>11,
       <2>12, <2>13, <2>14, <2>15 DEF SessionNext, Proceed
<1> QED BY <1>a, <1>b, <1>c DEF PairInv

(* GoneIsMarked and CrashPending follow step by step from Inv.             *)
LEMMA CrashNext ==
  ASSUME faults' = {}, PairInv, GoneIsMarked, CrashPending, [SessionNext]_session
  PROVE  GoneIsMarked' /\ CrashPending'
<1> DEFINE Others == GoneIsMarked /\ CrashPending
<1> USE DEF PairInv, SessionTypeOK, MarkedStays, Pair, States, Selecting, Custom, Ending,
        Become, StoppingEnds, QuitIsAsked, SelectorsAgree, StockIsMarked,
        GoneIsMarked, CrashPending
<1>1. ASSUME NEW s \in Pair PROVE TestMarker(s) => Others'
  BY <1>1 DEF TestMarker
<1>2. ASSUME NEW s \in Pair PROVE Check(s) => Others' BY <1>2 DEF Check
<1>3. ASSUME NEW s \in Pair PROVE StartServer(s) => Others'
  BY <1>3 DEF StartServer
<1>4. ASSUME NEW s \in Pair PROVE Mark(s) => Others' BY <1>4 DEF Mark
<1>5. ASSUME NEW s \in Pair PROVE Record(s) => Others' BY <1>5 DEF Record
<1>6. ASSUME NEW s \in Pair PROVE Exit(s) => Others' BY <1>6 DEF Exit
<1>7. ASSUME NEW s \in Pair PROVE Loaded(s) => Others' BY <1>7 DEF Loaded
<1>8. ASSUME NEW s \in Pair PROVE Die(s) => Others' BY <1>8 DEF Die
<1>9. ASSUME NEW s \in Pair PROVE FailUnrecorded(s) => Others'
  BY <1>9 DEF FailUnrecorded
<1>10. ASSUME NEW s \in Pair PROVE StockEnds(s) => Others'
  BY <1>10 DEF StockEnds
<1>11. LoadStockUi => Others' BY DEF LoadStockUi
<1>12. StopPair => Others' BY DEF StopPair, Terminated
<1>13. StartAgain => Others' BY DEF StartAgain
<1>14. Reboot => Others' BY DEF Reboot
<1>15. CASE UNCHANGED session BY <1>15 DEF session
<1> QED
  BY <1>1, <1>2, <1>3, <1>4, <1>5, <1>6, <1>7, <1>8, <1>9, <1>10, <1>11,
     <1>12, <1>13, <1>14, <1>15 DEF SessionNext, Proceed

-----------------------------------------------------------------------------
(* Whatever goes wrong, the variables keep their types.                    *)
THEOREM SessionTypeOKHolds == SessionSpec => []SessionTypeOK
<1>1. SessionInit => SessionTypeOK BY PairInvInit DEF PairInv
<1> QED BY <1>1, PairTypeNext, PTL DEF SessionSpec

(* Whatever goes wrong, a pair started while the marker exists is stock.   *)
THEOREM MarkedPairIsStockHolds == SessionSpec => []MarkedPairIsStock
<1>1. SessionInit => SessionTypeOK /\ MarkedStays BY PairInvInit DEF PairInv
<1>2. MarkedStays => MarkedPairIsStock
  BY DEF MarkedStays, MarkedPairIsStock, Custom
<1> QED BY <1>1, <1>2, PairTypeNext, MarkedNext, PTL DEF SessionSpec

(* A boot starts as the first one did.                                     *)
LEMMA Rebooted ==
  ASSUME Reboot PROVE PairInv' /\ GoneIsMarked' /\ CrashPending'
BY DEF Reboot, PairInv, SessionTypeOK, Pair, States, Selecting, Custom, Ending, MarkedStays,
       StoppingEnds, QuitIsAsked, SelectorsAgree, StockIsMarked, WriterLeaves,
       GoneIsMarked, CrashPending

(* Within a boot faults are not forgotten.                                 *)
LEMMA FaultsStay == [SessionNext]_session => Reboot \/ faults \subseteq faults'
BY DEF SessionNext, Proceed, TestMarker, Check, StartServer, Mark, Record, Exit, Loaded,
       Die, FailUnrecorded, StockEnds, LoadStockUi, StopPair, StartAgain, session

(* While the capture server starts, custom and stock are never mixed,      *)
(* whatever else goes wrong.                                               *)
THEOREM MatchedPairHolds == SessionSpec => []MatchedPair
<1> DEFINE Served == "server" \notin faults => PairInv
<1>1. SessionInit => Served BY PairInvInit
<1>2. Served /\ [SessionNext]_session => Served' BY PairInvNext, Rebooted, FaultsStay
<1>3. Served => MatchedPair
  <2> SUFFICES ASSUME PairInv, NEW s \in Pair, NEW t \in Pair,
                      proc[s] = "stock", proc[t] \in Custom
               PROVE  FALSE
    BY DEF MatchedPair
  <2>1. marker /\ ~marked /\ healthy /\ monitor # "stop"
    BY DEF PairInv, StockIsMarked, MarkedStays, SelectorsAgree, StoppingEnds, Custom,
           Ending
  <2> QED BY <2>1 DEF PairInv, WriterLeaves, Pair, Custom
<1> QED BY <1>1, <1>2, <1>3, PTL DEF SessionSpec

(* When every failing program could write the marker, and the capture      *)
(* server starts, it exists once a custom program has failed and the pair  *)
(* is gone.                                                                *)
THEOREM CrashIsRecordedHolds == SessionSpec => []CrashIsRecorded
<1> DEFINE All == faults = {} => PairInv /\ GoneIsMarked /\ CrashPending
<1>1. SessionInit => All
  BY PairInvInit DEF SessionInit, GoneIsMarked, CrashPending
<1>2. All /\ [SessionNext]_session => All' BY PairInvNext, CrashNext, Rebooted, FaultsStay
<1>3. All => CrashIsRecorded BY DEF CrashPending, CrashIsRecorded
<1> QED BY <1>1, <1>2, <1>3, PTL DEF SessionSpec
=============================================================================
