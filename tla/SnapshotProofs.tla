--------------------------- MODULE SnapshotProofs ----------------------------
(***************************************************************************)
(* Theorems of the snapshot server: of CaptureLock, for any set of process *)
(* numbers, the types and, when the server is only stopped in order,       *)
(* mutual exclusion; of Exposure, for any modes and any number of          *)
(* failures, what a photo is taken with and what the jobs of the UI leave  *)
(* the camera in.                                                          *)
(***************************************************************************)
EXTENDS CaptureLock, Exposure, SequenceTheorems, TLAPS

(* A handler without traps is the child the server knows: an orderly stop  *)
(* leaves only handlers that have the lock, or are giving it back.         *)
OnlyChildAcquires ==
  \A p \in Pids :
    at[p] \in Acquiring \cup {"unbound", "listening", "zombie"} =>
      p = child /\ server \in {"forked", "waiting"}

(* What each place of acquire_lock knows.                                  *)
LockIsOwned == \A p \in Holding : dir /\ owner = p

NobodyOwns ==
  \A p \in Pids :
    at[p] \in {"create", "write", "unlink", "rmdir", "remkdir"} => Holding = {}

FileIsMine ==
  \A p \in Pids : at[p] = "write" => dir /\ owner = Empty /\ p \in writers

OwnerWasSeen ==
  \A p \in Pids : at[p] = "judge" => \A q \in Holding : seen[p] = q

Inv ==
  /\ TypeOK
  /\ OnlyChildAcquires
  /\ LockIsOwned
  /\ NobodyOwns
  /\ FileIsMine
  /\ OwnerWasSeen

-----------------------------------------------------------------------------
(* The types hold however the server ends.                                 *)
LEMMA TypeNext == TypeOK /\ [Next]_vars => TypeOK'
<1> SUFFICES ASSUME TypeOK, [Next]_vars PROVE TypeOK'
  OBVIOUS
<1>0. orderly' \in BOOLEAN BY DEF Next, ServerGone, vars, TypeOK
<1> USE <1>0, NamesAssumption DEF TypeOK, Places, Acquiring, lock, notes
<1>1. CASE Start BY <1>1 DEF Start
<1>2. CASE Stop BY <1>2 DEF Stop, Signalled
<1>3. CASE ServerGone BY <1>3 DEF ServerGone
<1>4. CASE NotePid BY <1>4 DEF NotePid
<1>5. CASE Wait BY <1>5 DEF Wait
<1>6. ASSUME NEW p \in Pids PROVE Fork(p) => TypeOK' BY DEF Fork, Free
<1>7. ASSUME NEW p \in Pids PROVE Unbound(p) => TypeOK'
  BY DEF Unbound, Ended
<1>8. ASSUME NEW p \in Pids PROVE Accept(p) => TypeOK' BY DEF Accept
<1>9. ASSUME NEW p \in Pids PROVE Die(p) => TypeOK' BY DEF Die, Ends, Ended
<1>10. ASSUME NEW p \in Pids PROVE Foreign(p) => TypeOK' BY DEF Foreign
<1>11. ASSUME NEW p \in Pids PROVE Handle(p) => TypeOK'
  <2>1. ReadRequest(p) => TypeOK' BY DEF ReadRequest, Step
  <2>2. Mkdir(p) => TypeOK' BY DEF Mkdir, Step
  <2>3. ASSUME Create(p) PROVE TypeOK'
    <3>1. at' \in [Pids -> Places] BY <2>3 DEF Create, Step
    <3>2. alone' \in [Pids -> BOOLEAN] BY <2>3 DEF Create
    <3>3. owner' \in Pids \cup {None, Empty} /\ writers' \subseteq Pids
      BY <2>3 DEF Create
    <3>4. UNCHANGED <<server, child, dir, seen>> BY <2>3 DEF Create, Step
    <3> QED BY <3>1, <3>2, <3>3, <3>4
  <2>4. ASSUME WriteOwner(p) PROVE TypeOK'
    <3>1. at' \in [Pids -> Places] BY <2>4 DEF WriteOwner, Step
    <3>2. alone' \in [Pids -> BOOLEAN] BY <2>4 DEF WriteOwner
    <3>3. owner' \in Pids \cup {None, Empty} /\ writers' \subseteq Pids
      BY <2>4 DEF WriteOwner
    <3>4. UNCHANGED <<server, child, dir, seen>> BY <2>4 DEF WriteOwner, Step
    <3> QED BY <3>1, <3>2, <3>3, <3>4
  <2>5. Undo(p) => TypeOK' BY DEF Undo, Step, Removable
  <2>6. ReadOwner(p) => TypeOK' BY DEF ReadOwner, Step
  <2>7. Judge(p) => TypeOK' BY DEF Judge, Step
  <2>8. RemoveStaleOwner(p) => TypeOK' BY DEF RemoveStaleOwner, Unlink, Step
  <2>9. RemoveStaleDir(p) => TypeOK' BY DEF RemoveStaleDir, Step, Removable
  <2>10. MkdirAgain(p) => TypeOK' BY DEF MkdirAgain, Step
  <2>11. SetTraps(p) => TypeOK' BY DEF SetTraps, Step
  <2>12. Capture(p) => TypeOK' BY DEF Capture, Step
  <2>13. ReleaseOwner(p) => TypeOK' BY DEF ReleaseOwner, Unlink, Step
  <2>14. ReleaseDir(p) => TypeOK' BY DEF ReleaseDir, Ends, Ended, Removable
  <2>15. Refuse(p) => TypeOK' BY DEF Refuse, Ends, Ended
  <2> QED BY <2>1, <2>2, <2>3, <2>4, <2>5, <2>6, <2>7, <2>8, <2>9, <2>10, <2>11, <2>12, <2>13, <2>14, <2>15 DEF Handle
<1>12. CASE UNCHANGED vars BY <1>12 DEF vars
<1> QED
  BY <1>1, <1>2, <1>3, <1>4, <1>5, <1>6, <1>7, <1>8, <1>9, <1>10, <1>11,
     <1>12 DEF Next, Loop

LEMMA TypeInit == Init => TypeOK
  BY NamesAssumption DEF Init, TypeOK, Places, Acquiring

(* Every variable keeps its type, and the server knows a child exactly     *)
(* while there is one to wait for.                                         *)
THEOREM LockTypeOK == Spec => []TypeOK
  BY TypeInit, TypeNext, PTL DEF Spec

-----------------------------------------------------------------------------
(* A stop in order takes an acquiring handler along.                       *)
LEMMA OnlyChildNext ==
  ASSUME orderly', TypeOK, OnlyChildAcquires, [Next]_vars
  PROVE  OnlyChildAcquires'
<1> USE NamesAssumption DEF OnlyChildAcquires, TypeOK, Acquiring, Places
<1>1. CASE Start BY <1>1 DEF Start
<1>2. CASE Stop BY <1>2 DEF Stop, Signalled
<1>3. CASE ServerGone BY <1>3 DEF ServerGone
<1>4. CASE NotePid BY <1>4 DEF NotePid
<1>5. CASE Wait BY <1>5 DEF Wait
<1>6. ASSUME NEW p \in Pids PROVE Fork(p) => OnlyChildAcquires'
  BY DEF Fork, Free
<1>7. ASSUME NEW p \in Pids PROVE Unbound(p) => OnlyChildAcquires'
  BY DEF Unbound, Ended
<1>8. ASSUME NEW p \in Pids PROVE Accept(p) => OnlyChildAcquires'
  BY DEF Accept
<1>9. ASSUME NEW p \in Pids PROVE Die(p) => OnlyChildAcquires'
  BY DEF Die, Ends, Ended
<1>10. ASSUME NEW p \in Pids PROVE Foreign(p) => OnlyChildAcquires'
  BY DEF Foreign
<1>11. ASSUME NEW p \in Pids PROVE Handle(p) => OnlyChildAcquires'
  <2>1. ReadRequest(p) => OnlyChildAcquires'
    BY DEF ReadRequest, Step
  <2>2. Mkdir(p) => OnlyChildAcquires'
    BY DEF Mkdir, Step
  <2>3. Create(p) => OnlyChildAcquires'
    BY DEF Create, Step
  <2>4. WriteOwner(p) => OnlyChildAcquires'
    BY DEF WriteOwner, Step
  <2>5. Undo(p) => OnlyChildAcquires'
    BY DEF Undo, Step, Removable
  <2>6. ReadOwner(p) => OnlyChildAcquires'
    BY DEF ReadOwner, Step
  <2>7. Judge(p) => OnlyChildAcquires'
    BY DEF Judge, Step
  <2>8. RemoveStaleOwner(p) => OnlyChildAcquires'
    BY DEF RemoveStaleOwner, Unlink, Step
  <2>9. RemoveStaleDir(p) => OnlyChildAcquires'
    BY DEF RemoveStaleDir, Step, Removable
  <2>10. MkdirAgain(p) => OnlyChildAcquires'
    BY DEF MkdirAgain, Step
  <2>11. SetTraps(p) => OnlyChildAcquires'
    BY DEF SetTraps, Step
  <2>12. Capture(p) => OnlyChildAcquires'
    BY DEF Capture, Step
  <2>13. ReleaseOwner(p) => OnlyChildAcquires'
    BY DEF ReleaseOwner, Unlink, Step
  <2>14. ReleaseDir(p) => OnlyChildAcquires'
    BY DEF ReleaseDir, Ends, Ended, Removable
  <2>15. Refuse(p) => OnlyChildAcquires'
    BY DEF Refuse, Ends, Ended
  <2> QED BY <2>1, <2>2, <2>3, <2>4, <2>5, <2>6, <2>7, <2>8, <2>9, <2>10, <2>11, <2>12, <2>13, <2>14, <2>15 DEF Handle
<1>12. CASE UNCHANGED vars BY <1>12 DEF vars
<1> QED
  BY <1>1, <1>2, <1>3, <1>4, <1>5, <1>6, <1>7, <1>8, <1>9, <1>10, <1>11,
     <1>12 DEF Next, Loop

-----------------------------------------------------------------------------
Locked == LockIsOwned /\ NobodyOwns /\ FileIsMine /\ OwnerWasSeen

(* The lock through a step of the handler p, by the place it leaves.       *)
LEMMA HandlerKeepsLock ==
  ASSUME TypeOK, OnlyChildAcquires, Locked, NEW p \in Pids, Handle(p)
  PROVE  Locked'
<1> USE NamesAssumption DEF OnlyChildAcquires, TypeOK, Acquiring, Places,
      Locked, LockIsOwned, NobodyOwns, FileIsMine, OwnerWasSeen, Holding,
      lock, notes
<1>1. ReadRequest(p) => Locked'
  BY DEF ReadRequest, Step
<1>2. Mkdir(p) => Locked'
  BY DEF Mkdir, Step
<1>3. Create(p) => Locked'
  BY DEF Create, Step
<1>4. WriteOwner(p) => Locked'
  BY DEF WriteOwner, Step
<1>5. Undo(p) => Locked'
  BY DEF Undo, Step, Removable
<1>6. ReadOwner(p) => Locked'
  BY DEF ReadOwner, Step
<1>7. Judge(p) => Locked'
  BY DEF Judge, Step, Alive, Free
<1>8. RemoveStaleOwner(p) => Locked'
  BY DEF RemoveStaleOwner, Unlink, Step
<1>9. RemoveStaleDir(p) => Locked'
  BY DEF RemoveStaleDir, Step, Removable
<1>10. MkdirAgain(p) => Locked'
  BY DEF MkdirAgain, Step
<1>11. SetTraps(p) => Locked'
  BY DEF SetTraps, Step
<1>12. Capture(p) => Locked'
  BY DEF Capture, Step
<1>13. ReleaseOwner(p) => Locked'
  BY DEF ReleaseOwner, Unlink, Step
<1>14. ReleaseDir(p) => Locked'
  BY DEF ReleaseDir, Ends, Ended, Removable
<1>15. Refuse(p) => Locked'
  BY DEF Refuse, Ends, Ended
<1> QED BY <1>1, <1>2, <1>3, <1>4, <1>5, <1>6, <1>7, <1>8, <1>9, <1>10, <1>11, <1>12, <1>13, <1>14, <1>15 DEF Handle

(* The lock through every other step: a handler comes or goes.             *)
LEMMA OthersKeepLock ==
  ASSUME orderly', TypeOK, OnlyChildAcquires, Locked, [Next]_vars,
         ~\E p \in Pids : Handle(p)
  PROVE  Locked'
<1> USE NamesAssumption DEF OnlyChildAcquires, TypeOK, Acquiring, Places,
      Locked, LockIsOwned, NobodyOwns, FileIsMine, OwnerWasSeen, Holding,
      lock, notes
<1>1. CASE Start BY <1>1 DEF Start
<1>2. CASE Stop BY <1>2 DEF Stop, Signalled
<1>3. CASE ServerGone BY <1>3 DEF ServerGone
<1>4. CASE NotePid BY <1>4 DEF NotePid
<1>5. CASE Wait BY <1>5 DEF Wait
<1>6. ASSUME NEW p \in Pids PROVE Fork(p) => Locked' BY DEF Fork, Free
<1>7. ASSUME NEW p \in Pids PROVE Unbound(p) => Locked'
  BY DEF Unbound, Ended
<1>8. ASSUME NEW p \in Pids PROVE Accept(p) => Locked' BY DEF Accept
<1>9. ASSUME NEW p \in Pids PROVE Die(p) => Locked' BY DEF Die, Ends, Ended
<1>10. ASSUME NEW p \in Pids PROVE Foreign(p) => Locked' BY DEF Foreign
<1>11. CASE UNCHANGED vars BY <1>11 DEF vars
<1> QED
  BY <1>1, <1>2, <1>3, <1>4, <1>5, <1>6, <1>7, <1>8, <1>9, <1>10, <1>11
  DEF Next, Loop

LEMMA InvInit == Init => Inv
  BY TypeInit DEF Init, Inv, OnlyChildAcquires, LockIsOwned, NobodyOwns,
     FileIsMine, OwnerWasSeen, Holding, Acquiring

LEMMA InvNext == ASSUME orderly', Inv, [Next]_vars PROVE Inv'
<1>1. TypeOK' BY TypeNext DEF Inv
<1>2. OnlyChildAcquires' BY OnlyChildNext DEF Inv
<1>3. Locked'
  <2>1. Locked BY DEF Inv, Locked
  <2>2. CASE \E p \in Pids : Handle(p)
    BY <2>1, <2>2, HandlerKeepsLock DEF Inv
  <2>3. CASE ~\E p \in Pids : Handle(p)
    BY <2>1, <2>3, OthersKeepLock DEF Inv
  <2> QED BY <2>2, <2>3
<1> QED BY <1>1, <1>2, <1>3 DEF Inv, Locked

(* As long as the server ends in order there is at most one handler beside *)
(* those that give the lock back, and it owns the lock it has.             *)
THEOREM LockInvariant == Spec => [](orderly => Inv)
<1>1. Init => (orderly => Inv) BY InvInit
<1>2. (orderly => Inv) /\ [Next]_vars => (orderly => Inv)'
  <2>1. [Next]_vars => (orderly' => orderly) BY DEF Next, ServerGone, vars
  <2> QED BY <2>1, InvNext
<1> QED BY <1>1, <1>2, PTL DEF Spec

(* Unless the server is killed or stopped too early, the handler that has  *)
(* the lock keeps it until it gives it back.                               *)
THEOREM HolderKeepsLockHolds == Spec => []HolderKeepsLock
<1>1. (orderly => Inv) => HolderKeepsLock
  BY DEF Inv, HolderKeepsLock, LockIsOwned, Holding
<1> QED BY LockInvariant, <1>1, PTL

(* And then two handlers never capture at the same time.                   *)
THEOREM OrderlyIsSerialHolds == Spec => []OrderlyIsSerial
<1>1. HolderKeepsLock => OrderlyIsSerial
  BY DEF HolderKeepsLock, OrderlyIsSerial, CapturesAreSerial, Holding
<1> QED BY HolderKeepsLockHolds, <1>1, PTL

-----------------------------------------------------------------------------
(* A handler that has met nobody since it started is the only one there is,*)
(* and so what it saw of the lock is still true when it acts on it.  This  *)
(* holds however the server ends.                                          *)
OnlyHandler == \A p \in Pids : alone[p] => Handlers \subseteq {p}

LockAsFound ==
  \A p \in Pids : alone[p] =>
    /\ at[p] # "undo"
    /\ at[p] \in {"create", "write", "read", "judge", "unlink", "rmdir"} => dir
    /\ at[p] = "rmdir" => owner = None
    /\ at[p] = "remkdir" => ~dir

Undisturbed == TypeOK /\ OnlyHandler /\ LockAsFound

(* A step of a handler brings no other one.                                *)
LEMMA OnlyHandlerNext ==
  ASSUME TypeOK, OnlyHandler, [Next]_vars
  PROVE  OnlyHandler'
<1> USE DEF OnlyHandler, Handlers, TypeOK, Acquiring, Places, lock, notes
<1>1. CASE Start BY <1>1 DEF Start
<1>2. CASE Stop BY <1>2 DEF Stop, Signalled
<1>3. CASE ServerGone BY <1>3 DEF ServerGone
<1>4. CASE NotePid BY <1>4 DEF NotePid
<1>5. CASE Wait BY <1>5 DEF Wait
<1>6. ASSUME NEW p \in Pids PROVE Fork(p) => OnlyHandler' BY DEF Fork, Free
<1>7. ASSUME NEW p \in Pids PROVE Unbound(p) => OnlyHandler'
  BY DEF Unbound, Ended
<1>8. ASSUME NEW p \in Pids, Accept(p) PROVE OnlyHandler'
  <2> SUFFICES ASSUME NEW q \in Pids, alone'[q] PROVE Handlers' \subseteq {q}
    BY DEF OnlyHandler
  <2>1. q = p /\ Handlers = {}
    <3> HIDE DEF Handlers
    <3> QED BY <1>8 DEF Accept
  <2>2. at' = [at EXCEPT ![p] = "request"] BY <1>8 DEF Accept
  <2> QED BY <2>1, <2>2
<1>9. ASSUME NEW p \in Pids PROVE Die(p) => OnlyHandler'
  BY DEF Die, Ends, Ended
<1>10. ASSUME NEW p \in Pids PROVE Foreign(p) => OnlyHandler' BY DEF Foreign
<1>11. ASSUME NEW p \in Pids PROVE Handle(p) => OnlyHandler'
  <2>1. ReadRequest(p) => OnlyHandler' BY DEF ReadRequest, Step
  <2>2. Mkdir(p) => OnlyHandler' BY DEF Mkdir, Step
  <2>3. Create(p) => OnlyHandler' BY DEF Create, Step
  <2>4. WriteOwner(p) => OnlyHandler' BY DEF WriteOwner, Step
  <2>5. Undo(p) => OnlyHandler' BY DEF Undo, Step, Removable
  <2>6. ReadOwner(p) => OnlyHandler' BY DEF ReadOwner, Step
  <2>7. Judge(p) => OnlyHandler' BY DEF Judge, Step
  <2>8. RemoveStaleOwner(p) => OnlyHandler' BY DEF RemoveStaleOwner, Unlink, Step
  <2>9. RemoveStaleDir(p) => OnlyHandler' BY DEF RemoveStaleDir, Step, Removable
  <2>10. MkdirAgain(p) => OnlyHandler' BY DEF MkdirAgain, Step
  <2>11. SetTraps(p) => OnlyHandler' BY DEF SetTraps, Step
  <2>12. Capture(p) => OnlyHandler' BY DEF Capture, Step
  <2>13. ReleaseOwner(p) => OnlyHandler' BY DEF ReleaseOwner, Unlink, Step
  <2>14. ReleaseDir(p) => OnlyHandler' BY DEF ReleaseDir, Ends, Ended, Removable
  <2>15. Refuse(p) => OnlyHandler' BY DEF Refuse, Ends, Ended
  <2> QED BY <2>1, <2>2, <2>3, <2>4, <2>5, <2>6, <2>7, <2>8,
       <2>9, <2>10, <2>11, <2>12, <2>13, <2>14, <2>15 DEF Handle
<1>12. CASE UNCHANGED vars BY <1>12 DEF vars
<1> QED
  BY <1>1, <1>2, <1>3, <1>4, <1>5, <1>6, <1>7, <1>8, <1>9, <1>10, <1>11,
     <1>12 DEF Next, Loop

(* Nobody else touches the lock of a handler that is alone.                *)
LEMMA LockAsFoundNext ==
  ASSUME Undisturbed, [Next]_vars
  PROVE  LockAsFound'
<1> USE DEF Undisturbed, OnlyHandler, LockAsFound, Handlers, TypeOK,
      Acquiring, Places, lock, notes
<1>1. CASE Start BY <1>1 DEF Start
<1>2. CASE Stop BY <1>2 DEF Stop, Signalled
<1>3. CASE ServerGone BY <1>3 DEF ServerGone
<1>4. CASE NotePid BY <1>4 DEF NotePid
<1>5. CASE Wait BY <1>5 DEF Wait
<1>6. ASSUME NEW p \in Pids PROVE Fork(p) => LockAsFound' BY DEF Fork, Free
<1>7. ASSUME NEW p \in Pids PROVE Unbound(p) => LockAsFound'
  BY DEF Unbound, Ended
<1>8. ASSUME NEW p \in Pids PROVE Accept(p) => LockAsFound' BY DEF Accept
<1>9. ASSUME NEW p \in Pids PROVE Die(p) => LockAsFound'
  BY DEF Die, Ends, Ended
<1>10. ASSUME NEW p \in Pids PROVE Foreign(p) => LockAsFound' BY DEF Foreign
<1>11. ASSUME NEW p \in Pids PROVE Handle(p) => LockAsFound'
  <2>1. ReadRequest(p) => LockAsFound' BY DEF ReadRequest, Step
  <2>2. Mkdir(p) => LockAsFound' BY DEF Mkdir, Step
  <2>3. Create(p) => LockAsFound' BY DEF Create, Step
  <2>4. WriteOwner(p) => LockAsFound' BY DEF WriteOwner, Step
  <2>5. Undo(p) => LockAsFound' BY DEF Undo, Step, Removable
  <2>6. ReadOwner(p) => LockAsFound' BY DEF ReadOwner, Step
  <2>7. Judge(p) => LockAsFound' BY DEF Judge, Step
  <2>8. RemoveStaleOwner(p) => LockAsFound' BY DEF RemoveStaleOwner, Unlink, Step
  <2>9. ASSUME RemoveStaleDir(p) PROVE LockAsFound'
    <3>1. CASE alone[p]
      <4>1. ~dir' BY <2>9, <3>1 DEF RemoveStaleDir, Step, Removable
      <4>2. \A q \in Pids : alone'[q] => q = p /\ at'[q] = "remkdir"
        BY <2>9, <3>1 DEF RemoveStaleDir, Step, Removable
      <4> QED BY <4>1, <4>2
    <3>2. CASE ~alone[p]
      <4>1. \A q \in Pids : ~alone'[q]
        BY <2>9, <3>2 DEF RemoveStaleDir, Step
      <4> QED BY <4>1
    <3> QED BY <3>1, <3>2
  <2>10. MkdirAgain(p) => LockAsFound' BY DEF MkdirAgain, Step
  <2>11. SetTraps(p) => LockAsFound' BY DEF SetTraps, Step
  <2>12. Capture(p) => LockAsFound' BY DEF Capture, Step
  <2>13. ReleaseOwner(p) => LockAsFound' BY DEF ReleaseOwner, Unlink, Step
  <2>14. ReleaseDir(p) => LockAsFound' BY DEF ReleaseDir, Ends, Ended, Removable
  <2>15. Refuse(p) => LockAsFound' BY DEF Refuse, Ends, Ended
  <2> QED BY <2>1, <2>2, <2>3, <2>4, <2>5, <2>6, <2>7, <2>8,
       <2>9, <2>10, <2>11, <2>12, <2>13, <2>14, <2>15 DEF Handle
<1>12. CASE UNCHANGED vars BY <1>12 DEF vars
<1> QED
  BY <1>1, <1>2, <1>3, <1>4, <1>5, <1>6, <1>7, <1>8, <1>9, <1>10, <1>11,
     <1>12 DEF Next, Loop

LEMMA UndisturbedAlways == Spec => []Undisturbed
<1>1. Init => Undisturbed
  BY TypeInit DEF Init, Undisturbed, OnlyHandler, LockAsFound
<1>2. Undisturbed /\ [Next]_vars => Undisturbed'
  BY TypeNext, OnlyHandlerNext, LockAsFoundNext DEF Undisturbed
<1> QED BY <1>1, <1>2, PTL DEF Spec

(* Of the four ways to be refused only a number in use is left to a handler*)
(* that is alone and whose writes succeed: a lock left behind by a killed  *)
(* one is taken over, after whatever stops and restarts of the server.     *)
THEOREM StaleLockIsReclaimedHolds == Spec => StaleLockIsReclaimed
<1> DEFINE Refused(p) == at[p] # "refused" /\ at'[p] = "refused" /\ alone[p]
<1>1. ASSUME Undisturbed, [Next]_vars, NEW p \in Pids, Refused(p)
      PROVE  Alive(seen[p])
  <2> USE <1>1 DEF Undisturbed, LockAsFound, TypeOK
  <2>1. ASSUME NEW q \in Pids, Handle(q) PROVE Alive(seen[p])
    <3>1. at' = [at EXCEPT ![q] = at'[q]] BY <2>1 DEF Handle, ReadRequest, Mkdir, Create, WriteOwner, Undo,
         ReadOwner, Judge, RemoveStaleOwner, RemoveStaleDir, MkdirAgain,
         SetTraps, Capture, ReleaseOwner, ReleaseDir, Refuse, Step, Unlink,
         Ends, Ended, Removable, lock, notes
    <3>2. q = p BY <3>1
    <3> QED
      BY <2>1, <3>2 DEF Handle, ReadRequest, Mkdir, Create, WriteOwner, Undo,
         ReadOwner, Judge, RemoveStaleOwner, RemoveStaleDir, MkdirAgain,
         SetTraps, Capture, ReleaseOwner, ReleaseDir, Refuse, Step, Unlink,
         Ends, Ended, Removable, lock, notes
  <2>2. ASSUME ~\E q \in Pids : Handle(q) PROVE FALSE
    BY <2>2 DEF Next, Loop, vars, Start, Stop, Signalled, ServerGone, NotePid,
       Wait, Fork, Unbound, Ended, Accept, Die, Ends, Foreign, lock, notes
  <2> QED BY <2>1, <2>2
<1>2. Undisturbed /\ [Next]_vars =>
        [\A p \in Pids : Refused(p) => Alive(seen[p])]_vars
  BY <1>1
<1> QED BY <1>2, UndisturbedAlways, PTL DEF StaleLockIsReclaimed, Spec

-----------------------------------------------------------------------------
(* The exposure of a photo.  What a request may be.                          *)
Pairs == {"auto", "eighth", "four", "half"}
Rates == {2, 4, 8, 30}
Graphs == {"pic", "video"}
Cameras == {"on", "off", "playing"}

FilesType ==
  [profile : Pairs, photo : Pairs, night : Pairs, mode : {"photo", "video", "night"}]
UiType ==
  [up : BOOLEAN, mode : {"photo", "video", "night"}, shown : Pairs, available : BOOLEAN,
   gallery : BOOLEAN]
SensorsType == [internal : Rates, external : Rates, streaming : BOOLEAN]
BackendType ==
  [camera : Cameras, graph : Graphs, desired : Pairs, transient : BOOLEAN, cached : Rates,
   file : Rates, sensors : SensorsType, stack : {"none", "four"}]

(* The requests of the UI, by what its jobs may ask for.                    *)
SetUpOps == {"start", "stop", "other", "sync", "apply", "preview", "standard"}
ShowOps == {"preview", "standard", "play", "endPlay", "set"}
SetUpJobs == {"boot", "recover", "sleep", "mode"}
ShowJobs == {"none", "snapshot", "pair", "lcd", "enter", "leave", "exit"}
Args == Pairs \cup Graphs \cup Rates \cup {0}
Asked(ops, insteads) ==
  {r \in [op : ops, arg : Args, must : BOOLEAN, rest : BOOLEAN, instead : insteads] :
     /\ r.op \in {"set", "apply", "preview"} => r.arg \in Pairs
     /\ r.op = "start" => r.arg \in Graphs}
AskedList(ops) == Seq(Asked(ops, Seq(Asked(ops, {<<>>}))))

JobOK ==
  /\ job = [name |-> job.name, to |-> job.to, ok |-> job.ok, todo |-> job.todo]
  /\ job.ok \in BOOLEAN
  /\ \/ job.name \in SetUpJobs /\ job.todo \in AskedList(SetUpOps)
     \/ job.name \in ShowJobs /\ job.todo \in AskedList(ShowOps)
  /\ job.name = "mode" => job.to \in Modes
  /\ job.name = "pair" => job.to \in Pairs
  /\ job.name = "none" => job = NoJob
  /\ ~ui.up => job = NoJob
  /\ ui.gallery /\ ui.up => job.name \in {"none", "leave", "exit"}
CoOK ==
  /\ co = [busy |-> co.busy, todo |-> co.todo, ok |-> co.ok, pair |-> co.pair,
           asked |-> co.asked, mode |-> co.mode, orphan |-> co.orphan]
  /\ co.busy \in BOOLEAN /\ co.ok \in BOOLEAN /\ co.orphan \in BOOLEAN /\ co.pair \in Pairs
  /\ ~co.busy => co = NoCapture /\ photo = NoPhoto /\ b.stack = "none"
ExposureTypeOK ==
  /\ files \in FilesType /\ ui \in UiType /\ b \in BackendType /\ faults \in Nat
  /\ JobOK /\ CoOK

-----------------------------------------------------------------------------
(* What is left of a capture.                                               *)
Given(p) == <<May("set", p)>>
Back(p) == <<MustElse("restore", 0, <<>>)>> \o Given(p)
Expose(p) == <<Note("snapshot", 0)>> \o Back(p)
Prepare(p) == <<MustElse("other", 0, Restoring(p))>> \o Expose(p)
Expect(p) == <<MustElse("set", Frame(p), Restoring(p))>> \o Shoot(p)
Afresh(p) == <<Must("start", "pic")>> \o Again(p)
StartAfresh(p) == <<OrElse("start", "pic", Afresh(p))>> \o Again(p)
Anew(p) == <<Must("stop", 0)>> \o StartAfresh(p)
GivenThenAnew(p) == <<May("set", p)>> \o Anew(p)
Attempted(p) == <<OrElse("set", Frame(p), Recovery(p))>> \o Shoot(p)
QuickOther(p) == <<Must("other", 0), Must("snapshot", 0)>>
QuickShot(p) == <<Must("snapshot", 0)>>

Slow(p) == Rate(p) # 30
Sure == ~co.orphan
PhotoRight == photo = NoPhoto \/ (co.orphan /\ ~Stacked(co.pair)) \/ photo = Of(co.pair)
Restored == b.sensors = Both(30) /\ b.file = 30
Unposed == photo = NoPhoto /\ b.stack = "none"
Posed == photo = NoPhoto /\ (Sure => b.desired = Frame(co.pair))
Marked == b.stack = IF Stacked(co.pair) THEN co.pair ELSE "none"
Calm == faults = 0
SlowOutline(p) ==
  \/ co.todo \in {CaptureRequests(p), Attempted(p), Recovery(p), GivenThenAnew(p), Anew(p),
                  StartAfresh(p), Afresh(p)} /\ Unposed
  \/ /\ Calm => b.camera = "on"
     /\ \/ co.todo \in {Again(p), Expect(p)} /\ Unposed
        \/ co.todo = Shoot(p) /\ Posed /\ b.stack = "none"
        \/ co.todo \in {Prepare(p), Expose(p)} /\ Posed /\ Marked
        \/ co.todo = Back(p) /\ PhotoRight
        \/ co.todo \in {Given(p), <<>>} /\ PhotoRight /\ (Calm \/ (co.ok /\ Sure) => Restored)
  \/ co.todo = Restoring(p) /\ PhotoRight /\ ~co.ok /\ ~Calm
QuickOutline(p) ==
  \/ co.todo = CaptureRequests(p) /\ Unposed
  \/ co.todo \in {QuickOther(p), QuickShot(p)} /\ Posed /\ b.stack = "none"
  \/ co.todo = <<>> /\ PhotoRight
CaptureOutline ==
  co.busy => IF Slow(co.pair) THEN SlowOutline(co.pair) ELSE QuickOutline(co.pair)

(* The UI waits for the photo it asked for; what it shows in Night is in    *)
(* the file the coordinator read.                                          *)
Awaits ==
  co.busy /\ Sure =>
    /\ ui.up /\ job = [name |-> "snapshot", to |-> "none", ok |-> TRUE, todo |-> PreviewAgain]
    /\ co.mode = ui.mode /\ co.asked = ui.shown
    /\ files.mode = "night" => co.pair = files.night
ShownInNight == ui.up /\ InNight /\ job.name \in ShowJobs => ui.shown = files.night

-----------------------------------------------------------------------------
(* While nothing has failed.                                                *)
Fresh == b.camera = "on" /\ ~b.transient /\ b.cached = 30 /\ b.file = 30 /\ b.sensors = Both(30)
Off == b.camera = "off" /\ ~b.transient /\ b.cached = 30 /\ b.file = 30
Plain == Fresh \/ Off
OnOrOff == b.camera = "on" \/ Off
Lit(pair) ==
  LET fps == PreviewRate(pair)
  IN  b.camera = "on" /\ b.transient /\ b.cached = fps /\ b.file = fps /\ b.sensors = Both(fps)
Playing == b.camera = "playing" /\ (~InNight => b.cached = 30 /\ b.file = 30)

PlainOps == {"start", "other", "sync"}
PlainStage == job.todo \in AskedList(PlainOps) /\ Plain
ShowingOps == {"start", "other", "sync", "apply"}
ShowList(s, n) ==
  /\ s # <<>> /\ \A i \in 1 .. Len(s) - 1 : s[i].op \in ShowingOps
  /\ \A i \in 1 .. Len(s) : s[i].instead = <<>>
  /\ s[Len(s)].op = "preview" /\ s[Len(s)].arg = n
ShowStage(n) ==
  \/ ShowList(job.todo, n) /\ OnOrOff
  \/ job.todo = <<>> /\ (Lit(n) \/ Off)

NightOps == <<"stop", "start", "other", "apply", "preview", "other">>
NightStage(n) ==
  \E k \in 0 .. 6 :
    /\ Len(job.todo) = 6 - k /\ \A i \in 1 .. 6 - k : job.todo[i].op = NightOps[i + k]
    /\ k <= 4 => job.todo[5 - k].arg = n
    /\ k <= 1 => OnOrOff
    /\ k \in 2 .. 4 => b.camera = "on"
    /\ k >= 5 => Lit(n)
LeaveOps == <<"standard", "start", "other", "apply", "other">>
LeaveStage ==
  \E k \in 0 .. 5 :
    /\ Len(job.todo) = 5 - k /\ \A i \in 1 .. 5 - k : job.todo[i].op = LeaveOps[i + k]
    /\ k = 0 => OnOrOff /\ job.todo[1].rest /\ ~job.todo[1].must
    /\ k = 1 => Plain
    /\ k >= 2 => Fresh
Standing == IF InNight THEN Lit(ui.shown) \/ Off ELSE Plain

Stage ==
  /\ job.name = "none" => IF ui.gallery THEN Playing ELSE Standing
  /\ job.name \in {"boot", "recover"} => IF InNight THEN ShowStage(files.night) ELSE PlainStage
  /\ job.name = "sleep" =>
       \/ Len(job.todo) = 1 /\ job.todo[1].op = "stop" /\ OnOrOff
       \/ job.todo = <<>> /\ Off
  /\ job.name = "snapshot" /\ ~co.busy =>
       IF InNight THEN ShowStage(ui.shown) ELSE job.todo = <<>> /\ Plain
  /\ job.name = "mode" =>
       CASE job.to = "night" -> ~InNight /\ job.ok /\ NightStage(files.night)
         [] job.to # "night" /\ InNight -> job.ok /\ LeaveStage
         [] OTHER -> PlainStage
  /\ job.name = "pair" =>
       IF ~InNight THEN job.todo \in {<<Must("set", job.to)>>, <<>>} /\ Plain
       ELSE /\ job.to \in NightPairs
            /\ \/ job.todo = <<MustElse("preview", job.to, PreviewAgain)>> /\ job.ok /\ OnOrOff
               \/ job.todo = <<>> /\ job.ok /\ Lit(job.to)
               \/ job.todo \in {PreviewAgain, <<>>} /\ ~job.ok /\ Off
  /\ job.name = "lcd" => InNight /\ ShowStage(ui.shown)
  /\ job.name = "enter" =>
       /\ job.ok /\ ~ui.gallery
       /\ \/ job.todo = <<Must("play", 0)>> /\ (IF InNight THEN OnOrOff ELSE Plain)
          \/ job.todo = <<>> /\ Playing
  /\ job.name = "leave" =>
       /\ job.ok /\ ui.gallery
       /\ \/ job.todo = <<Must("endPlay", 0)>> \o PreviewAgain /\ Playing
          \/ job.todo = PreviewAgain /\ (IF InNight THEN b.camera = "on" ELSE Fresh)
          \/ job.todo = <<>> /\ (IF InNight THEN Lit(ui.shown) ELSE Fresh)
  /\ job.name = "exit" =>
       LET rest == If(InNight, <<May("standard", 0), May("set", ui.shown)>>) IN
       \/ job.todo = <<May("endPlay", 0)>> \o rest /\ Playing
       \/ job.todo = rest /\ (IF InNight THEN OnOrOff ELSE Plain)
       \/ job.todo = <<May("set", ui.shown)>> /\ Plain
       \/ job.todo = <<>> /\ Plain

CaptureStage ==
  /\ b.camera # "playing"
  /\ ~InNight => ~b.transient /\ b.cached = 30
  /\ ~Slow(co.pair) => ~InNight /\ Plain

Unfailed ==
  /\ Sure /\ files.night \in NightPairs
  /\ co.busy => CaptureStage
  /\ IF ui.up THEN ui.mode = files.mode /\ Stage ELSE Plain

ExposureInv ==
  /\ ExposureTypeOK /\ CaptureOutline /\ Awaits /\ ShownInNight
  /\ Calm => Unfailed


-----------------------------------------------------------------------------
(* What the requests do.                                                    *)
LEMMA ValuesOK ==
  /\ \A p \in Pairs : /\ Rate(p) \in {2, 8, 30} /\ Frame(p) \in Pairs
                      /\ PreviewRate(p) \in {0, 4, 8} /\ (Rate(p) = 30 <=> p = "auto")
                      /\ (~Stacked(p) => Frame(p) = p)
  /\ \A p \in NightPairs : p \in Pairs /\ PreviewRate(p) \in {4, 8} /\ Rate(p) # 30
  /\ \A fps \in Rates : Both(fps) \in SensorsType
  BY DEF Pairs, NightPairs, Rate, Frame, PreviewRate, Stacked, Both, SensorsType, Rates

LEMMA HelperOK ==
  ASSUME NEW s \in SensorsType, NEW fps \in Rates, NEW h \in Helper(s, fps)
  PROVE  /\ h.s \in SensorsType /\ h.ok \in BOOLEAN /\ h.cost \in Nat
         /\ h.cost = 0 => h.ok
         /\ h.ok => h.s = Both(fps)
<1>1. Both(fps) \in SensorsType /\ Both(30) \in SensorsType
  BY ValuesOK DEF Rates
<1>2. [s EXCEPT !.internal = fps] \in SensorsType
  BY DEF SensorsType
<1>3. [Both(30) EXCEPT !.streaming = FALSE] \in SensorsType
  BY <1>1 DEF SensorsType
<1> DEFINE x == Both(fps)
           y == Both(30)
           u == [s EXCEPT !.internal = fps]
           v == [Both(30) EXCEPT !.streaming = FALSE]
<1>4. h \in {Sensors(x, TRUE, 0), Sensors(s, FALSE, 1), Sensors(y, FALSE, 1),
             Sensors(u, FALSE, 2), Sensors(x, FALSE, 2), Sensors(v, FALSE, 2)}
  BY DEF Helper
<1> HIDE DEF x, y, u, v
<1>5. /\ h.s \in {x, s, y, u, v} /\ h.ok \in BOOLEAN /\ h.cost \in Nat
      /\ h.cost = 0 => h.ok
      /\ h.ok => h.s = x
  <2>1. CASE h = Sensors(x, TRUE, 0)
    BY <2>1 DEF Sensors
  <2>2. CASE h = Sensors(s, FALSE, 1)
    BY <2>2 DEF Sensors
  <2>3. CASE h = Sensors(y, FALSE, 1)
    BY <2>3 DEF Sensors
  <2>4. CASE h = Sensors(u, FALSE, 2)
    BY <2>4 DEF Sensors
  <2>5. CASE h = Sensors(x, FALSE, 2)
    BY <2>5 DEF Sensors
  <2>6. CASE h = Sensors(v, FALSE, 2)
    BY <2>6 DEF Sensors
  <2> QED BY <1>4, <2>1, <2>2, <2>3, <2>4, <2>5, <2>6
<1> QED BY <1>1, <1>2, <1>3, <1>5 DEF x, y, u, v

(* A well-formed outcome; what the timing leaves alone.                     *)
Typed(o) == o.b \in BackendType /\ o.ok \in BOOLEAN /\ o.cost \in Nat
Besides(x, y) ==
  /\ x.camera = y.camera /\ x.graph = y.graph /\ x.desired = y.desired /\ x.stack = y.stack
  /\ x.transient = y.transient /\ x.cached = y.cached
Timed(x, fps) == x.sensors = Both(fps) /\ x.file = fps

LEMMA TimingOK ==
  ASSUME NEW c \in BackendType, NEW fps \in Rates, NEW t \in Timing(c, fps)
  PROVE  Typed(t) /\ Besides(t.b, c) /\ (t.cost = 0 => t.ok) /\ (t.ok => Timed(t.b, fps))
<1>1. CASE t = Does(c, FALSE, 1)
  BY <1>1 DEF Does, Typed, Besides
<1>2. CASE \E h \in Helper(c.sensors, fps) :
             t = Does([c EXCEPT !.sensors = h.s, !.file = IF h.ok THEN fps ELSE 30], h.ok, h.cost)
  <2>1. PICK h \in Helper(c.sensors, fps) :
             t = Does([c EXCEPT !.sensors = h.s, !.file = IF h.ok THEN fps ELSE 30], h.ok, h.cost)
    BY <1>2
  <2>2. /\ h.s \in SensorsType /\ h.ok \in BOOLEAN /\ h.cost \in Nat
        /\ h.cost = 0 => h.ok
        /\ h.ok => h.s = Both(fps)
    <3>1. c.sensors \in SensorsType
      BY DEF BackendType
    <3> QED BY <3>1, HelperOK
  <2> DEFINE s == h.s
             f == IF h.ok THEN fps ELSE 30
             x == [c EXCEPT !.sensors = s, !.file = f]
  <2>3. s \in SensorsType /\ f \in Rates
    BY <2>2 DEF Rates
  <2>4. h.ok => f = fps
    OBVIOUS
  <2>5. t.b = x /\ t.ok = h.ok /\ t.cost = h.cost
    BY <2>1 DEF Does
  <2> HIDE DEF s, f
  <2>6. x \in BackendType /\ Besides(x, c) /\ x.sensors = s /\ x.file = f
    BY <2>3 DEF BackendType, Besides
  <2> HIDE DEF x
  <2> QED BY <2>2, <2>4, <2>5, <2>6 DEF Typed, Timed, s
<1> QED BY <1>1, <1>2 DEF Timing

LEMMA OwnTimingOK ==
  ASSUME NEW c \in BackendType, NEW fps \in Rates, NEW t \in OwnTiming(c, fps)
  PROVE  Typed(t) /\ Besides(t.b, c) /\ (t.cost = 0 => t.ok) /\ (t.ok => Timed(t.b, fps))
<1>1. PICK h \in Helper(c.sensors, fps) :
           t = Does([c EXCEPT !.sensors = h.s, !.file = fps], h.ok, h.cost)
  BY DEF OwnTiming
<1>2. /\ h.s \in SensorsType /\ h.ok \in BOOLEAN /\ h.cost \in Nat
      /\ h.cost = 0 => h.ok
      /\ h.ok => h.s = Both(fps)
  <2>1. c.sensors \in SensorsType
    BY DEF BackendType
  <2> QED BY <2>1, HelperOK
<1> DEFINE s == h.s
           x == [c EXCEPT !.sensors = s, !.file = fps]
<1>3. s \in SensorsType
  BY <1>2
<1>4. t.b = x /\ t.ok = h.ok /\ t.cost = h.cost
  BY <1>1 DEF Does
<1> HIDE DEF s
<1>5. x \in BackendType /\ Besides(x, c) /\ x.sensors = s /\ x.file = fps
  BY <1>3 DEF BackendType, Besides
<1> HIDE DEF x
<1> QED BY <1>2, <1>4, <1>5 DEF Typed, Timed, s

LEMMA RestoreOK ==
  ASSUME b \in BackendType, NEW o \in Restore
  PROVE  Typed(o) /\ Besides(o.b, b) /\ (o.cost = 0 => o.ok) /\ (o.ok => Timed(o.b, 30))
<1>1. PICK t \in OwnTiming(b, 30) :
           o \in IF t.ok THEN {t}
                 ELSE {Does(u.b, u.ok, t.cost + u.cost) : u \in OwnTiming(t.b, 30)}
  BY DEF Restore
<1>2. Typed(t) /\ Besides(t.b, b) /\ (t.cost = 0 => t.ok) /\ (t.ok => Timed(t.b, 30))
  BY OwnTimingOK DEF Rates
<1>3. CASE t.ok
  <2>1. o = t
    BY <1>1, <1>3
  <2> QED BY <1>2, <2>1
<1>4. CASE ~t.ok
  <2>1. PICK u \in OwnTiming(t.b, 30) : o = Does(u.b, u.ok, t.cost + u.cost)
    BY <1>1, <1>4
  <2>2. Typed(u) /\ Besides(u.b, t.b) /\ (u.cost = 0 => u.ok) /\ (u.ok => Timed(u.b, 30))
    BY <1>2, OwnTimingOK DEF Rates, Typed
  <2>3. o.b = u.b /\ o.ok = u.ok /\ o.cost = t.cost + u.cost
    BY <2>1 DEF Does
  <2> QED BY <1>2, <1>4, <2>2, <2>3 DEF Typed, Besides
<1> QED BY <1>3, <1>4

(* The preview: with a running graph and nothing failing it is as asked.    *)
Attempts(t, fps) ==
  Typed(t) /\ Besides(t.b, b) /\ (t.cost = 0 => t.ok) /\ (t.ok => Timed(t.b, fps))

LEMMA AttemptOK ==
  ASSUME b \in BackendType, NEW fps \in Rates, NEW t \in Attempt(fps)
  PROVE  Attempts(t, fps)
<1>1. \A x \in Timing(b, fps) : Attempts(x, fps)
  BY TimingOK DEF Attempts
<1>2. CASE t \in Timing(b, fps)
  BY <1>1, <1>2
<1>3. CASE \E x \in Timing(b, fps) : t = Does(x.b, FALSE, x.cost + 1)
  <2>1. PICK x \in Timing(b, fps) : t = Does(x.b, FALSE, x.cost + 1)
    BY <1>3
  <2>2. t.b = x.b /\ t.ok = FALSE /\ t.cost = x.cost + 1
    BY <2>1 DEF Does
  <2>3. Attempts(x, fps)
    BY <1>1
  <2>4. t.cost \in Nat /\ t.cost # 0
    BY <2>2, <2>3 DEF Attempts, Typed
  <2> QED BY <2>2, <2>3, <2>4 DEF Attempts, Typed
<1>4. CASE \E x \in Timing(b, fps) : \E u \in Timing(x.b, fps) :
             ~u.ok /\ t = Does(u.b, FALSE, x.cost + u.cost)
  <2>0. PICK x \in Timing(b, fps) : \E u \in Timing(x.b, fps) :
             ~u.ok /\ t = Does(u.b, FALSE, x.cost + u.cost)
    BY <1>4
  <2>1. PICK u \in Timing(x.b, fps) : ~u.ok /\ t = Does(u.b, FALSE, x.cost + u.cost)
    BY <2>0
  <2>2. t.b = u.b /\ t.ok = FALSE /\ t.cost = x.cost + u.cost
    BY <2>1 DEF Does
  <2>3. Attempts(x, fps)
    BY <1>1
  <2>4. Typed(u) /\ Besides(u.b, x.b) /\ (u.cost = 0 => u.ok)
    BY <2>3, TimingOK DEF Attempts, Typed
  <2>5. t.cost \in Nat /\ t.cost # 0
    <3>1. x.cost \in Nat /\ u.cost \in Nat /\ u.cost # 0
      BY <2>1, <2>3, <2>4 DEF Attempts, Typed
    <3>2. \A m, n \in Nat : n # 0 => m + n \in Nat /\ m + n # 0
      OBVIOUS
    <3> QED BY <2>2, <3>1, <3>2
  <2>6. Besides(t.b, b)
    BY <2>2, <2>3, <2>4 DEF Attempts, Besides
  <2> QED BY <2>2, <2>4, <2>5, <2>6 DEF Attempts, Typed
<1>5. CASE fps = 4 /\ b.cached > 4
  <2>1. t \in Timing(b, fps) \cup {Does(x.b, FALSE, x.cost + 1) : x \in {y \in Timing(b, fps) : y.ok}}
             \cup UNION {{Does(u.b, FALSE, x.cost + u.cost) : u \in {z \in Timing(x.b, fps) : ~z.ok}}
                           : x \in {y \in Timing(b, fps) : y.ok}}
    BY <1>5 DEF Attempt
  <2> QED BY <1>2, <1>3, <1>4, <2>1
<1>6. CASE ~(fps = 4 /\ b.cached > 4)
  <2>1. t \in Timing(b, fps) \cup {Does(x.b, FALSE, x.cost + 1) : x \in {y \in Timing(b, fps) : y.ok}}
    BY <1>6 DEF Attempt
  <2> QED BY <1>2, <1>3, <2>1
<1> QED BY <1>5, <1>6

LEMMA NightPreviewOK ==
  ASSUME b \in BackendType, NEW fps \in Rates \cup {0}, NEW o \in NightPreview(fps)
  PROVE  /\ Typed(o) /\ o.b.stack = b.stack
         /\ b.camera # "on" \/ fps = 0 => ~o.ok /\ o.b = b
         /\ o.cost = 0 /\ b.camera = "on" /\ fps # 0 =>
              /\ o.ok /\ o.b.camera = "on" /\ o.b.transient = (fps # 30)
              /\ o.b.cached = fps /\ Timed(o.b, fps)
<1>1. CASE b.camera # "on" \/ fps = 0
  <2>1. o = Does(b, FALSE, 0)
    BY <1>1 DEF NightPreview
  <2> QED BY <1>1, <2>1 DEF Does, Typed
<1>2. CASE b.camera = "on" /\ fps # 0
  <2>1. PICK t \in Attempt(fps) :
             o \in IF t.ok
                   THEN {Does([t.b EXCEPT !.cached = fps, !.transient = fps # 30], TRUE, t.cost)}
                   ELSE {Does(r.b, FALSE, t.cost + r.cost) : r \in Timing(t.b, b.cached)}
    BY <1>2 DEF NightPreview
  <2>2. Attempts(t, fps) /\ fps \in Rates
    BY <1>2, AttemptOK
  <2>3. CASE t.ok
    <3> DEFINE c == t.b
               on == fps # 30
               x == [c EXCEPT !.cached = fps, !.transient = on]
    <3>1. o.b = x /\ o.ok = TRUE /\ o.cost = t.cost
      BY <2>1, <2>3 DEF Does
    <3>2. c \in BackendType /\ on \in BOOLEAN /\ fps \in Rates
      BY <2>2 DEF Attempts, Typed
    <3> HIDE DEF c, on
    <3>3. /\ x \in BackendType /\ x.stack = c.stack /\ x.camera = c.camera /\ x.transient = on
          /\ x.cached = fps /\ x.sensors = c.sensors /\ x.file = c.file
      BY <3>2 DEF BackendType
    <3> HIDE DEF x
    <3>4. o.b.transient = (fps # 30)
      BY <3>1, <3>3 DEF on
    <3>5. /\ Typed(o) /\ o.b.stack = b.stack /\ o.ok /\ o.b.camera = "on"
          /\ o.b.cached = fps /\ Timed(o.b, fps)
      BY <1>2, <2>2, <2>3, <3>1, <3>3 DEF c, Attempts, Typed, Besides, Timed
    <3> QED BY <1>2, <3>4, <3>5
  <2>4. CASE ~t.ok
    <3>1. PICK r \in Timing(t.b, b.cached) : o = Does(r.b, FALSE, t.cost + r.cost)
      BY <2>1, <2>4
    <3>2. o.b = r.b /\ o.ok = FALSE /\ o.cost = t.cost + r.cost
      BY <3>1 DEF Does
    <3>3. t.b \in BackendType /\ b.cached \in Rates
      BY <2>2 DEF Attempts, Typed, BackendType
    <3>4. Typed(r) /\ Besides(r.b, t.b)
      BY <3>3, TimingOK
    <3>5. t.cost \in Nat /\ t.cost # 0 /\ Besides(t.b, b)
      BY <2>2, <2>4 DEF Attempts, Typed
    <3>6. o.cost \in Nat /\ o.cost # 0
      BY <3>2, <3>4, <3>5 DEF Typed
    <3> QED BY <1>2, <3>2, <3>4, <3>5, <3>6 DEF Typed, Besides
  <2> QED BY <2>3, <2>4
<1> QED BY <1>1, <1>2

(* The graph.                                                               *)
LEMMA RunningOK ==
  ASSUME NEW c \in BackendType, NEW g \in Graphs
  PROVE  LET x == Running(c, g)
             y == Running(Forget(c), g)
             z == Forget(c)
         IN  /\ x \in BackendType /\ x.stack = c.stack /\ x.desired = c.desired
             /\ x.camera = "on" /\ ~x.transient /\ x.sensors = Both(30)
             /\ x.cached = c.cached /\ x.file = c.file
             /\ y \in BackendType /\ y.stack = c.stack /\ y.desired = c.desired
             /\ y.camera = "on" /\ ~y.transient /\ y.sensors = Both(30)
             /\ y.cached = 30 /\ y.file = 30
             /\ z \in BackendType /\ z.stack = c.stack /\ z.desired = c.desired
             /\ z.camera = c.camera /\ ~z.transient /\ z.cached = 30 /\ z.file = 30
<1> DEFINE s == Both(30)
<1>1. s \in SensorsType /\ 30 \in Rates
  BY ValuesOK DEF Rates
<1> HIDE DEF s
<1>2. \A d \in BackendType :
        LET x == [d EXCEPT !.camera = "on", !.graph = g, !.sensors = s, !.transient = FALSE]
        IN  /\ x \in BackendType /\ x.stack = d.stack /\ x.desired = d.desired
            /\ x.camera = "on" /\ ~x.transient /\ x.sensors = s
            /\ x.cached = d.cached /\ x.file = d.file
  BY <1>1 DEF BackendType, Cameras
<1>3. \A d \in BackendType :
        LET x == Running(d, g)
        IN  /\ x \in BackendType /\ x.stack = d.stack /\ x.desired = d.desired
            /\ x.camera = "on" /\ ~x.transient /\ x.sensors = s
            /\ x.cached = d.cached /\ x.file = d.file
  BY <1>2 DEF Running, s
<1>4. LET z == Forget(c)
      IN  /\ z \in BackendType /\ z.stack = c.stack /\ z.desired = c.desired
          /\ z.camera = c.camera /\ ~z.transient /\ z.cached = 30 /\ z.file = 30
  BY <1>1 DEF BackendType, Forget
<1> QED BY <1>3, <1>4 DEF s

LEMMA CameraOff ==
  ASSUME NEW c \in BackendType, NEW k \in Cameras
  PROVE  LET x == [c EXCEPT !.camera = k]
         IN  /\ x \in BackendType /\ x.stack = c.stack /\ x.desired = c.desired /\ x.camera = k
             /\ x.transient = c.transient /\ x.cached = c.cached /\ x.file = c.file
             /\ x.sensors = c.sensors /\ x.graph = c.graph
  BY DEF BackendType

LEMMA StartGraphOK ==
  ASSUME b \in BackendType, NEW g \in Graphs, NEW o \in StartGraph(g)
  PROVE  /\ Typed(o) /\ o.b.stack = b.stack /\ o.b.desired = b.desired
         /\ o.cost = 0 /\ b.camera # "playing" =>
              /\ o.ok /\ o.b.camera = "on"
              /\ o.b = b \/ (~o.b.transient /\ o.b.cached = 30 /\ Timed(o.b, 30))
<1>1. CASE b.camera = "on" /\ b.graph = g
  <2>1. o = Does(b, TRUE, 0)
    BY <1>1 DEF StartGraph
  <2> QED BY <1>1, <2>1 DEF Does, Typed
<1>2. CASE b.camera = "playing"
  <2>1. o = Does(b, FALSE, 0)
    BY <1>2 DEF StartGraph
  <2> QED BY <1>2, <2>1 DEF Does, Typed
<1>3. CASE ~(b.camera = "on" /\ b.graph = g) /\ b.camera # "playing"
  <2> DEFINE x == Running(Forget(b), g)
             y == IF b.camera = "on" THEN Running(Forget(b), b.graph) ELSE Forget(b)
             z == [Forget(b) EXCEPT !.camera = "off"]
  <2>1. o \in {Does(x, TRUE, 0), Does(b, FALSE, 1), Does(y, FALSE, 1), Does(z, FALSE, 2)}
    BY <1>3 DEF StartGraph
  <2>2. b.graph \in Graphs
    BY DEF BackendType
  <2>3. /\ x \in BackendType /\ x.stack = b.stack /\ x.desired = b.desired
        /\ x.camera = "on" /\ ~x.transient /\ x.sensors = Both(30)
        /\ x.cached = 30 /\ x.file = 30
    BY RunningOK
  <2>4. y \in BackendType /\ y.stack = b.stack /\ y.desired = b.desired
    BY <2>2, RunningOK
  <2>5. z \in BackendType /\ z.stack = b.stack /\ z.desired = b.desired
    <3> DEFINE f == Forget(b)
    <3>1. f \in BackendType /\ f.stack = b.stack /\ f.desired = b.desired
      BY <2>2, RunningOK
    <3> HIDE DEF f
    <3>2. LET k == [f EXCEPT !.camera = "off"]
          IN  k \in BackendType /\ k.stack = f.stack /\ k.desired = f.desired
      BY <3>1, CameraOff DEF Cameras
    <3> QED BY <3>1, <3>2 DEF f
  <2> HIDE DEF x, y, z
  <2>6. CASE o = Does(x, TRUE, 0)
    BY <1>3, <2>3, <2>6 DEF Does, Typed, Timed
  <2>7. CASE o = Does(b, FALSE, 1)
    BY <2>7 DEF Does, Typed
  <2>8. CASE o = Does(y, FALSE, 1)
    BY <2>4, <2>8 DEF Does, Typed
  <2>9. CASE o = Does(z, FALSE, 2)
    BY <2>5, <2>9 DEF Does, Typed
  <2> QED BY <2>1, <2>6, <2>7, <2>8, <2>9
<1> QED BY <1>1, <1>2, <1>3

LEMMA StopGraphOK ==
  ASSUME b \in BackendType, NEW o \in StopGraph
  PROVE  /\ Typed(o) /\ o.b.stack = b.stack /\ o.b.desired = b.desired
         /\ o.cost = 0 /\ b.camera # "playing" =>
              o.ok /\ o.b.camera = "off" /\ ~o.b.transient /\ o.b.cached = 30 /\ o.b.file = 30
<1> DEFINE z == [Forget(b) EXCEPT !.camera = "off"]
<1>1. /\ z \in BackendType /\ z.stack = b.stack /\ z.desired = b.desired /\ z.camera = "off"
      /\ ~z.transient /\ z.cached = 30 /\ z.file = 30
  <2> DEFINE f == Forget(b)
  <2>1. b.graph \in Graphs
    BY DEF BackendType
  <2>2. /\ f \in BackendType /\ f.stack = b.stack /\ f.desired = b.desired
        /\ ~f.transient /\ f.cached = 30 /\ f.file = 30
    BY <2>1, RunningOK
  <2> HIDE DEF f
  <2>3. LET k == [f EXCEPT !.camera = "off"]
        IN  /\ k \in BackendType /\ k.stack = f.stack /\ k.desired = f.desired /\ k.camera = "off"
            /\ ~k.transient /\ k.cached = 30 /\ k.file = 30
    BY <2>2, CameraOff DEF Cameras
  <2> QED BY <2>2, <2>3 DEF f
<1>2. \/ o = Does(b, FALSE, 0) /\ b.camera = "playing"
      \/ o = Does(z, TRUE, 0) \/ o = Does(b, FALSE, 1)
  BY DEF StopGraph
<1> HIDE DEF z
<1>3. CASE o = Does(b, FALSE, 0) /\ b.camera = "playing"
  BY <1>3 DEF Does, Typed
<1>4. CASE o = Does(z, TRUE, 0)
  BY <1>1, <1>4 DEF Does, Typed
<1>5. CASE o = Does(b, FALSE, 1)
  BY <1>5 DEF Does, Typed
<1> QED BY <1>2, <1>3, <1>4, <1>5

LEMMA GalleryOK ==
  ASSUME b \in BackendType
  PROVE  /\ \A o \in Playback :
              /\ Typed(o) /\ o.b.stack = b.stack /\ o.b.desired = b.desired
              /\ o.cost = 0 /\ b.camera # "playing" =>
                   o.ok /\ o.b.camera = "playing" /\ o.b.cached = b.cached /\ o.b.file = b.file
         /\ \A o \in EndPlayback :
              /\ Typed(o) /\ o.b.stack = b.stack /\ o.b.desired = b.desired
              /\ o.cost = 0 => /\ o.ok /\ o.b.camera = "on" /\ ~o.b.transient
                               /\ o.b.sensors = Both(30)
                               /\ o.b.cached = b.cached /\ o.b.file = b.file
<1>1. b.graph \in Graphs
  BY DEF BackendType
<1>2. ASSUME NEW o \in Playback
      PROVE  /\ Typed(o) /\ o.b.stack = b.stack /\ o.b.desired = b.desired
             /\ o.cost = 0 /\ b.camera # "playing" =>
                   o.ok /\ o.b.camera = "playing" /\ o.b.cached = b.cached /\ o.b.file = b.file
  <2> DEFINE x == [b EXCEPT !.camera = "playing"]
  <2>1. /\ x \in BackendType /\ x.stack = b.stack /\ x.desired = b.desired
        /\ x.camera = "playing" /\ x.cached = b.cached /\ x.file = b.file
    BY CameraOff DEF Cameras
  <2>2. \/ o = Does(b, FALSE, 0) /\ b.camera = "playing"
        \/ o = Does(x, TRUE, 0) \/ o = Does(b, FALSE, 1)
    BY DEF Playback
  <2> HIDE DEF x
  <2>3. CASE o = Does(b, FALSE, 0) /\ b.camera = "playing"
    BY <2>3 DEF Does, Typed
  <2>4. CASE o = Does(x, TRUE, 0)
    BY <2>1, <2>4 DEF Does, Typed
  <2>5. CASE o = Does(b, FALSE, 1)
    BY <2>5 DEF Does, Typed
  <2> QED BY <2>2, <2>3, <2>4, <2>5
<1>3. ASSUME NEW o \in EndPlayback
      PROVE  /\ Typed(o) /\ o.b.stack = b.stack /\ o.b.desired = b.desired
             /\ o.cost = 0 => /\ o.ok /\ o.b.camera = "on" /\ ~o.b.transient
                              /\ o.b.sensors = Both(30)
                              /\ o.b.cached = b.cached /\ o.b.file = b.file
  <2> DEFINE x == Running(b, b.graph)
             y == [b EXCEPT !.camera = "off"]
  <2>1. /\ x \in BackendType /\ x.stack = b.stack /\ x.desired = b.desired
        /\ x.camera = "on" /\ ~x.transient /\ x.sensors = Both(30)
        /\ x.cached = b.cached /\ x.file = b.file
    BY <1>1, RunningOK
  <2>2. y \in BackendType /\ y.stack = b.stack /\ y.desired = b.desired
    BY CameraOff DEF Cameras
  <2>3. o = Does(x, TRUE, 0) \/ o = Does(y, FALSE, 1)
    BY DEF EndPlayback
  <2> HIDE DEF x, y
  <2>4. CASE o = Does(x, TRUE, 0)
    BY <2>1, <2>4 DEF Does, Typed
  <2>5. CASE o = Does(y, FALSE, 1)
    BY <2>2, <2>5 DEF Does, Typed
  <2> QED BY <2>3, <2>4, <2>5
<1> QED BY <1>2, <1>3

LEMMA SetPairOK ==
  ASSUME b \in BackendType, NEW p \in Pairs, NEW o \in SetPair(p)
  PROVE  /\ Typed(o) /\ o.b.stack = b.stack /\ o.b.camera = b.camera
         /\ o.b.cached = b.cached /\ o.b.file = b.file /\ o.b.sensors = b.sensors
         /\ o.b.transient => b.transient
         /\ o.ok => o.b.desired = p /\ b.camera = "on" /\ ~o.b.transient
         /\ o.cost = 0 => (o.ok <=> b.camera = "on")
<1> DEFINE x == Accepted(p)
<1>1. /\ x \in BackendType /\ x.stack = b.stack /\ x.camera = b.camera
      /\ x.cached = b.cached /\ x.file = b.file /\ x.sensors = b.sensors
      /\ ~x.transient /\ x.desired = p
  BY DEF Accepted, BackendType
<1>2. \/ o = Does(b, FALSE, 0) /\ b.camera # "on"
      \/ b.camera = "on" /\ (o = Does(x, TRUE, 0) \/ o = Does(b, FALSE, 1) \/ o = Does(x, FALSE, 1))
  BY DEF SetPair
<1> HIDE DEF x
<1>3. CASE o = Does(b, FALSE, 0) /\ b.camera # "on"
  BY <1>3 DEF Does, Typed
<1>4. CASE b.camera = "on" /\ o = Does(x, TRUE, 0)
  BY <1>1, <1>4 DEF Does, Typed
<1>5. CASE b.camera = "on" /\ o = Does(b, FALSE, 1)
  BY <1>5 DEF Does, Typed
<1>6. CASE b.camera = "on" /\ o = Does(x, FALSE, 1)
  BY <1>1, <1>6 DEF Does, Typed
<1> QED BY <1>2, <1>3, <1>4, <1>5, <1>6

(* A photo served is one of an accepted pair.                               *)
LEMMA SnapshotOK ==
  ASSUME b \in BackendType, NEW o \in Snapshot
  PROVE  /\ Typed(o) /\ o.b.desired = b.desired
         /\ o.b.stack = "none" \/ (o.b.stack = b.stack /\ ~o.ok)
         /\ o.cost = 0 =>
              /\ o.b.camera = b.camera /\ o.b.cached = b.cached /\ o.b.file = b.file
              /\ o.b.transient => b.transient
              /\ o.b.sensors = b.sensors \/ o.b.sensors = Both(30)
<1> DEFINE after == [b EXCEPT !.stack = "none"]
           x == Running(after, b.graph)
           y == [after EXCEPT !.camera = "off"]
<1>1. /\ after \in BackendType /\ after.stack = "none" /\ after.desired = b.desired
      /\ after.camera = b.camera /\ after.transient = b.transient /\ after.cached = b.cached
      /\ after.file = b.file /\ after.sensors = b.sensors /\ b.graph \in Graphs
  BY DEF BackendType
<1> HIDE DEF after
<1>2. /\ x \in BackendType /\ x.stack = "none" /\ x.desired = b.desired
      /\ x.camera = "on" /\ ~x.transient /\ x.sensors = Both(30)
      /\ x.cached = b.cached /\ x.file = b.file
  BY <1>1, RunningOK
<1>3. y \in BackendType /\ y.stack = "none" /\ y.desired = b.desired
  BY <1>1, CameraOff DEF Cameras
<1>4. \/ o = Does(b, FALSE, 0)
      \/ o = Does(after, FALSE, 1) \/ o = Does(after, FALSE, 0) \/ o = Does(after, TRUE, 0)
      \/ b.camera = "on" /\ o = Does(x, TRUE, 0)
      \/ o = Does(y, FALSE, 1)
  BY DEF Snapshot, Taken, after
<1> HIDE DEF x, y
<1>5. CASE o = Does(b, FALSE, 0)
  BY <1>5 DEF Does, Typed
<1>6. CASE o = Does(after, FALSE, 1)
  BY <1>1, <1>6 DEF Does, Typed
<1>7. CASE o = Does(after, FALSE, 0)
  BY <1>1, <1>7 DEF Does, Typed
<1>8. CASE o = Does(after, TRUE, 0)
  BY <1>1, <1>8 DEF Does, Typed
<1>9. CASE b.camera = "on" /\ o = Does(x, TRUE, 0)
  BY <1>2, <1>9 DEF Does, Typed
<1>10. CASE o = Does(y, FALSE, 1)
  BY <1>3, <1>10 DEF Does, Typed
<1> QED BY <1>4, <1>5, <1>6, <1>7, <1>8, <1>9, <1>10

LEMMA ShownOK ==
  ASSUME ui \in UiType, b \in BackendType, NEW kept \in FilesType, NEW mode
  PROVE  ShownOf(kept, mode) \in Pairs
  BY DEF UiType, BackendType, FilesType, ShownOf, ReadPair

LEMMA AsItIs ==
  ASSUME b \in BackendType, NEW o \in {Does(b, TRUE, 0), Does(b, FALSE, 1)}
  PROVE  Typed(o) /\ o.b = b /\ (o.cost = 0 => o.ok)
<1>1. CASE o = Does(b, TRUE, 0)
  BY <1>1 DEF Does, Typed
<1>2. CASE o = Does(b, FALSE, 1)
  BY <1>2 DEF Does, Typed
<1> QED BY <1>1, <1>2

(* A request of the UI, however it ends.                                    *)
AllOps == SetUpOps \cup ShowOps
LEMMA UiOutcomeOK ==
  ASSUME files \in FilesType, ui \in UiType, b \in BackendType,
         NEW r, r.op \in AllOps,
         r.op \in {"set", "apply", "preview"} => r.arg \in Pairs,
         r.op = "start" => r.arg \in Graphs,
         NEW o \in Outcomes(r)
  PROVE  Typed(o) /\ o.b.stack = b.stack
<1>1. CASE r.op = "preview"
  <2>1. o \in NightPreview(PreviewRate(r.arg)) /\ PreviewRate(r.arg) \in Rates \cup {0}
    BY <1>1, ValuesOK DEF Outcomes, Rates
  <2> QED BY <2>1, NightPreviewOK
<1>2. CASE r.op = "standard"
  <2>1. o \in NightPreview(30) /\ 30 \in Rates \cup {0}
    BY <1>2 DEF Outcomes, Rates
  <2> QED BY <2>1, NightPreviewOK
<1>3. CASE r.op = "start"
  <2>1. o \in StartGraph(r.arg)
    BY <1>3 DEF Outcomes
  <2> QED BY <1>3, <2>1, StartGraphOK
<1>4. CASE r.op = "stop"
  <2>1. o \in StopGraph
    BY <1>4 DEF Outcomes
  <2> QED BY <2>1, StopGraphOK
<1>5. CASE r.op = "play"
  <2>1. o \in Playback
    BY <1>5 DEF Outcomes
  <2> QED BY <2>1, GalleryOK
<1>6. CASE r.op = "endPlay"
  <2>1. o \in EndPlayback
    BY <1>6 DEF Outcomes
  <2> QED BY <2>1, GalleryOK
<1>7. CASE r.op \in {"set", "apply"}
  <2>1. o \in SetPair(r.arg)
    BY <1>7 DEF Outcomes
  <2> QED BY <1>7, <2>1, SetPairOK
<1>8. CASE r.op = "sync"
  <2>1. o \in IF ui.mode = "night" THEN {Does(b, TRUE, 0), Does(b, FALSE, 1)} ELSE SetPair(Shown("photo"))
    BY <1>8 DEF Outcomes
  <2>2. Shown("photo") \in Pairs
    BY ShownOK DEF Shown
  <2>3. CASE o \in {Does(b, TRUE, 0), Does(b, FALSE, 1)}
    BY <2>3, AsItIs
  <2>4. CASE o \in SetPair(Shown("photo"))
    BY <2>2, <2>4, SetPairOK
  <2> QED BY <2>1, <2>3, <2>4
<1>9. CASE r.op = "other"
  <2>1. o \in {Does(b, TRUE, 0), Does(b, FALSE, 1)}
    BY <1>9 DEF Outcomes
  <2> QED BY <2>1, AsItIs
<1> QED BY <1>1, <1>2, <1>3, <1>4, <1>5, <1>6, <1>7, <1>8, <1>9 DEF AllOps, SetUpOps, ShowOps

-----------------------------------------------------------------------------
(* Lists of requests: what is first, what is left, what follows a failure.  *)
LEMMA AskedFirst ==
  ASSUME NEW ops, NEW s \in AskedList(ops), s # <<>>
  PROVE  /\ Head(s).op \in ops
         /\ Head(s).op \in {"set", "apply", "preview"} => Head(s).arg \in Pairs
         /\ Head(s).op = "start" => Head(s).arg \in Graphs
         /\ Head(s).must \in BOOLEAN /\ Head(s).rest \in BOOLEAN
         /\ Tail(s) \in AskedList(ops) /\ Head(s).instead \in AskedList(ops)
<1> DEFINE Flat == Asked(ops, {<<>>})
           Full == Asked(ops, Seq(Flat))
<1>1. Head(s) \in Full /\ Tail(s) \in Seq(Full)
  <2>1. s \in Seq(Full)
    BY DEF AskedList
  <2> HIDE DEF Full
  <2> QED BY <2>1
<1>2. Flat \subseteq Full
  <2>1. <<>> \in Seq(Flat)
    OBVIOUS
  <2> DEFINE L == Seq(Flat)
  <2> HIDE DEF L
  <2>2. ASSUME <<>> \in L
        PROVE  Asked(ops, {<<>>}) \subseteq Asked(ops, L)
    BY <2>2 DEF Asked
  <2> QED BY <2>1, <2>2 DEF L
<1>3. Head(s).instead \in Seq(Flat)
  BY <1>1 DEF Asked
<1>4. Head(s).instead \in Seq(Full)
  <2> HIDE DEF Flat, Full
  <2> QED BY <1>2, <1>3
<1> QED BY <1>1, <1>4 DEF Asked, AskedList

LEMMA AskedFrom ==
  ASSUME NEW ops
  PROVE  /\ <<>> \in AskedList(ops)
         /\ \A r \in Asked(ops, Seq(Asked(ops, {<<>>}))) : <<r>> \in AskedList(ops)
         /\ \A s, t \in AskedList(ops) : s \o t \in AskedList(ops)
         /\ \A s \in AskedList(ops) : \A c : If(c, s) \in AskedList(ops)
<1> DEFINE Full == Asked(ops, Seq(Asked(ops, {<<>>})))
<1> HIDE DEF Full
<1>1. <<>> \in Seq(Full) /\ (\A r \in Full : <<r>> \in Seq(Full))
      /\ (\A s, t \in Seq(Full) : s \o t \in Seq(Full))
  OBVIOUS
<1> QED BY <1>1 DEF AskedList, If, Full

(* A request with nothing, or with such requests, to do instead.            *)
LEMMA AskedOne ==
  ASSUME NEW ops, NEW op \in ops, NEW arg \in Args, NEW must \in BOOLEAN, NEW rest \in BOOLEAN,
         op \in {"set", "apply", "preview"} => arg \in Pairs,
         op = "start" => arg \in Graphs,
         NEW instead \in Seq(Asked(ops, {<<>>}))
  PROVE  /\ Request(op, arg, must, rest, instead) \in Asked(ops, Seq(Asked(ops, {<<>>})))
         /\ Request(op, arg, must, rest, <<>>) \in Asked(ops, Seq(Asked(ops, {<<>>})))
         /\ Request(op, arg, must, rest, <<>>) \in Asked(ops, {<<>>})
<1>1. \A L : \A i \in L : Request(op, arg, must, rest, i) \in Asked(ops, L)
  BY DEF Request, Asked
<1>2. <<>> \in Seq(Asked(ops, {<<>>})) /\ <<>> \in {<<>>}
  OBVIOUS
<1> QED BY <1>1, <1>2

LEMMA JobAfter ==
  ASSUME job = [name |-> job.name, to |-> job.to, ok |-> job.ok, todo |-> job.todo],
         NEW r, NEW ok
  PROVE  After(job, r, ok) =
           [name |-> job.name, to |-> job.to, ok |-> job.ok /\ (ok \/ ~r.must),
            todo |-> IF ok \/ r.rest THEN Tail(job.todo) ELSE r.instead]
<1> DEFINE n == job.name
           t == job.to
           k == job.ok
           l == job.todo
           k2 == k /\ (ok \/ ~r.must)
           l2 == IF ok \/ r.rest THEN Tail(l) ELSE r.instead
<1>1. job = [name |-> n, to |-> t, ok |-> k, todo |-> l]
  OBVIOUS
<1>2. After(job, r, ok) = [job EXCEPT !.ok = k2, !.todo = l2]
  BY DEF After
<1> HIDE DEF n, t, k, l, k2, l2
<1>3. After(job, r, ok) = [name |-> n, to |-> t, ok |-> k2, todo |-> l2]
  BY <1>1, <1>2
<1> QED BY <1>3 DEF n, t, k, l, k2, l2

LEMMA CoAfter ==
  ASSUME CoOK, NEW r, NEW ok
  PROVE  After(co, r, ok) =
           [busy |-> co.busy, todo |-> IF ok \/ r.rest THEN Tail(co.todo) ELSE r.instead,
            ok |-> co.ok /\ (ok \/ ~r.must), pair |-> co.pair, asked |-> co.asked,
            mode |-> co.mode, orphan |-> co.orphan]
<1> DEFINE u == co.busy
           l == co.todo
           k == co.ok
           p == co.pair
           a == co.asked
           m == co.mode
           o == co.orphan
           k2 == k /\ (ok \/ ~r.must)
           l2 == IF ok \/ r.rest THEN Tail(l) ELSE r.instead
<1>1. co = [busy |-> u, todo |-> l, ok |-> k, pair |-> p, asked |-> a, mode |-> m, orphan |-> o]
  BY DEF CoOK
<1>2. After(co, r, ok) = [co EXCEPT !.ok = k2, !.todo = l2]
  BY DEF After
<1> HIDE DEF u, l, k, p, a, m, o, k2, l2
<1>3. After(co, r, ok) =
        [busy |-> u, todo |-> l2, ok |-> k2, pair |-> p, asked |-> a, mode |-> m, orphan |-> o]
  BY <1>1, <1>2
<1> QED BY <1>3 DEF u, l, k, p, a, m, o, k2, l2

(* A step of the UI's list.                                                 *)
Proceeds(r, o) ==
  /\ job' = [name |-> job.name, to |-> job.to, ok |-> job.ok /\ (o.ok \/ ~r.must),
             todo |-> IF o.ok \/ r.rest THEN Tail(job.todo) ELSE r.instead]
  /\ b' = o.b /\ faults' = faults + o.cost
  /\ ui' = CASE r.op = "apply" /\ o.ok -> [ui EXCEPT !.shown = r.arg]
             [] r.op = "sync" /\ (InNight \/ o.ok) -> [ui EXCEPT !.shown = Shown(ui.mode)]
             [] OTHER -> ui

LEMMA UiProceeds ==
  ASSUME ExposureTypeOK, UiStep
  PROVE  \E r, o : /\ r = Head(job.todo) /\ o \in Outcomes(r) /\ Proceeds(r, o)
                   /\ Typed(o) /\ o.b.stack = b.stack
                   /\ r.op \in AllOps /\ r.must \in BOOLEAN /\ r.rest \in BOOLEAN
                   /\ r.op \in {"set", "apply", "preview"} => r.arg \in Pairs
                   /\ r.op = "start" => r.arg \in Graphs
                   /\ job.name \in SetUpJobs => r.op \in SetUpOps
                   /\ job.name \in ShowJobs => r.op \in ShowOps
<1>1. job.todo # <<>> /\ job = [name |-> job.name, to |-> job.to, ok |-> job.ok, todo |-> job.todo]
  BY DEF UiStep, ExposureTypeOK, JobOK
<1> DEFINE r == Head(job.todo)
<1>2. PICK o \in Outcomes(r) :
           /\ Spend(o.cost) /\ b' = o.b /\ job' = After(job, r, o.ok)
           /\ ui' = CASE r.op = "apply" /\ o.ok -> [ui EXCEPT !.shown = r.arg]
                      [] r.op = "sync" /\ (InNight \/ o.ok) -> [ui EXCEPT !.shown = Shown(ui.mode)]
                      [] OTHER -> ui
  BY DEF UiStep
<1>3. /\ r.must \in BOOLEAN /\ r.rest \in BOOLEAN
      /\ r.op \in {"set", "apply", "preview"} => r.arg \in Pairs
      /\ r.op = "start" => r.arg \in Graphs
      /\ \/ job.name \in SetUpJobs /\ r.op \in SetUpOps
         \/ job.name \in ShowJobs /\ r.op \in ShowOps
  BY <1>1, AskedFirst DEF ExposureTypeOK, JobOK
<1>4. job.name \in SetUpJobs => job.name \notin ShowJobs
  BY DEF SetUpJobs, ShowJobs
<1>5. Proceeds(r, o)
  BY <1>1, <1>2, JobAfter DEF Proceeds, Spend
<1> HIDE DEF r
<1>6. Typed(o) /\ o.b.stack = b.stack
  BY <1>2, <1>3, UiOutcomeOK DEF ExposureTypeOK, AllOps
<1> QED BY <1>2, <1>3, <1>4, <1>5, <1>6 DEF AllOps, r

-----------------------------------------------------------------------------
(* The jobs are made of such requests.                                      *)
FlatList(ops) == Seq(Asked(ops, {<<>>}))
LEMMA FlatFrom ==
  ASSUME NEW ops
  PROVE  /\ <<>> \in FlatList(ops)
         /\ \A r \in Asked(ops, {<<>>}) : <<r>> \in FlatList(ops)
         /\ \A s, t \in FlatList(ops) : s \o t \in FlatList(ops)
         /\ \A s \in FlatList(ops) : \A c : If(c, s) \in FlatList(ops)
         /\ FlatList(ops) \subseteq AskedList(ops)
<1> DEFINE Flat == Asked(ops, {<<>>})
           Full == Asked(ops, Seq(Flat))
<1>1. Flat \subseteq Full
  <2>1. <<>> \in Seq(Flat)
    OBVIOUS
  <2> DEFINE L == Seq(Flat)
  <2> HIDE DEF L
  <2>2. ASSUME <<>> \in L
        PROVE  Asked(ops, {<<>>}) \subseteq Asked(ops, L)
    BY <2>2 DEF Asked
  <2> QED BY <2>1, <2>2 DEF L
<1> HIDE DEF Flat, Full
<1>2. /\ <<>> \in Seq(Flat) /\ (\A r \in Flat : <<r>> \in Seq(Flat))
      /\ (\A s, t \in Seq(Flat) : s \o t \in Seq(Flat)) /\ Seq(Flat) \subseteq Seq(Full)
  BY <1>1
<1> QED BY <1>2 DEF FlatList, AskedList, If, Flat, Full

LEMMA FlatOne ==
  ASSUME NEW ops, NEW op \in ops, NEW arg \in Args,
         op \in {"set", "apply", "preview"} => arg \in Pairs,
         op = "start" => arg \in Graphs
  PROVE  /\ <<Must(op, arg)>> \in FlatList(ops) /\ <<May(op, arg)>> \in FlatList(ops)
         /\ <<Note(op, arg)>> \in FlatList(ops)
         /\ Must(op, arg) \in Asked(ops, {<<>>}) /\ May(op, arg) \in Asked(ops, {<<>>})
         /\ Note(op, arg) \in Asked(ops, {<<>>})
         /\ \A s \in FlatList(ops) : /\ <<MustElse(op, arg, s)>> \in AskedList(ops)
                                     /\ <<OrElse(op, arg, s)>> \in AskedList(ops)
<1>1. /\ Must(op, arg) \in Asked(ops, {<<>>}) /\ May(op, arg) \in Asked(ops, {<<>>})
      /\ Note(op, arg) \in Asked(ops, {<<>>})
      /\ \A s \in FlatList(ops) : /\ MustElse(op, arg, s) \in Asked(ops, Seq(Asked(ops, {<<>>})))
                                  /\ OrElse(op, arg, s) \in Asked(ops, Seq(Asked(ops, {<<>>})))
  BY AskedOne, FlatFrom DEF Must, May, Note, MustElse, OrElse, FlatList
<1> QED BY <1>1, FlatFrom, AskedFrom

LEMMA ArgsOK ==
  /\ 0 \in Args /\ Pairs \subseteq Args /\ Graphs \subseteq Args
  /\ "pic" \in Graphs /\ \A mode : GraphOf(mode) \in Graphs
  BY DEF Args, GraphOf, Graphs

LEMMA PreviewAgainOK ==
  ASSUME ui \in UiType, NEW ops, "preview" \in ops
  PROVE  PreviewAgain \in FlatList(ops) /\ PreviewAgain \in AskedList(ops)
<1>1. ui.shown \in Pairs /\ ui.shown \in Args
  BY ArgsOK DEF UiType
<1>2. <<May("preview", ui.shown)>> \in FlatList(ops)
  BY <1>1, FlatOne
<1> QED BY <1>2, FlatFrom DEF PreviewAgain

LEMMA PairsOK ==
  /\ \A mode : Allowed(mode) \subseteq Pairs
  /\ \A kept \in FilesType : \A mode : Load(kept, mode) \in Pairs
  BY DEF Allowed, NightPairs, PhotoPairs, Pairs, Load, FilesType, Kind

LEMMA PrimaryGraphOK ==
  ASSUME files \in FilesType, NEW ops, PlainOps \subseteq ops, InNight => "preview" \in ops
  PROVE  PrimaryGraph \in FlatList(ops)
<1> DEFINE g == GraphOf(ui.mode)
           n == files.night
<1>1. g \in Graphs /\ g \in Args /\ n \in Pairs /\ n \in Args /\ 0 \in Args
  BY ArgsOK DEF FilesType
<1> HIDE DEF g, n
<1>2. <<Must("start", g)>> \in FlatList(ops)
  BY <1>1, FlatOne DEF PlainOps
<1>3. <<Must("other", 0)>> \in FlatList(ops)
  BY <1>1, FlatOne DEF PlainOps
<1>4. <<Must("sync", 0)>> \in FlatList(ops)
  BY <1>1, FlatOne DEF PlainOps
<1>5. If(InNight, <<Must("preview", n)>>) \in FlatList(ops)
  <2>1. CASE InNight
    <3>1. <<Must("preview", n)>> \in FlatList(ops)
      BY <1>1, <2>1, FlatOne
    <3> QED BY <3>1, FlatFrom
  <2>2. CASE ~InNight
    BY <2>2, FlatFrom DEF If
  <2> QED BY <2>1, <2>2
<1>6. /\ Must("start", g) \in Asked(ops, {<<>>}) /\ Must("other", 0) \in Asked(ops, {<<>>})
      /\ Must("sync", 0) \in Asked(ops, {<<>>})
  <2>1. Must("start", g) \in Asked(ops, {<<>>})
    BY <1>1, FlatOne DEF PlainOps
  <2>2. Must("other", 0) \in Asked(ops, {<<>>})
    BY <1>1, FlatOne DEF PlainOps
  <2>3. Must("sync", 0) \in Asked(ops, {<<>>})
    BY <1>1, FlatOne DEF PlainOps
  <2> QED BY <2>1, <2>2, <2>3
<1>7. <<Must("start", g), Must("other", 0), Must("sync", 0), Must("other", 0)>> \in FlatList(ops)
  BY <1>6 DEF FlatList
<1>8. PrimaryGraph = <<Must("start", g), Must("other", 0), Must("sync", 0), Must("other", 0)>>
                     \o If(InNight, <<Must("preview", n)>>)
  BY DEF PrimaryGraph, g, n
<1> QED BY <1>5, <1>7, <1>8, FlatFrom

LEMMA BootListOK ==
  ASSUME files \in FilesType, NEW ops, PlainOps \subseteq ops,
         files.mode = "night" => {"apply", "preview"} \subseteq ops
  PROVE  <<MustElse("start", GraphOf(files.mode), <<>>), Note("other", 0)>>
         \o (IF files.mode = "night"
             THEN <<Must("sync", 0), Must("apply", files.night), Must("preview", files.night)>>
             ELSE <<May("sync", 0)>>) \in FlatList(ops)
<1> DEFINE g == GraphOf(files.mode)
           n == files.night
           F == Asked(ops, {<<>>})
<1>1. g \in Graphs /\ g \in Args /\ n \in Pairs /\ n \in Args /\ 0 \in Args
  BY ArgsOK DEF FilesType
<1> HIDE DEF g, n, F
<1>2. Must("start", g) \in F
  BY <1>1, FlatOne DEF PlainOps, F
<1>3. Note("other", 0) \in F
  BY <1>1, FlatOne DEF PlainOps, F
<1>4. Must("sync", 0) \in F /\ May("sync", 0) \in F
  BY <1>1, FlatOne DEF PlainOps, F
<1>5. files.mode = "night" => Must("apply", n) \in F
  BY <1>1, FlatOne DEF F
<1>6. files.mode = "night" => Must("preview", n) \in F
  BY <1>1, FlatOne DEF F
<1>7. MustElse("start", g, <<>>) = Must("start", g)
  BY DEF MustElse, Must
<1>8. /\ <<Must("start", g), Note("other", 0)>> \in Seq(F)
      /\ files.mode = "night" => <<Must("sync", 0), Must("apply", n), Must("preview", n)>> \in Seq(F)
      /\ <<May("sync", 0)>> \in Seq(F)
  BY <1>2, <1>3, <1>4, <1>5, <1>6
<1>9. \A s, t \in Seq(F) : s \o t \in Seq(F)
  OBVIOUS
<1> QED BY <1>7, <1>8, <1>9 DEF FlatList, F, g, n

LEMMA UndoModeOK ==
  ASSUME ui \in UiType, NEW dep \in Pairs, NEW night,
         NEW ops, PlainOps \subseteq ops, night => {"apply", "preview"} \subseteq ops
  PROVE  UndoMode(dep, night) \in FlatList(ops)
<1> DEFINE g == GraphOf(ui.mode)
<1>1. g \in Graphs /\ g \in Args /\ dep \in Args /\ 0 \in Args
  BY ArgsOK
<1> HIDE DEF g
<1>2. <<May("start", g)>> \in FlatList(ops)
  BY <1>1, FlatOne DEF PlainOps
<1>3. night => <<May("apply", dep)>> \in FlatList(ops)
  BY <1>1, FlatOne
<1>4. night => If(InNight, <<May("preview", dep)>>) \in FlatList(ops)
  <2>1. night => <<May("preview", dep)>> \in FlatList(ops)
    BY <1>1, FlatOne
  <2> QED BY <2>1, FlatFrom
<1>5. <<May("sync", 0)>> \in FlatList(ops)
  BY <1>1, FlatOne DEF PlainOps
<1>6. night => <<May("apply", dep)>> \o If(InNight, <<May("preview", dep)>>) \in FlatList(ops)
  BY <1>3, <1>4, FlatFrom
<1>7. CASE night
  <2>1. UndoMode(dep, night) =
          <<May("start", g)>> \o (<<May("apply", dep)>> \o If(InNight, <<May("preview", dep)>>))
    BY <1>7 DEF UndoMode, g
  <2> QED BY <1>2, <1>6, <1>7, <2>1, FlatFrom
<1>8. CASE ~night
  <2>1. UndoMode(dep, night) = <<May("start", g)>> \o <<May("sync", 0)>>
    BY <1>8 DEF UndoMode, g
  <2> QED BY <1>2, <1>5, <2>1, FlatFrom
<1> QED BY <1>7, <1>8

LEMMA ModeRequestsOK ==
  ASSUME ui \in UiType, NEW sel, NEW target \in Pairs, NEW dep \in Pairs,
         NEW ops, PlainOps \subseteq ops, InNight \/ sel = "night" => SetUpOps \subseteq ops
  PROVE  ModeRequests(sel, target, dep) \in AskedList(ops)
<1> DEFINE night == InNight \/ sel = "night"
           undo  == UndoMode(dep, night)
           g == GraphOf(sel)
           again == IF sel = "night" THEN undo ELSE PreviewAgain
           A == AskedList(ops)
           s1 == If(InNight, LeaveNight)
           s2 == If(sel = "night", <<MustElse("stop", 0, PreviewAgain)>>)
           s3 == <<MustElse("start", g, again)>>
           s4 == <<MustElse("other", 0, undo)>>
           s5 == <<IF night THEN MustElse("apply", target, undo) ELSE MustElse("sync", 0, undo)>>
           s6 == If(sel = "night", <<MustElse("preview", target, undo)>>)
           s7 == <<MustElse("other", 0, undo), IF night THEN MustElse("apply", target, undo)
                                                       ELSE MustElse("sync", 0, undo)>>
<1>1. undo \in FlatList(ops) /\ PreviewAgain \in FlatList(ops)
  <2>1. undo \in FlatList(ops)
    BY UndoModeOK DEF SetUpOps
  <2>2. CASE InNight
    BY <2>1, <2>2, PreviewAgainOK DEF SetUpOps
  <2>3. CASE ~InNight
    BY <2>1, <2>3, FlatFrom DEF PreviewAgain, If
  <2> QED BY <2>2, <2>3
<1>2. again \in FlatList(ops)
  BY <1>1
<1>3. g \in Graphs /\ g \in Args /\ target \in Args /\ 0 \in Args
  BY ArgsOK
<1>4. s1 \in A
  <2>1. CASE InNight
    <3>1. LeaveNight \in FlatList(ops)
      BY <1>3, <2>1, FlatOne DEF LeaveNight, SetUpOps
    <3> QED BY <3>1, FlatFrom
  <2>2. CASE ~InNight
    BY <2>2, AskedFrom DEF If
  <2> QED BY <2>1, <2>2
<1> HIDE DEF undo, g, again, night
<1>5. s2 \in A
  <2>1. CASE sel = "night"
    <3>1. <<MustElse("stop", 0, PreviewAgain)>> \in A
      BY <1>1, <1>3, <2>1, FlatOne DEF SetUpOps
    <3> QED BY <3>1, AskedFrom
  <2>2. CASE sel # "night"
    BY <2>2, AskedFrom DEF If
  <2> QED BY <2>1, <2>2
<1>6. s3 \in A
  BY <1>2, <1>3, FlatOne DEF PlainOps
<1>7. s4 \in A
  BY <1>1, <1>3, FlatOne DEF PlainOps
<1>8. night => <<MustElse("apply", target, undo)>> \in A
  BY <1>1, <1>3, FlatOne DEF SetUpOps, night
<1>9. <<MustElse("sync", 0, undo)>> \in A
  BY <1>1, <1>3, FlatOne DEF PlainOps
<1>10. s6 \in A
  <2>1. CASE sel = "night"
    <3>1. <<MustElse("preview", target, undo)>> \in A
      BY <1>1, <1>3, <2>1, FlatOne DEF SetUpOps
    <3> QED BY <3>1, AskedFrom
  <2>2. CASE sel # "night"
    BY <2>2, AskedFrom DEF If
  <2> QED BY <2>1, <2>2
<1>11. s5 \in A
  BY <1>8, <1>9
<1>12. s7 \in A
  <2> DEFINE F == Asked(ops, Seq(Asked(ops, {<<>>})))
             a == MustElse("other", 0, undo)
             c == IF night THEN MustElse("apply", target, undo) ELSE MustElse("sync", 0, undo)
  <2>1. <<a>> \in Seq(F) /\ <<c>> \in Seq(F)
    BY <1>7, <1>11 DEF AskedList
  <2> HIDE DEF F, a, c
  <2>2. a \in F /\ c \in F
    <3>1. <<a>>[1] \in F /\ <<c>>[1] \in F
      BY <2>1, ElementOfSeq
    <3> QED BY <3>1
  <2>3. <<a, c>> \in Seq(F)
    BY <2>2
  <2> QED BY <2>3 DEF AskedList, F, a, c
<1>13. ModeRequests(sel, target, dep) = ((((s1 \o s2) \o s3) \o s7) \o s6) \o s4
  BY DEF ModeRequests, undo, night, again, g
<1> HIDE DEF A, s1, s2, s3, s4, s6, s7
<1> QED
  <2>1. \A s, t \in A : s \o t \in A
    BY AskedFrom DEF A
  <2> QED BY <1>4, <1>5, <1>6, <1>7, <1>10, <1>12, <1>13, <2>1 DEF A

-----------------------------------------------------------------------------
(* The coordinator's requests.                                              *)
CoDoes(r, o) ==
  /\ Typed(o)
  /\ r.op # "flag" /\ r.op # "snapshot" => o.b.stack = b.stack
  /\ r.op = "flag" => o.b.stack = IF o.ok THEN r.arg ELSE b.stack
  /\ r.op # "set" => o.b.desired = b.desired
  /\ r.op = "set" => /\ o.ok => o.b.desired = r.arg /\ o.b.camera = "on"
                     /\ o.b.sensors = b.sensors /\ o.b.file = b.file
  /\ r.op = "restore" /\ o.ok => Timed(o.b, 30)
  /\ r.op \in {"set", "other", "snapshot"} /\ o.cost = 0 =>
       /\ o.b.camera = b.camera /\ o.b.cached = b.cached /\ o.b.file = b.file
       /\ o.b.transient => b.transient
       /\ o.b.sensors = b.sensors \/ o.b.sensors = Both(30)
  /\ o.cost = 0 /\ b.camera # "playing" =>
       /\ o.b.camera # "playing"
       /\ ~b.transient /\ b.cached = 30 => ~o.b.transient /\ o.b.cached = 30
       /\ r.op # "set" /\ r.op # "snapshot" => o.ok
       /\ r.op = "set" /\ b.camera = "on" => o.ok
       /\ r.op = "start" \/ (b.camera = "on" /\ r.op # "stop") => o.b.camera = "on"

CoOps == {"start", "stop", "other", "set", "timing", "restore", "flag", "snapshot"}
LEMMA CoOutcomeOK ==
  ASSUME b \in BackendType, NEW r, r.op \in CoOps,
         r.op = "set" => r.arg \in Pairs,
         r.op = "start" => r.arg \in Graphs,
         r.op = "timing" => r.arg \in Rates,
         r.op = "flag" => r.arg = "four",
         NEW o \in Outcomes(r)
  PROVE  CoDoes(r, o)
<1>1. CASE r.op = "start"
  <2>1. o \in StartGraph(r.arg)
    BY <1>1 DEF Outcomes
  <2> QED BY <1>1, <2>1, StartGraphOK DEF CoDoes
<1>2. CASE r.op = "stop"
  <2>1. o \in StopGraph
    BY <1>2 DEF Outcomes
  <2> QED BY <1>2, <2>1, StopGraphOK DEF CoDoes
<1>3. CASE r.op = "other"
  <2>1. o \in {Does(b, TRUE, 0), Does(b, FALSE, 1)}
    BY <1>3 DEF Outcomes
  <2> QED BY <1>3, <2>1, AsItIs DEF CoDoes
<1>4. CASE r.op = "set"
  <2>1. o \in SetPair(r.arg)
    BY <1>4 DEF Outcomes
  <2> QED BY <1>4, <2>1, SetPairOK DEF CoDoes
<1>5. CASE r.op = "timing"
  <2>1. o \in OwnTiming(b, r.arg)
    BY <1>5 DEF Outcomes
  <2> QED BY <1>5, <2>1, OwnTimingOK DEF CoDoes, Besides
<1>6. CASE r.op = "restore"
  <2>1. o \in Restore
    BY <1>6 DEF Outcomes
  <2> QED BY <1>6, <2>1, RestoreOK DEF CoDoes, Besides
<1>7. CASE r.op = "flag"
  <2> DEFINE x == [b EXCEPT !.stack = "four"]
  <2>1. /\ x \in BackendType /\ x.stack = "four" /\ x.desired = b.desired /\ x.camera = b.camera
        /\ x.transient = b.transient /\ x.cached = b.cached
    BY DEF BackendType
  <2>2. o = Does(x, TRUE, 0) \/ o = Does(b, FALSE, 1)
    BY <1>7 DEF Outcomes
  <2> HIDE DEF x
  <2>3. CASE o = Does(x, TRUE, 0)
    <3>1. o.b = x /\ o.ok = TRUE /\ o.cost = 0
      BY <2>3 DEF Does
    <3>2. Typed(o) /\ o.b.stack = r.arg /\ o.ok
      BY <1>7, <2>1, <2>3 DEF Does, Typed
    <3> QED BY <1>7, <2>1, <3>1, <3>2 DEF CoDoes
  <2>4. CASE o = Does(b, FALSE, 1)
    <3>1. o.b = b /\ o.ok = FALSE /\ o.cost = 1
      BY <2>4 DEF Does
    <3>2. Typed(o) /\ ~o.ok /\ o.cost # 0
      BY <2>4 DEF Does, Typed
    <3> QED BY <1>7, <3>1, <3>2 DEF CoDoes
  <2> QED BY <2>2, <2>3, <2>4
<1>8. CASE r.op = "snapshot"
  <2>1. o \in Snapshot
    BY <1>8 DEF Outcomes
  <2> QED BY <1>8, <2>1, SnapshotOK DEF CoDoes
<1> QED BY <1>1, <1>2, <1>3, <1>4, <1>5, <1>6, <1>7, <1>8 DEF CoOps

-----------------------------------------------------------------------------
IsList(s) == \E S : s \in Seq(S)

LEMMA PutFirst ==
  ASSUME NEW a, NEW s, IsList(s)
  PROVE  /\ IsList(<<a>> \o s) /\ <<a>> \o s # <<>>
         /\ Head(<<a>> \o s) = a /\ Tail(<<a>> \o s) = s
<1>1. PICK S : s \in Seq(S)
  BY DEF IsList
<1> DEFINE T == S \cup {a}
           f == <<a>>
<1>2. S \subseteq T /\ a \in T
  OBVIOUS
<1>3. s \in Seq(T) /\ f \in Seq(T)
  BY <1>1, <1>2
<1>5. Len(f) = 1 /\ f[1] = a
  OBVIOUS
<1> HIDE DEF T, f
<1>4. /\ f \o s \in Seq(T) /\ Len(f \o s) = 1 + Len(s)
      /\ \A i \in 1 .. Len(f) : (f \o s)[i] = f[i]
      /\ \A i \in 1 .. Len(s) : (f \o s)[Len(f) + i] = s[i]
  <2>1. f \in Seq(T) /\ s \in Seq(T)
    BY <1>3
  <2>2. /\ f \o s \in Seq(T) /\ Len(f \o s) = Len(f) + Len(s)
        /\ \A i \in 1 .. Len(f) : (f \o s)[i] = f[i]
        /\ \A i \in 1 .. Len(s) : (f \o s)[Len(f) + i] = s[i]
    BY <2>1, ConcatProperties
  <2> QED BY <1>5, <2>2
<1>6. Len(s) \in Nat
  BY <1>3
<1>7. f \o s # <<>> /\ Head(f \o s) = a
  BY <1>4, <1>5, <1>6
<1>8. Tail(f \o s) \in Seq(T) /\ Len(Tail(f \o s)) = Len(s)
  BY <1>4, <1>6, <1>7
<1>9. \A i \in 1 .. Len(s) : Tail(f \o s)[i] = s[i]
  BY <1>4, <1>5, <1>6, <1>7
<1>10. Tail(f \o s) = s
  BY <1>3, <1>8, <1>9
<1> QED BY <1>4, <1>7, <1>10 DEF IsList, f

LEMMA PutTwo ==
  ASSUME NEW a, NEW c, NEW s, IsList(s)
  PROVE  <<a, c>> \o s = <<a>> \o (<<c>> \o s)
<1>1. PICK S : s \in Seq(S)
  BY DEF IsList
<1> DEFINE T == S \cup {a, c}
<1>2. S \subseteq T /\ a \in T /\ c \in T
  OBVIOUS
<1>3. s \in Seq(T) /\ <<a>> \in Seq(T) /\ <<c>> \in Seq(T)
  BY <1>1, <1>2
<1>4. <<a>> \o <<c>> = <<a, c>>
  <2> DEFINE f == <<a>>
             g == <<c>>
  <2>1. f \in Seq(T) /\ g \in Seq(T) /\ Len(f) = 1 /\ Len(g) = 1 /\ f[1] = a /\ g[1] = c
    BY <1>3
  <2>2. <<a, c>> \in Seq(T) /\ Len(<<a, c>>) = 2 /\ <<a, c>>[1] = a /\ <<a, c>>[2] = c
    BY <1>2
  <2> HIDE DEF f, g
  <2>3. /\ f \o g \in Seq(T) /\ Len(f \o g) = 2
        /\ \A i \in 1 .. Len(f) : (f \o g)[i] = f[i]
        /\ \A i \in 1 .. Len(g) : (f \o g)[Len(f) + i] = g[i]
    <3>1. f \in Seq(T) /\ g \in Seq(T)
      BY <2>1
    <3>2. /\ f \o g \in Seq(T) /\ Len(f \o g) = Len(f) + Len(g)
          /\ \A i \in 1 .. Len(f) : (f \o g)[i] = f[i]
          /\ \A i \in 1 .. Len(g) : (f \o g)[Len(f) + i] = g[i]
      BY <3>1, ConcatProperties
    <3> QED BY <2>1, <3>2
  <2>4. (f \o g)[1] = a /\ (f \o g)[2] = c
    BY <2>1, <2>3
  <2> DEFINE h == <<a, c>>
  <2>5. h \in Seq(T) /\ Len(h) = 2 /\ h[1] = a /\ h[2] = c
    BY <2>2
  <2> HIDE DEF h
  <2>6. f \o g = h
    BY <2>3, <2>4, <2>5, SMTT(30)
  <2> QED BY <2>6 DEF f, g, h
<1>5. (<<a>> \o <<c>>) \o s = <<a>> \o (<<c>> \o s)
  <2> DEFINE f == <<a>>
             g == <<c>>
  <2>1. f \in Seq(T) /\ g \in Seq(T) /\ s \in Seq(T)
    BY <1>3
  <2> HIDE DEF f, g, T
  <2>2. (f \o g) \o s = f \o (g \o s)
    BY <2>1, ConcatAssociative
  <2> QED BY <2>2 DEF f, g
<1> QED BY <1>4, <1>5

LEMMA NothingFirst == ASSUME NEW s, IsList(s) PROVE <<>> \o s = s
  BY ConcatEmptySeq DEF IsList

LEMMA Alone ==
  ASSUME NEW a
  PROVE  /\ IsList(<<>>) /\ IsList(<<a>>) /\ <<a>> # <<>> /\ Head(<<a>>) = a /\ Tail(<<a>>) = <<>>
         /\ <<a>> \o <<>> = <<a>>
<1>1. <<>> \in Seq({}) /\ <<a>> \in Seq({a})
  OBVIOUS
<1>2. <<a>> \o <<>> = <<a>>
  BY <1>1, ConcatEmptySeq
<1>3. IsList(<<>>) /\ IsList(<<a>>)
  BY <1>1 DEF IsList
<1>4. <<a>> # <<>> /\ Head(<<a>>) = a /\ Tail(<<a>>) = <<>>
  OBVIOUS
<1> QED BY <1>2, <1>3, <1>4

LEMMA TwoByOne ==
  ASSUME NEW x, NEW y, NEW z
  PROVE  <<x, y>> = <<x>> \o <<y>> /\ <<x, y, z>> = <<x>> \o <<y, z>>
<1> DEFINE T == {x, y, z}
           f == <<x>>
           g == <<y>>
           h == <<y, z>>
           k == <<x, y>>
           l == <<x, y, z>>
<1>1. /\ f \in Seq(T) /\ Len(f) = 1 /\ f[1] = x
      /\ g \in Seq(T) /\ Len(g) = 1 /\ g[1] = y
      /\ h \in Seq(T) /\ Len(h) = 2 /\ h[1] = y /\ h[2] = z
      /\ k \in Seq(T) /\ Len(k) = 2 /\ k[1] = x /\ k[2] = y
      /\ l \in Seq(T) /\ Len(l) = 3 /\ l[1] = x /\ l[2] = y /\ l[3] = z
  OBVIOUS
<1> HIDE DEF T, f, g, h, k, l
<1>2. /\ f \o g \in Seq(T) /\ Len(f \o g) = 2
      /\ \A i \in 1 .. Len(f) : (f \o g)[i] = f[i]
      /\ \A i \in 1 .. Len(g) : (f \o g)[Len(f) + i] = g[i]
  <2>1. f \in Seq(T) /\ g \in Seq(T)
    BY <1>1
  <2>2. /\ f \o g \in Seq(T) /\ Len(f \o g) = Len(f) + Len(g)
        /\ \A i \in 1 .. Len(f) : (f \o g)[i] = f[i]
        /\ \A i \in 1 .. Len(g) : (f \o g)[Len(f) + i] = g[i]
    BY <2>1, ConcatProperties
  <2> QED BY <1>1, <2>2
<1>3. /\ f \o h \in Seq(T) /\ Len(f \o h) = 3
      /\ \A i \in 1 .. Len(f) : (f \o h)[i] = f[i]
      /\ \A i \in 1 .. Len(h) : (f \o h)[Len(f) + i] = h[i]
  <2>1. f \in Seq(T) /\ h \in Seq(T)
    BY <1>1
  <2>2. /\ f \o h \in Seq(T) /\ Len(f \o h) = Len(f) + Len(h)
        /\ \A i \in 1 .. Len(f) : (f \o h)[i] = f[i]
        /\ \A i \in 1 .. Len(h) : (f \o h)[Len(f) + i] = h[i]
    BY <2>1, ConcatProperties
  <2> QED BY <1>1, <2>2
<1>4. (f \o g)[1] = x /\ (f \o g)[2] = y
  BY <1>1, <1>2
<1>5. (f \o h)[1] = x /\ (f \o h)[2] = y /\ (f \o h)[3] = z
  BY <1>1, <1>3
<1>6. k = f \o g
  BY <1>1, <1>2, <1>4, SMTT(30)
<1>7. l = f \o h
  BY <1>1, <1>3, <1>5, SMTT(30)
<1> QED BY <1>6, <1>7 DEF f, g, h, k, l

LEMMA FourByOne ==
  ASSUME NEW x, NEW y, NEW z, NEW w
  PROVE  <<x>> \o (<<y>> \o (<<z>> \o <<w>>)) = <<x, y, z, w>>
<1>1. <<z>> \o <<w>> = <<z, w>> /\ <<y>> \o <<z, w>> = <<y, z, w>>
  <2>1. <<z>> \o <<w>> = <<z, w>>
    BY TwoByOne
  <2>2. \A a, c, d : <<a, c, d>> = <<a>> \o <<c, d>>
    <3> TAKE a, c, d
    <3> QED BY TwoByOne
  <2>3. <<y>> \o <<z, w>> = <<y, z, w>>
    BY <2>2, Zenon
  <2> QED BY <2>1, <2>3
<1> DEFINE T == {x, y, z, w}
           f == <<x>>
           h == <<y, z, w>>
           l == <<x, y, z, w>>
<1>2. /\ f \in Seq(T) /\ Len(f) = 1 /\ f[1] = x
      /\ h \in Seq(T) /\ Len(h) = 3 /\ h[1] = y /\ h[2] = z /\ h[3] = w
      /\ l \in Seq(T) /\ Len(l) = 4 /\ l[1] = x /\ l[2] = y /\ l[3] = z /\ l[4] = w
  OBVIOUS
<1> HIDE DEF T, f, h, l
<1>3. /\ f \o h \in Seq(T) /\ Len(f \o h) = 4
      /\ \A i \in 1 .. Len(f) : (f \o h)[i] = f[i]
      /\ \A i \in 1 .. Len(h) : (f \o h)[Len(f) + i] = h[i]
  <2>1. f \in Seq(T) /\ h \in Seq(T)
    BY <1>2
  <2>2. /\ f \o h \in Seq(T) /\ Len(f \o h) = Len(f) + Len(h)
        /\ \A i \in 1 .. Len(f) : (f \o h)[i] = f[i]
        /\ \A i \in 1 .. Len(h) : (f \o h)[Len(f) + i] = h[i]
    BY <2>1, ConcatProperties
  <2> QED BY <1>2, <2>2
<1>4. (f \o h)[1] = x /\ (f \o h)[2] = y /\ (f \o h)[3] = z /\ (f \o h)[4] = w
  BY <1>2, <1>3
<1>5. l = f \o h
  BY <1>2, <1>3, <1>4, SMTT(30)
<1> QED BY <1>1, <1>5 DEF f, h, l

(* The captures, request by request.                                        *)
LEMMA CaptureLists ==
  ASSUME NEW p
  PROVE  /\ IsList(Given(p)) /\ IsList(Back(p)) /\ IsList(Expose(p)) /\ IsList(Prepare(p))
         /\ IsList(Shoot(p)) /\ IsList(Expect(p)) /\ IsList(Again(p)) /\ IsList(Restoring(p))
         /\ IsList(Afresh(p)) /\ IsList(StartAfresh(p)) /\ IsList(Anew(p))
         /\ IsList(GivenThenAnew(p)) /\ IsList(Recovery(p)) /\ IsList(Attempted(p))
         /\ IsList(QuickOther(p)) /\ IsList(QuickShot(p))
         /\ Restoring(p) = <<OrElse("restore", 0, <<>>)>> \o Given(p)
         /\ Shoot(p) = IF Stacked(p) THEN <<MustElse("flag", p, Restoring(p))>> \o Prepare(p)
                       ELSE Prepare(p)
         /\ Again(p) = <<MustElse("timing", Rate(p), Restoring(p))>> \o Expect(p)
         /\ Recovery(p) = <<OrElse("restore", 0, Anew(p))>> \o GivenThenAnew(p)
         /\ Rate(p) # 30 =>
              CaptureRequests(p) = <<MustElse("timing", Rate(p), Restoring(p))>> \o Attempted(p)
         /\ Rate(p) = 30 => CaptureRequests(p) = <<Must("set", p)>> \o QuickOther(p)
         /\ QuickOther(p) = <<Must("other", 0)>> \o QuickShot(p)
         /\ QuickShot(p) = <<Must("snapshot", 0)>> \o <<>>
<1>1. IsList(Given(p)) /\ IsList(<<>>)
  BY Alone DEF Given
<1>2. IsList(Back(p))
  BY <1>1, PutFirst DEF Back
<1>3. IsList(Expose(p))
  BY <1>2, PutFirst DEF Expose
<1>4. IsList(Prepare(p))
  BY <1>3, PutFirst DEF Prepare
<1>5. Restoring(p) = <<OrElse("restore", 0, <<>>)>> \o Given(p)
  <2>1. \A x, y : <<x, y>> \o <<>> = <<x>> \o (<<y>> \o <<>>)
    BY <1>1, PutTwo
  <2>2. \A x : <<x>> \o <<>> = <<x>>
    BY Alone
  <2>3. \A x, y : <<x, y>> \o <<>> = <<x, y>>
    <3> TAKE x, y
    <3>1. <<x, y>> \in Seq({x, y})
      OBVIOUS
    <3> QED BY <3>1, ConcatEmptySeq
  <2>4. \A x, y : <<x, y>> = <<x>> \o <<y>>
    BY <2>1, <2>2, <2>3
  <2> QED BY <2>4 DEF Restoring, Given
<1>6. IsList(Restoring(p))
  BY <1>1, <1>5, PutFirst
<1>7. Prepare(p) = <<MustElse("other", 0, Restoring(p)), Note("snapshot", 0),
                     MustElse("restore", 0, <<>>), May("set", p)>>
  <2> DEFINE x == MustElse("other", 0, Restoring(p))
             y == Note("snapshot", 0)
             z == MustElse("restore", 0, <<>>)
             w == May("set", p)
  <2>1. Prepare(p) = <<x>> \o (<<y>> \o (<<z>> \o <<w>>))
    BY DEF Prepare, Expose, Back, Given
  <2> HIDE DEF x, y, z, w
  <2>2. <<x>> \o (<<y>> \o (<<z>> \o <<w>>)) = <<x, y, z, w>>
    BY FourByOne
  <2> QED BY <2>1, <2>2 DEF x, y, z, w
<1>8. /\ Shoot(p) = IF Stacked(p) THEN <<MustElse("flag", p, Restoring(p))>> \o Prepare(p)
                    ELSE Prepare(p)
      /\ IsList(Shoot(p))
  <2>1. Shoot(p) = If(Stacked(p), <<MustElse("flag", p, Restoring(p))>>) \o Prepare(p)
    BY <1>7 DEF Shoot
  <2>2. CASE Stacked(p)
    BY <1>4, <2>1, <2>2, PutFirst DEF If
  <2>3. CASE ~Stacked(p)
    BY <1>4, <2>1, <2>3, NothingFirst DEF If
  <2> QED BY <2>2, <2>3
<1>9. IsList(Expect(p))
  BY <1>8, PutFirst DEF Expect
<1>10. Again(p) = <<MustElse("timing", Rate(p), Restoring(p))>> \o Expect(p) /\ IsList(Again(p))
  <2>1. Again(p) = <<MustElse("timing", Rate(p), Restoring(p))>> \o Expect(p)
    <3>1. <<MustElse("timing", Rate(p), Restoring(p)), MustElse("set", Frame(p), Restoring(p))>> \o Shoot(p)
          = <<MustElse("timing", Rate(p), Restoring(p))>>
            \o (<<MustElse("set", Frame(p), Restoring(p))>> \o Shoot(p))
      BY <1>8, PutTwo, SMTT(30)
    <3> QED BY <3>1 DEF Again, Expect
  <2> QED BY <1>9, <2>1, PutFirst
<1>11. IsList(Afresh(p)) /\ IsList(StartAfresh(p))
  BY <1>10, PutFirst DEF Afresh, StartAfresh
<1>12. IsList(Anew(p))
  BY <1>11, PutFirst DEF Anew
<1>13. IsList(GivenThenAnew(p))
  BY <1>12, PutFirst DEF GivenThenAnew
<1>14. Recovery(p) = <<OrElse("restore", 0, Anew(p))>> \o GivenThenAnew(p) /\ IsList(Recovery(p))
  <2>1. Anew(p) = <<Must("stop", 0), OrElse("start", "pic", <<Must("start", "pic")>> \o Again(p))>>
                  \o Again(p)
    <3>1. <<Must("stop", 0), OrElse("start", "pic", Afresh(p))>> \o Again(p)
          = <<Must("stop", 0)>> \o (<<OrElse("start", "pic", Afresh(p))>> \o Again(p))
      BY <1>10, PutTwo, SMTT(30)
    <3>2. Anew(p) = <<Must("stop", 0), OrElse("start", "pic", Afresh(p))>> \o Again(p)
      BY <3>1 DEF Anew, StartAfresh
    <3> QED BY <3>2 DEF Afresh
  <2>2. Recovery(p) = <<OrElse("restore", 0, Anew(p)), May("set", p)>> \o Anew(p)
    BY <2>1 DEF Recovery
  <2>3. Recovery(p) = <<OrElse("restore", 0, Anew(p))>> \o GivenThenAnew(p)
    BY <1>12, <2>2, PutTwo DEF GivenThenAnew
  <2> QED BY <1>13, <2>3, PutFirst
<1>15. IsList(Attempted(p))
  BY <1>8, PutFirst DEF Attempted
<1>16. Rate(p) # 30 =>
         CaptureRequests(p) = <<MustElse("timing", Rate(p), Restoring(p))>> \o Attempted(p)
  <2>1. \A x, y : <<x, y>> \o Shoot(p) = <<x>> \o (<<y>> \o Shoot(p))
    BY <1>8, PutTwo, SMTT(30)
  <2> QED BY <2>1 DEF CaptureRequests, Attempted
<1>17. QuickShot(p) = <<Must("snapshot", 0)>> \o <<>> /\ IsList(QuickShot(p))
  BY Alone DEF QuickShot
<1>18. \A x, y, z : <<x, y>> = <<x>> \o <<y>> /\ <<x, y, z>> = <<x>> \o <<y, z>>
  BY TwoByOne
<1>19. QuickOther(p) = <<Must("other", 0)>> \o QuickShot(p)
  BY <1>18 DEF QuickOther, QuickShot
<1>20. IsList(QuickOther(p))
  BY <1>17, <1>19, PutFirst
<1>21. Rate(p) = 30 => CaptureRequests(p) = <<Must("set", p)>> \o QuickOther(p)
  BY <1>18 DEF CaptureRequests, QuickOther
<1> QED BY <1>1, <1>2, <1>3, <1>4, <1>5, <1>6, <1>8, <1>9, <1>10, <1>11, <1>12, <1>13, <1>14,
           <1>15, <1>16, <1>17, <1>19, <1>20, <1>21

-----------------------------------------------------------------------------
(* A step of the coordinator.                                               *)
Continues(r, rest, o) ==
  /\ o \in Outcomes(r) /\ b' = o.b /\ faults' = faults + o.cost
  /\ co' = [busy |-> TRUE, todo |-> IF o.ok \/ r.rest THEN rest ELSE r.instead,
            ok |-> co.ok /\ (o.ok \/ ~r.must), pair |-> co.pair, asked |-> co.asked,
            mode |-> co.mode, orphan |-> co.orphan]
  /\ photo' = IF r.op = "snapshot" /\ o.ok THEN [frame |-> Exposed, of |-> b.stack] ELSE photo
  /\ UNCHANGED <<files, ui, job>>

LEMMA Continue ==
  ASSUME CoOK, CoordinatorStep, NEW r, NEW rest, IsList(rest), co.todo = <<r>> \o rest
  PROVE  \E o : Continues(r, rest, o)
<1>1. Head(co.todo) = r /\ Tail(co.todo) = rest
  BY PutFirst
<1>2. PICK o \in Outcomes(r) :
           /\ Spend(o.cost) /\ b' = o.b
           /\ co' = After(co, r, o.ok)
           /\ photo' = IF r.op = "snapshot" /\ o.ok
                       THEN [frame |-> Exposed, of |-> b.stack] ELSE photo
  BY <1>1 DEF CoordinatorStep
<1>3. co' = [busy |-> TRUE, todo |-> IF o.ok \/ r.rest THEN rest ELSE r.instead,
             ok |-> co.ok /\ (o.ok \/ ~r.must), pair |-> co.pair, asked |-> co.asked,
             mode |-> co.mode, orphan |-> co.orphan]
  <2>1. co.busy = TRUE
    BY DEF CoordinatorStep, CoOK
  <2>2. After(co, r, o.ok) =
          [busy |-> co.busy, todo |-> IF o.ok \/ r.rest THEN Tail(co.todo) ELSE r.instead,
           ok |-> co.ok /\ (o.ok \/ ~r.must), pair |-> co.pair, asked |-> co.asked,
           mode |-> co.mode, orphan |-> co.orphan]
    BY CoAfter
  <2> QED BY <1>1, <1>2, <2>1, <2>2
<1>4. UNCHANGED <<files, ui, job>>
  BY DEF CoordinatorStep
<1> QED BY <1>2, <1>3, <1>4 DEF Continues, Spend

(* What every such step keeps.                                              *)
Keeps == /\ b' \in BackendType /\ faults' \in Nat /\ CoOK' /\ UNCHANGED <<files, ui, job>>
         /\ co'.busy /\ co'.pair = co.pair /\ co'.orphan = co.orphan
         /\ co'.asked = co.asked /\ co'.mode = co.mode
         /\ Calm' => Calm
LEMMA StepKeeps ==
  ASSUME ExposureTypeOK, NEW r, NEW rest, NEW o, Continues(r, rest, o), CoDoes(r, o),
         r.must \in BOOLEAN
  PROVE  Keeps /\ (Calm' => o.cost = 0)
<1>1. b' \in BackendType /\ o.cost \in Nat /\ faults' = faults + o.cost /\ faults \in Nat
      /\ o.ok \in BOOLEAN
  BY DEF Continues, CoDoes, Typed, ExposureTypeOK
<1>2. \A m, n \in Nat : m + n \in Nat /\ (m + n = 0 => m = 0 /\ n = 0)
  OBVIOUS
<1>3. faults' \in Nat /\ (faults' = 0 => faults = 0 /\ o.cost = 0)
  BY <1>1, <1>2
<1>4. CoOK'
  BY <1>1 DEF Continues, CoOK, ExposureTypeOK
<1> QED BY <1>1, <1>3, <1>4 DEF Keeps, Calm, Continues

LEMMA SlowKeeps ==
  ASSUME ExposureTypeOK, NEW r, NEW rest, NEW o, Continues(r, rest, o), CoDoes(r, o),
         r.must \in BOOLEAN, Slow(co.pair), Calm => CaptureStage
  PROVE  Keeps /\ (Calm' => CaptureStage /\ CaptureStage' /\ o.cost = 0)
<1>1. Keeps /\ (Calm' => o.cost = 0)
  BY StepKeeps
<1>2. ASSUME Calm'
      PROVE  CaptureStage /\ CaptureStage'
  <2>1. CaptureStage /\ o.cost = 0
    BY <1>1, <1>2 DEF Keeps
  <2>2. b'.camera # "playing" /\ (~b.transient /\ b.cached = 30 => ~b'.transient /\ b'.cached = 30)
    BY <2>1 DEF CaptureStage, CoDoes, Continues
  <2>3. ui' = ui /\ co'.pair = co.pair
    BY <1>1 DEF Keeps
  <2> QED BY <2>1, <2>2, <2>3 DEF CaptureStage, InNight, Slow
<1> QED BY <1>1, <1>2

(* A request of a list, and what follows it.                                *)
Advances(r, rest, o) ==
  /\ CoDoes(r, o) /\ o.ok \in BOOLEAN /\ b' = o.b
  /\ co'.todo = IF o.ok \/ r.rest THEN rest ELSE r.instead
  /\ co'.ok = (co.ok /\ (o.ok \/ ~r.must))
  /\ photo' = IF r.op = "snapshot" /\ o.ok THEN [frame |-> Exposed, of |-> b.stack] ELSE photo
  /\ Keeps /\ (Calm' => o.cost = 0)

CoRequest(r) ==
  /\ r.op \in CoOps /\ r.must \in BOOLEAN
  /\ r.op = "set" => r.arg \in Pairs
  /\ r.op = "start" => r.arg \in Graphs
  /\ r.op = "timing" => r.arg \in Rates
  /\ r.op = "flag" => r.arg = "four"

LEMMA Advance ==
  ASSUME ExposureTypeOK, CoordinatorStep,
         NEW r, NEW rest, IsList(rest), co.todo = <<r>> \o rest, CoRequest(r)
  PROVE  \E o : /\ Advances(r, rest, o)
                /\ Slow(co.pair) /\ (Calm => CaptureStage) =>
                     (Calm' => CaptureStage /\ CaptureStage')
<1>1. PICK o : Continues(r, rest, o)
  BY Continue DEF ExposureTypeOK, CoRequest
<1>2. CoDoes(r, o)
  BY <1>1, CoOutcomeOK DEF Continues, ExposureTypeOK, CoRequest
<1>3. Keeps /\ (Calm' => o.cost = 0)
  BY <1>1, <1>2, StepKeeps DEF CoRequest
<1>4. Slow(co.pair) /\ (Calm => CaptureStage) => (Calm' => CaptureStage /\ CaptureStage')
  BY <1>1, <1>2, SlowKeeps DEF CoRequest
<1>5. /\ b' = o.b /\ co'.todo = IF o.ok \/ r.rest THEN rest ELSE r.instead
      /\ co'.ok = (co.ok /\ (o.ok \/ ~r.must))
      /\ photo' = IF r.op = "snapshot" /\ o.ok THEN [frame |-> Exposed, of |-> b.stack] ELSE photo
  BY <1>1 DEF Continues
<1>6. o.ok \in BOOLEAN
  BY <1>2 DEF CoDoes, Typed
<1> QED BY <1>2, <1>3, <1>4, <1>5, <1>6 DEF Advances

LEMMA CapturedWith ==
  ASSUME NEW p \in Pairs
  PROVE  Rate(p) \in Rates /\ Frame(p) \in Pairs /\ (Stacked(p) => p = "four")
  BY ValuesOK DEF Rates, Stacked

LEMMA CaptureRequestsStep ==
  ASSUME ExposureTypeOK, CoordinatorStep, NEW p \in Pairs, p = co.pair, Slow(p),
         Calm => CaptureStage, co.todo = CaptureRequests(p),
         Unposed
  PROVE  Keeps /\ (Calm' => CaptureStage') /\ SlowOutline(p)'
<1> DEFINE r == MustElse("timing", Rate(p), Restoring(p))
           rest == Attempted(p)
<1>1. co.todo = <<r>> \o rest /\ IsList(rest)
  BY CaptureLists DEF Slow
<1>2. /\ r.op = "timing" /\ r.arg = Rate(p) /\ r.instead = Restoring(p)
      /\ r.must = TRUE /\ r.rest = FALSE
  BY DEF MustElse, Request
<1> HIDE DEF r, rest
<1>3. PICK o : Advances(r, rest, o) /\ (Calm' => CaptureStage /\ CaptureStage')
  <2>1. CoRequest(r)
    BY <1>2, CapturedWith DEF CoRequest, CoOps, Graphs
  <2> QED BY <1>1, <2>1, Advance
<1>4. CASE o.ok
  BY <1>2, <1>3, <1>4
     DEF SlowOutline, Advances, CoDoes, Unposed, Posed, Marked, PhotoRight, Sure, CaptureStage,
         Keeps, Timed, Restored, rest
<1>5. CASE ~o.ok
  BY <1>2, <1>3, <1>5
     DEF SlowOutline, Advances, CoDoes, Unposed, Posed, Marked, PhotoRight, Sure, CaptureStage,
         Keeps, Timed, Restored, rest
<1> QED BY <1>3, <1>4, <1>5 DEF Advances

LEMMA AttemptedStep ==
  ASSUME ExposureTypeOK, CoordinatorStep, NEW p \in Pairs, p = co.pair, Slow(p),
         Calm => CaptureStage, co.todo = Attempted(p),
         Unposed
  PROVE  Keeps /\ (Calm' => CaptureStage') /\ SlowOutline(p)'
<1> DEFINE r == OrElse("set", Frame(p), Recovery(p))
           rest == Shoot(p)
<1>1. co.todo = <<r>> \o rest /\ IsList(rest)
  BY CaptureLists DEF Attempted
<1>2. /\ r.op = "set" /\ r.arg = Frame(p) /\ r.instead = Recovery(p)
      /\ r.must = FALSE /\ r.rest = FALSE
  BY DEF OrElse, Request
<1> HIDE DEF r, rest
<1>3. PICK o : Advances(r, rest, o) /\ (Calm' => CaptureStage /\ CaptureStage')
  <2>1. CoRequest(r)
    BY <1>2, CapturedWith DEF CoRequest, CoOps, Graphs
  <2> QED BY <1>1, <2>1, Advance
<1>4. CASE o.ok
  BY <1>2, <1>3, <1>4
     DEF SlowOutline, Advances, CoDoes, Unposed, Posed, Marked, PhotoRight, Sure, CaptureStage,
         Keeps, Timed, Restored, rest
<1>5. CASE ~o.ok
  BY <1>2, <1>3, <1>5
     DEF SlowOutline, Advances, CoDoes, Unposed, Posed, Marked, PhotoRight, Sure, CaptureStage,
         Keeps, Timed, Restored, rest
<1> QED BY <1>3, <1>4, <1>5 DEF Advances

LEMMA RecoveryStep ==
  ASSUME ExposureTypeOK, CoordinatorStep, NEW p \in Pairs, p = co.pair, Slow(p),
         Calm => CaptureStage, co.todo = Recovery(p),
         Unposed
  PROVE  Keeps /\ (Calm' => CaptureStage') /\ SlowOutline(p)'
<1> DEFINE r == OrElse("restore", 0, Anew(p))
           rest == GivenThenAnew(p)
<1>1. co.todo = <<r>> \o rest /\ IsList(rest)
  BY CaptureLists
<1>2. /\ r.op = "restore" /\ r.arg = 0 /\ r.instead = Anew(p)
      /\ r.must = FALSE /\ r.rest = FALSE
  BY DEF OrElse, Request
<1> HIDE DEF r, rest
<1>3. PICK o : Advances(r, rest, o) /\ (Calm' => CaptureStage /\ CaptureStage')
  <2>1. CoRequest(r)
    BY <1>2, CapturedWith DEF CoRequest, CoOps, Graphs
  <2> QED BY <1>1, <2>1, Advance
<1>4. CASE o.ok
  BY <1>2, <1>3, <1>4
     DEF SlowOutline, Advances, CoDoes, Unposed, Posed, Marked, PhotoRight, Sure, CaptureStage,
         Keeps, Timed, Restored, rest
<1>5. CASE ~o.ok
  BY <1>2, <1>3, <1>5
     DEF SlowOutline, Advances, CoDoes, Unposed, Posed, Marked, PhotoRight, Sure, CaptureStage,
         Keeps, Timed, Restored, rest
<1> QED BY <1>3, <1>4, <1>5 DEF Advances

LEMMA GivenThenAnewStep ==
  ASSUME ExposureTypeOK, CoordinatorStep, NEW p \in Pairs, p = co.pair, Slow(p),
         Calm => CaptureStage, co.todo = GivenThenAnew(p),
         Unposed
  PROVE  Keeps /\ (Calm' => CaptureStage') /\ SlowOutline(p)'
<1> DEFINE r == May("set", p)
           rest == Anew(p)
<1>1. co.todo = <<r>> \o rest /\ IsList(rest)
  BY CaptureLists DEF GivenThenAnew
<1>2. /\ r.op = "set" /\ r.arg = p /\ r.instead = <<>>
      /\ r.must = FALSE /\ r.rest = TRUE
  BY DEF May, Request
<1> HIDE DEF r, rest
<1>3. PICK o : Advances(r, rest, o) /\ (Calm' => CaptureStage /\ CaptureStage')
  <2>1. CoRequest(r)
    BY <1>2, CapturedWith DEF CoRequest, CoOps, Graphs
  <2> QED BY <1>1, <2>1, Advance
<1>4. CASE o.ok
  BY <1>2, <1>3, <1>4
     DEF SlowOutline, Advances, CoDoes, Unposed, Posed, Marked, PhotoRight, Sure, CaptureStage,
         Keeps, Timed, Restored, rest
<1>5. CASE ~o.ok
  BY <1>2, <1>3, <1>5
     DEF SlowOutline, Advances, CoDoes, Unposed, Posed, Marked, PhotoRight, Sure, CaptureStage,
         Keeps, Timed, Restored, rest
<1> QED BY <1>3, <1>4, <1>5 DEF Advances

LEMMA AnewStep ==
  ASSUME ExposureTypeOK, CoordinatorStep, NEW p \in Pairs, p = co.pair, Slow(p),
         Calm => CaptureStage, co.todo = Anew(p),
         Unposed
  PROVE  Keeps /\ (Calm' => CaptureStage') /\ SlowOutline(p)'
<1> DEFINE r == Must("stop", 0)
           rest == StartAfresh(p)
<1>1. co.todo = <<r>> \o rest /\ IsList(rest)
  BY CaptureLists DEF Anew
<1>2. /\ r.op = "stop" /\ r.arg = 0 /\ r.instead = <<>>
      /\ r.must = TRUE /\ r.rest = FALSE
  BY DEF Must, Request
<1> HIDE DEF r, rest
<1>3. PICK o : Advances(r, rest, o) /\ (Calm' => CaptureStage /\ CaptureStage')
  <2>1. CoRequest(r)
    BY <1>2, CapturedWith DEF CoRequest, CoOps, Graphs
  <2> QED BY <1>1, <2>1, Advance
<1>4. CASE o.ok
  BY <1>2, <1>3, <1>4
     DEF SlowOutline, Advances, CoDoes, Unposed, Posed, Marked, PhotoRight, Sure, CaptureStage,
         Keeps, Timed, Restored, rest
<1>5. CASE ~o.ok
  BY <1>2, <1>3, <1>5
     DEF SlowOutline, Advances, CoDoes, Unposed, Posed, Marked, PhotoRight, Sure, CaptureStage,
         Keeps, Timed, Restored, rest
<1> QED BY <1>3, <1>4, <1>5 DEF Advances

LEMMA StartAfreshStep ==
  ASSUME ExposureTypeOK, CoordinatorStep, NEW p \in Pairs, p = co.pair, Slow(p),
         Calm => CaptureStage, co.todo = StartAfresh(p),
         Unposed
  PROVE  Keeps /\ (Calm' => CaptureStage') /\ SlowOutline(p)'
<1> DEFINE r == OrElse("start", "pic", Afresh(p))
           rest == Again(p)
<1>1. co.todo = <<r>> \o rest /\ IsList(rest)
  BY CaptureLists DEF StartAfresh
<1>2. /\ r.op = "start" /\ r.arg = "pic" /\ r.instead = Afresh(p)
      /\ r.must = FALSE /\ r.rest = FALSE
  BY DEF OrElse, Request
<1> HIDE DEF r, rest
<1>3. PICK o : Advances(r, rest, o) /\ (Calm' => CaptureStage /\ CaptureStage')
  <2>1. CoRequest(r)
    BY <1>2, CapturedWith DEF CoRequest, CoOps, Graphs
  <2> QED BY <1>1, <2>1, Advance
<1>4. CASE o.ok
  BY <1>2, <1>3, <1>4
     DEF SlowOutline, Advances, CoDoes, Unposed, Posed, Marked, PhotoRight, Sure, CaptureStage,
         Keeps, Timed, Restored, rest
<1>5. CASE ~o.ok
  BY <1>2, <1>3, <1>5
     DEF SlowOutline, Advances, CoDoes, Unposed, Posed, Marked, PhotoRight, Sure, CaptureStage,
         Keeps, Timed, Restored, rest
<1> QED BY <1>3, <1>4, <1>5 DEF Advances

LEMMA AfreshStep ==
  ASSUME ExposureTypeOK, CoordinatorStep, NEW p \in Pairs, p = co.pair, Slow(p),
         Calm => CaptureStage, co.todo = Afresh(p),
         Unposed
  PROVE  Keeps /\ (Calm' => CaptureStage') /\ SlowOutline(p)'
<1> DEFINE r == Must("start", "pic")
           rest == Again(p)
<1>1. co.todo = <<r>> \o rest /\ IsList(rest)
  BY CaptureLists DEF Afresh
<1>2. /\ r.op = "start" /\ r.arg = "pic" /\ r.instead = <<>>
      /\ r.must = TRUE /\ r.rest = FALSE
  BY DEF Must, Request
<1> HIDE DEF r, rest
<1>3. PICK o : Advances(r, rest, o) /\ (Calm' => CaptureStage /\ CaptureStage')
  <2>1. CoRequest(r)
    BY <1>2, CapturedWith DEF CoRequest, CoOps, Graphs
  <2> QED BY <1>1, <2>1, Advance
<1>4. CASE o.ok
  BY <1>2, <1>3, <1>4
     DEF SlowOutline, Advances, CoDoes, Unposed, Posed, Marked, PhotoRight, Sure, CaptureStage,
         Keeps, Timed, Restored, rest
<1>5. CASE ~o.ok
  BY <1>2, <1>3, <1>5
     DEF SlowOutline, Advances, CoDoes, Unposed, Posed, Marked, PhotoRight, Sure, CaptureStage,
         Keeps, Timed, Restored, rest
<1> QED BY <1>3, <1>4, <1>5 DEF Advances

LEMMA AgainStep ==
  ASSUME ExposureTypeOK, CoordinatorStep, NEW p \in Pairs, p = co.pair, Slow(p),
         Calm => CaptureStage, co.todo = Again(p),
         Unposed /\ (Calm => b.camera = "on")
  PROVE  Keeps /\ (Calm' => CaptureStage') /\ SlowOutline(p)'
<1> DEFINE r == MustElse("timing", Rate(p), Restoring(p))
           rest == Expect(p)
<1>1. co.todo = <<r>> \o rest /\ IsList(rest)
  BY CaptureLists
<1>2. /\ r.op = "timing" /\ r.arg = Rate(p) /\ r.instead = Restoring(p)
      /\ r.must = TRUE /\ r.rest = FALSE
  BY DEF MustElse, Request
<1> HIDE DEF r, rest
<1>3. PICK o : Advances(r, rest, o) /\ (Calm' => CaptureStage /\ CaptureStage')
  <2>1. CoRequest(r)
    BY <1>2, CapturedWith DEF CoRequest, CoOps, Graphs
  <2> QED BY <1>1, <2>1, Advance
<1>4. CASE o.ok
  BY <1>2, <1>3, <1>4
     DEF SlowOutline, Advances, CoDoes, Unposed, Posed, Marked, PhotoRight, Sure, CaptureStage,
         Keeps, Timed, Restored, rest
<1>5. CASE ~o.ok
  BY <1>2, <1>3, <1>5
     DEF SlowOutline, Advances, CoDoes, Unposed, Posed, Marked, PhotoRight, Sure, CaptureStage,
         Keeps, Timed, Restored, rest
<1> QED BY <1>3, <1>4, <1>5 DEF Advances

LEMMA ExpectStep ==
  ASSUME ExposureTypeOK, CoordinatorStep, NEW p \in Pairs, p = co.pair, Slow(p),
         Calm => CaptureStage, co.todo = Expect(p),
         Unposed /\ (Calm => b.camera = "on")
  PROVE  Keeps /\ (Calm' => CaptureStage') /\ SlowOutline(p)'
<1> DEFINE r == MustElse("set", Frame(p), Restoring(p))
           rest == Shoot(p)
<1>1. co.todo = <<r>> \o rest /\ IsList(rest)
  BY CaptureLists DEF Expect
<1>2. /\ r.op = "set" /\ r.arg = Frame(p) /\ r.instead = Restoring(p)
      /\ r.must = TRUE /\ r.rest = FALSE
  BY DEF MustElse, Request
<1> HIDE DEF r, rest
<1>3. PICK o : Advances(r, rest, o) /\ (Calm' => CaptureStage /\ CaptureStage')
  <2>1. CoRequest(r)
    BY <1>2, CapturedWith DEF CoRequest, CoOps, Graphs
  <2> QED BY <1>1, <2>1, Advance
<1>4. CASE o.ok
  BY <1>2, <1>3, <1>4
     DEF SlowOutline, Advances, CoDoes, Unposed, Posed, Marked, PhotoRight, Sure, CaptureStage,
         Keeps, Timed, Restored, rest
<1>5. CASE ~o.ok
  BY <1>2, <1>3, <1>5
     DEF SlowOutline, Advances, CoDoes, Unposed, Posed, Marked, PhotoRight, Sure, CaptureStage,
         Keeps, Timed, Restored, rest
<1> QED BY <1>3, <1>4, <1>5 DEF Advances

LEMMA ShootStep ==
  ASSUME ExposureTypeOK, CoordinatorStep, NEW p \in Pairs, p = co.pair, Slow(p),
         Calm => CaptureStage, co.todo = Shoot(p), Stacked(p),
         Posed /\ b.stack = "none" /\ (Calm => b.camera = "on")
  PROVE  Keeps /\ (Calm' => CaptureStage') /\ SlowOutline(p)'
<1> DEFINE r == MustElse("flag", p, Restoring(p))
           rest == Prepare(p)
<1>1. co.todo = <<r>> \o rest /\ IsList(rest)
  BY CaptureLists
<1>2. /\ r.op = "flag" /\ r.arg = p /\ r.instead = Restoring(p)
      /\ r.must = TRUE /\ r.rest = FALSE
  BY DEF MustElse, Request
<1> HIDE DEF r, rest
<1>3. PICK o : Advances(r, rest, o) /\ (Calm' => CaptureStage /\ CaptureStage')
  <2>1. CoRequest(r)
    BY <1>2, CapturedWith DEF CoRequest, CoOps, Graphs
  <2> QED BY <1>1, <2>1, Advance
<1>4. CASE o.ok
  BY <1>2, <1>3, <1>4
     DEF SlowOutline, Advances, CoDoes, Unposed, Posed, Marked, PhotoRight, Sure, CaptureStage,
         Keeps, Timed, Restored, rest
<1>5. CASE ~o.ok
  BY <1>2, <1>3, <1>5
     DEF SlowOutline, Advances, CoDoes, Unposed, Posed, Marked, PhotoRight, Sure, CaptureStage,
         Keeps, Timed, Restored, rest
<1> QED BY <1>3, <1>4, <1>5 DEF Advances

LEMMA PrepareStep ==
  ASSUME ExposureTypeOK, CoordinatorStep, NEW p \in Pairs, p = co.pair, Slow(p),
         Calm => CaptureStage, co.todo = Prepare(p),
         Posed /\ Marked /\ (Calm => b.camera = "on")
  PROVE  Keeps /\ (Calm' => CaptureStage') /\ SlowOutline(p)'
<1> DEFINE r == MustElse("other", 0, Restoring(p))
           rest == Expose(p)
<1>1. co.todo = <<r>> \o rest /\ IsList(rest)
  BY CaptureLists DEF Prepare
<1>2. /\ r.op = "other" /\ r.arg = 0 /\ r.instead = Restoring(p)
      /\ r.must = TRUE /\ r.rest = FALSE
  BY DEF MustElse, Request
<1> HIDE DEF r, rest
<1>3. PICK o : Advances(r, rest, o) /\ (Calm' => CaptureStage /\ CaptureStage')
  <2>1. CoRequest(r)
    BY <1>2, CapturedWith DEF CoRequest, CoOps, Graphs
  <2> QED BY <1>1, <2>1, Advance
<1>4. CASE o.ok
  BY <1>2, <1>3, <1>4
     DEF SlowOutline, Advances, CoDoes, Unposed, Posed, Marked, PhotoRight, Sure, CaptureStage,
         Keeps, Timed, Restored, rest
<1>5. CASE ~o.ok
  BY <1>2, <1>3, <1>5
     DEF SlowOutline, Advances, CoDoes, Unposed, Posed, Marked, PhotoRight, Sure, CaptureStage,
         Keeps, Timed, Restored, rest
<1> QED BY <1>3, <1>4, <1>5 DEF Advances

LEMMA ExposeStep ==
  ASSUME ExposureTypeOK, CoordinatorStep, NEW p \in Pairs, p = co.pair, Slow(p),
         Calm => CaptureStage, co.todo = Expose(p),
         Posed /\ Marked /\ (Calm => b.camera = "on")
  PROVE  Keeps /\ (Calm' => CaptureStage') /\ SlowOutline(p)'
<1> DEFINE r == Note("snapshot", 0)
           rest == Back(p)
<1>1. co.todo = <<r>> \o rest /\ IsList(rest)
  BY CaptureLists DEF Expose
<1>2. /\ r.op = "snapshot" /\ r.arg = 0 /\ r.instead = <<>>
      /\ r.must = TRUE /\ r.rest = TRUE
  BY DEF Note, Request
<1> HIDE DEF r, rest
<1>3. PICK o : Advances(r, rest, o) /\ (Calm' => CaptureStage /\ CaptureStage')
  <2>1. CoRequest(r)
    BY <1>2, CapturedWith DEF CoRequest, CoOps, Graphs
  <2> QED BY <1>1, <2>1, Advance
<1>4. Stacked(p) => Exposed = Frame(p) /\ b.stack = p
  BY DEF Marked, Exposed, Frame, Stacked
<1>5. ~Stacked(p) /\ Sure => Exposed = Frame(p) /\ b.stack = "none"
  BY DEF Marked, Posed, Exposed, Frame, Stacked
<1>6. ~o.ok => photo' = NoPhoto
  BY <1>3 DEF Posed, Advances
<1>7. o.ok => photo' = [frame |-> Exposed, of |-> b.stack]
  BY <1>2, <1>3 DEF Advances
<1>8. PhotoRight'
  BY <1>3, <1>4, <1>5, <1>6, <1>7 DEF PhotoRight, Sure, Of, Keeps, Advances
<1> QED BY <1>2, <1>3, <1>8 DEF SlowOutline, Advances, CoDoes, CaptureStage, Keeps, rest

LEMMA BackStep ==
  ASSUME ExposureTypeOK, CoordinatorStep, NEW p \in Pairs, p = co.pair, Slow(p),
         Calm => CaptureStage, co.todo = Back(p),
         PhotoRight /\ (Calm => b.camera = "on")
  PROVE  Keeps /\ (Calm' => CaptureStage') /\ SlowOutline(p)'
<1> DEFINE r == MustElse("restore", 0, <<>>)
           rest == Given(p)
<1>1. co.todo = <<r>> \o rest /\ IsList(rest)
  BY CaptureLists DEF Back
<1>2. /\ r.op = "restore" /\ r.arg = 0 /\ r.instead = <<>>
      /\ r.must = TRUE /\ r.rest = FALSE
  BY DEF MustElse, Request
<1> HIDE DEF r, rest
<1>3. PICK o : Advances(r, rest, o) /\ (Calm' => CaptureStage /\ CaptureStage')
  <2>1. CoRequest(r)
    BY <1>2, CapturedWith DEF CoRequest, CoOps, Graphs
  <2> QED BY <1>1, <2>1, Advance
<1>4. CASE o.ok
  BY <1>2, <1>3, <1>4
     DEF SlowOutline, Advances, CoDoes, Unposed, Posed, Marked, PhotoRight, Sure, CaptureStage,
         Keeps, Timed, Restored, rest
<1>5. CASE ~o.ok
  BY <1>2, <1>3, <1>5
     DEF SlowOutline, Advances, CoDoes, Unposed, Posed, Marked, PhotoRight, Sure, CaptureStage,
         Keeps, Timed, Restored, rest
<1> QED BY <1>3, <1>4, <1>5 DEF Advances

LEMMA RestoringStep ==
  ASSUME ExposureTypeOK, CoordinatorStep, NEW p \in Pairs, p = co.pair, Slow(p),
         Calm => CaptureStage, co.todo = Restoring(p),
         PhotoRight /\ ~co.ok /\ ~Calm
  PROVE  Keeps /\ (Calm' => CaptureStage') /\ SlowOutline(p)'
<1> DEFINE r == OrElse("restore", 0, <<>>)
           rest == Given(p)
<1>1. co.todo = <<r>> \o rest /\ IsList(rest)
  BY CaptureLists
<1>2. /\ r.op = "restore" /\ r.arg = 0 /\ r.instead = <<>>
      /\ r.must = FALSE /\ r.rest = FALSE
  BY DEF OrElse, Request
<1> HIDE DEF r, rest
<1>3. PICK o : Advances(r, rest, o) /\ (Calm' => CaptureStage /\ CaptureStage')
  <2>1. CoRequest(r)
    BY <1>2, CapturedWith DEF CoRequest, CoOps, Graphs
  <2> QED BY <1>1, <2>1, Advance
<1>4. CASE o.ok
  BY <1>2, <1>3, <1>4
     DEF SlowOutline, Advances, CoDoes, Unposed, Posed, Marked, PhotoRight, Sure, CaptureStage,
         Keeps, Timed, Restored, rest
<1>5. CASE ~o.ok
  BY <1>2, <1>3, <1>5
     DEF SlowOutline, Advances, CoDoes, Unposed, Posed, Marked, PhotoRight, Sure, CaptureStage,
         Keeps, Timed, Restored, rest
<1> QED BY <1>3, <1>4, <1>5 DEF Advances

LEMMA GivenStep ==
  ASSUME ExposureTypeOK, CoordinatorStep, NEW p \in Pairs, p = co.pair, Slow(p),
         Calm => CaptureStage, co.todo = Given(p),
         PhotoRight /\ (Calm \/ (co.ok /\ Sure) => Restored) /\ (Calm => b.camera = "on")
  PROVE  Keeps /\ (Calm' => CaptureStage') /\ SlowOutline(p)'
<1> DEFINE r == May("set", p)
           rest == <<>>
<1>1. co.todo = <<r>> \o rest /\ IsList(rest)
  BY CaptureLists, Alone DEF Given
<1>2. /\ r.op = "set" /\ r.arg = p /\ r.instead = <<>>
      /\ r.must = FALSE /\ r.rest = TRUE
  BY DEF May, Request
<1> HIDE DEF r, rest
<1>3. PICK o : Advances(r, rest, o) /\ (Calm' => CaptureStage /\ CaptureStage')
  <2>1. CoRequest(r)
    BY <1>2, CapturedWith DEF CoRequest, CoOps, Graphs
  <2> QED BY <1>1, <2>1, Advance
<1>4. CASE o.ok
  BY <1>2, <1>3, <1>4
     DEF SlowOutline, Advances, CoDoes, Unposed, Posed, Marked, PhotoRight, Sure, CaptureStage,
         Keeps, Timed, Restored, rest
<1>5. CASE ~o.ok
  BY <1>2, <1>3, <1>5
     DEF SlowOutline, Advances, CoDoes, Unposed, Posed, Marked, PhotoRight, Sure, CaptureStage,
         Keeps, Timed, Restored, rest
<1> QED BY <1>3, <1>4, <1>5 DEF Advances

LEMMA SlowStep ==
  ASSUME ExposureTypeOK, CoordinatorStep, NEW p \in Pairs, p = co.pair, Slow(p),
         Calm => CaptureStage, SlowOutline(p)
  PROVE  Keeps /\ (Calm' => CaptureStage') /\ SlowOutline(p)'
<1>1. co.todo # <<>>
  BY DEF CoordinatorStep
<1>2. CASE co.todo = Shoot(p) /\ ~Stacked(p) /\ Posed /\ b.stack = "none" /\ (Calm => b.camera = "on")
  <2>1. co.todo = Prepare(p) /\ Marked
    BY <1>2, CaptureLists DEF Marked
  <2> QED BY <1>2, <2>1, PrepareStep
<1>3. CASE /\ co.todo \in {CaptureRequests(p), Attempted(p), Recovery(p), GivenThenAnew(p), Anew(p),
                           StartAfresh(p), Afresh(p)}
           /\ Unposed
  BY <1>3, CaptureRequestsStep, AttemptedStep, RecoveryStep, GivenThenAnewStep, AnewStep,
     StartAfreshStep, AfreshStep
<1>4. CASE co.todo \in {Again(p), Expect(p)} /\ Unposed /\ (Calm => b.camera = "on")
  BY <1>4, AgainStep, ExpectStep
<1>5. CASE co.todo = Shoot(p) /\ Posed /\ b.stack = "none" /\ (Calm => b.camera = "on")
  BY <1>2, <1>5, ShootStep
<1>6. CASE co.todo \in {Prepare(p), Expose(p)} /\ Posed /\ Marked /\ (Calm => b.camera = "on")
  BY <1>6, PrepareStep, ExposeStep
<1>7. CASE co.todo = Back(p) /\ PhotoRight /\ (Calm => b.camera = "on")
  BY <1>7, BackStep
<1>8. CASE /\ co.todo = Given(p) /\ PhotoRight /\ (Calm => b.camera = "on")
           /\ Calm \/ (co.ok /\ Sure) => Restored
  BY <1>8, GivenStep
<1>9. CASE co.todo = Restoring(p) /\ PhotoRight /\ ~co.ok /\ ~Calm
  BY <1>9, RestoringStep
<1> QED BY <1>1, <1>3, <1>4, <1>5, <1>6, <1>7, <1>8, <1>9 DEF SlowOutline

(* A photo of the automatic exposure.                                       *)
LEMMA PlainKept ==
  ASSUME NEW r, NEW rest, NEW o, Advances(r, rest, o),
         r.op \in {"set", "other", "snapshot"}, Calm => CaptureStage, ~Slow(co.pair)
  PROVE  Calm' => CaptureStage'
<1> SUFFICES ASSUME Calm' PROVE CaptureStage'
  OBVIOUS
<1>1. CaptureStage /\ o.cost = 0 /\ ui' = ui
  BY DEF Advances, Keeps
<1>2. /\ b'.camera = b.camera /\ b'.cached = b.cached /\ b'.file = b.file
      /\ b'.transient => b.transient
      /\ b'.sensors = b.sensors \/ b'.sensors = Both(30)
  BY <1>1 DEF Advances, CoDoes
<1>3. Plain'
  BY <1>1, <1>2 DEF CaptureStage, Plain, Fresh, Off
<1> QED BY <1>1, <1>2, <1>3 DEF CaptureStage, InNight

LEMMA QuickSetStep ==
  ASSUME ExposureTypeOK, CoordinatorStep, NEW p \in Pairs, p = co.pair, ~Slow(p),
         Calm => CaptureStage, co.todo = CaptureRequests(p), Unposed
  PROVE  Keeps /\ (Calm' => CaptureStage') /\ QuickOutline(p)'
<1> DEFINE r == Must("set", p)
           rest == QuickOther(p)
<1>1. co.todo = <<r>> \o rest /\ IsList(rest)
  BY CaptureLists, Alone DEF Slow
<1>2. r.op = "set" /\ r.arg = p /\ r.instead = <<>> /\ r.must = TRUE /\ r.rest = FALSE
  BY DEF Must, Request
<1> HIDE DEF r
<1>3. PICK o : Advances(r, rest, o)
  <2>1. CoRequest(r)
    BY <1>2, CapturedWith DEF CoRequest, CoOps, Graphs
  <2> QED BY <1>1, <2>1, Advance
<1>4. Calm' => CaptureStage'
  BY <1>2, <1>3, PlainKept
<1>5. p = "auto" /\ Frame(p) = p /\ ~Stacked(p)
  BY ValuesOK DEF Slow, Stacked
<1> HIDE DEF rest
<1>6. co'.pair = p /\ co'.orphan = co.orphan /\ photo' = NoPhoto /\ b' = o.b
  BY <1>2, <1>3 DEF Advances, Keeps, Unposed, Posed
<1>7. CASE o.ok
  <2>1. co'.todo = rest
    BY <1>3, <1>7 DEF Advances
  <2>2. Sure => b'.desired = p
    BY <1>2, <1>3, <1>5, <1>6, <1>7 DEF Advances, CoDoes, Posed
  <2>3. b'.stack = "none"
    BY <1>2, <1>3, <1>6 DEF Advances, CoDoes, Unposed
  <2>4. Posed'
    BY <1>5, <1>6, <2>2 DEF Posed, Sure
  <2> QED BY <1>3, <1>4, <2>1, <2>3, <2>4 DEF QuickOutline, Advances, rest
<1>8. CASE ~o.ok
  <2>1. co'.todo = <<>>
    BY <1>2, <1>3, <1>8 DEF Advances
  <2>2. PhotoRight'
    BY <1>6 DEF PhotoRight
  <2> QED BY <1>3, <1>4, <2>1, <2>2 DEF QuickOutline, Advances
<1> QED BY <1>7, <1>8

LEMMA QuickOtherStep ==
  ASSUME ExposureTypeOK, CoordinatorStep, NEW p \in Pairs, p = co.pair, ~Slow(p),
         Calm => CaptureStage, co.todo = QuickOther(p), Posed /\ b.stack = "none"
  PROVE  Keeps /\ (Calm' => CaptureStage') /\ QuickOutline(p)'
<1> DEFINE r == Must("other", 0)
           rest == QuickShot(p)
<1>1. co.todo = <<r>> \o rest /\ IsList(rest)
  BY CaptureLists, Alone
<1>2. r.op = "other" /\ r.arg = 0 /\ r.instead = <<>> /\ r.must = TRUE /\ r.rest = FALSE
  BY DEF Must, Request
<1> HIDE DEF r
<1>3. PICK o : Advances(r, rest, o)
  <2>1. CoRequest(r)
    BY <1>2, CapturedWith DEF CoRequest, CoOps, Graphs
  <2> QED BY <1>1, <2>1, Advance
<1>4. Calm' => CaptureStage'
  BY <1>2, <1>3, PlainKept
<1>5. p = "auto" /\ Frame(p) = p /\ ~Stacked(p)
  BY ValuesOK DEF Slow, Stacked
<1> HIDE DEF rest
<1>6. co'.pair = p /\ co'.orphan = co.orphan /\ photo' = NoPhoto /\ b' = o.b
  BY <1>2, <1>3 DEF Advances, Keeps, Unposed, Posed
<1>7. CASE o.ok
  <2>1. co'.todo = rest
    BY <1>3, <1>7 DEF Advances
  <2>2. Sure => b'.desired = p
    BY <1>2, <1>3, <1>5, <1>6, <1>7 DEF Advances, CoDoes, Posed
  <2>3. b'.stack = "none"
    BY <1>2, <1>3, <1>6 DEF Advances, CoDoes, Unposed
  <2>4. Posed'
    BY <1>5, <1>6, <2>2 DEF Posed, Sure
  <2> QED BY <1>3, <1>4, <2>1, <2>3, <2>4 DEF QuickOutline, Advances, rest
<1>8. CASE ~o.ok
  <2>1. co'.todo = <<>>
    BY <1>2, <1>3, <1>8 DEF Advances
  <2>2. PhotoRight'
    BY <1>6 DEF PhotoRight
  <2> QED BY <1>3, <1>4, <2>1, <2>2 DEF QuickOutline, Advances
<1> QED BY <1>7, <1>8

LEMMA QuickShotStep ==
  ASSUME ExposureTypeOK, CoordinatorStep, NEW p \in Pairs, p = co.pair, ~Slow(p),
         Calm => CaptureStage, co.todo = QuickShot(p), Posed /\ b.stack = "none"
  PROVE  Keeps /\ (Calm' => CaptureStage') /\ QuickOutline(p)'
<1> DEFINE r == Must("snapshot", 0)
           rest == <<>>
<1>1. co.todo = <<r>> \o rest /\ IsList(rest)
  BY CaptureLists, Alone
<1>2. r.op = "snapshot" /\ r.arg = 0 /\ r.instead = <<>> /\ r.must = TRUE /\ r.rest = FALSE
  BY DEF Must, Request
<1> HIDE DEF r
<1>3. PICK o : Advances(r, rest, o)
  <2>1. CoRequest(r)
    BY <1>2, CapturedWith DEF CoRequest, CoOps, Graphs
  <2> QED BY <1>1, <2>1, Advance
<1>4. Calm' => CaptureStage'
  BY <1>2, <1>3, PlainKept
<1>5. p = "auto" /\ Frame(p) = p /\ ~Stacked(p)
  BY ValuesOK DEF Slow, Stacked
<1> HIDE DEF rest
<1>6. PhotoRight'
  <2>1. ~o.ok => photo' = NoPhoto
    BY <1>3 DEF Posed, Advances
  <2>2. o.ok => photo' = [frame |-> b.desired, of |-> "none"]
    BY <1>2, <1>3 DEF Advances, Exposed
  <2> QED BY <1>3, <1>5, <2>1, <2>2 DEF PhotoRight, Posed, Sure, Of, Keeps, Advances
<1> QED BY <1>2, <1>3, <1>4, <1>6 DEF QuickOutline, Advances, rest

(* The coordinator keeps what the photo needs, and its own part of the      *)
(* invariant.                                                              *)
LEMMA CoordinatorStepOK ==
  ASSUME ExposureTypeOK, CoordinatorStep, CaptureOutline, Calm => CaptureStage
  PROVE  Keeps /\ (Calm' => CaptureStage') /\ CaptureOutline'
<1> DEFINE p == co.pair
<1>1. p \in Pairs /\ co.busy
  BY DEF ExposureTypeOK, CoOK, CoordinatorStep
<1>2. ASSUME NEW q \in Pairs, q = p
      PROVE  Keeps /\ (Calm' => CaptureStage') /\ CaptureOutline'
  <2>1. CASE Slow(q)
    <3>1. SlowOutline(q)
      BY <1>1, <1>2, <2>1 DEF CaptureOutline
    <3>2. Keeps /\ (Calm' => CaptureStage') /\ SlowOutline(q)'
      BY <1>2, <2>1, <3>1, SlowStep
    <3>3. co'.pair = q
      BY <1>2, <3>2 DEF Keeps
    <3> QED BY <2>1, <3>2, <3>3 DEF CaptureOutline, Slow
  <2>2. CASE ~Slow(q)
    <3>1. QuickOutline(q)
      BY <1>1, <1>2, <2>2 DEF CaptureOutline
    <3>2. Keeps /\ (Calm' => CaptureStage') /\ QuickOutline(q)'
      BY <1>2, <2>2, <3>1, QuickSetStep, QuickOtherStep, QuickShotStep DEF QuickOutline, CoordinatorStep
    <3>3. co'.pair = q
      BY <1>2, <3>2 DEF Keeps
    <3> QED BY <2>2, <3>2, <3>3 DEF CaptureOutline, Slow
  <2> QED BY <2>1, <2>2
<1> QED BY <1>1, <1>2

-----------------------------------------------------------------------------
(* The other steps, and the parts of the invariant that hold whatever fails. *)
Basis == ExposureTypeOK /\ CaptureOutline /\ Awaits /\ ShownInNight
QuietCapture == Calm => Sure /\ (co.busy => CaptureStage)

(* What the UI, or its death, does to the backend does not reach a capture  *)
(* whose UI is gone.                                                       *)
LEMMA OrphanKept ==
  ASSUME CoOK, CaptureOutline, co.busy,
         co'.busy, co'.pair = co.pair, co'.todo = co.todo, co'.ok = co.ok, co'.orphan = TRUE,
         photo' = photo, b'.stack = b.stack, ~Calm'
  PROVE  CaptureOutline'
<1>1. ASSUME NEW q \in Pairs, q = co.pair
      PROVE  CaptureOutline'
  <2>1. ~Sure'
    BY DEF Sure
  <2>2. /\ Unposed => Unposed'
        /\ Posed => Posed'
        /\ Marked => Marked'
        /\ PhotoRight => PhotoRight'
    BY <2>1 DEF Unposed, Posed, Marked, PhotoRight, Sure
  <2>3. CASE Slow(q)
    <3>1. SlowOutline(q)
      BY <1>1, <2>3 DEF CaptureOutline
    <3>2. SlowOutline(q)'
      BY <2>1, <2>2, <3>1 DEF SlowOutline
    <3> QED BY <1>1, <2>3, <3>2 DEF CaptureOutline, Slow
  <2>4. CASE ~Slow(q)
    <3>1. QuickOutline(q)
      BY <1>1, <2>4 DEF CaptureOutline
    <3>2. QuickOutline(q)'
      BY <2>2, <3>1 DEF QuickOutline
    <3> QED BY <1>1, <2>4, <3>2 DEF CaptureOutline, Slow
  <2> QED BY <2>3, <2>4
<1> QED BY <1>1 DEF CoOK

(* A step of the UI while no photo is taken for it.                         *)
LEMMA UiAlone ==
  ASSUME Basis, QuietCapture, ~(co.busy /\ Sure), UNCHANGED <<co, photo>>,
         b'.stack = b.stack, Calm' => Calm
  PROVE  CoOK' /\ CaptureOutline' /\ Awaits'
<1>1. CoOK /\ CaptureOutline /\ co.orphan \in BOOLEAN
  BY DEF Basis, ExposureTypeOK, CoOK
<1>2. CoOK'
  BY <1>1 DEF CoOK
<1>3. Awaits'
  BY DEF Awaits, Sure
<1>4. CASE co.busy
  <2>1. co.orphan = TRUE /\ ~Calm'
    BY <1>1, <1>4 DEF Sure, QuietCapture
  <2> QED BY <1>1, <1>2, <1>3, <1>4, <2>1, OrphanKept
<1>5. CASE ~co.busy
  BY <1>2, <1>3, <1>5 DEF CaptureOutline
<1> QED BY <1>4, <1>5

LEMMA IdleAlone == ASSUME Awaits, Idle PROVE ~(co.busy /\ Sure)
  BY DEF Awaits, Idle

LEMMA NotUpAlone == ASSUME Awaits, ~ui.up PROVE ~(co.busy /\ Sure)
  BY DEF Awaits

(* A button begins a job.                                                   *)
LEMMA BeginOK ==
  ASSUME NEW name, NEW to, NEW todo, Begin(name, to, todo), ui'.up,
         \/ name \in SetUpJobs /\ todo \in AskedList(SetUpOps)
         \/ name \in ShowJobs /\ todo \in AskedList(ShowOps),
         name = "mode" => to \in Modes, name = "pair" => to \in Pairs, name # "none",
         ui'.gallery => name \in {"leave", "exit"}
  PROVE  JobOK'
<1>1. /\ job'.name = name /\ job'.to = to /\ job'.ok = TRUE /\ job'.todo = todo
      /\ job' = [name |-> job'.name, to |-> job'.to, ok |-> job'.ok, todo |-> job'.todo]
  BY DEF Begin
<1> QED BY <1>1 DEF JobOK

LEMMA IdleUp == ASSUME ExposureTypeOK, Idle PROVE ui.up /\ ui.gallery \in BOOLEAN /\ ui.shown \in Pairs
  BY DEF ExposureTypeOK, UiType, Idle

LEMMA CoordinatorStepKeeps ==
  ASSUME Basis, QuietCapture, CoordinatorStep
  PROVE  Basis' /\ QuietCapture'
<1>1. Keeps /\ (Calm' => CaptureStage') /\ CaptureOutline'
  BY CoordinatorStepOK DEF Basis, QuietCapture, CoordinatorStep
<1>2. ExposureTypeOK'
  BY <1>1 DEF Basis, ExposureTypeOK, Keeps, JobOK
<1>3. Awaits' /\ ShownInNight'
  BY <1>1 DEF Basis, Awaits, ShownInNight, Keeps, Sure, InNight, PreviewAgain, CoordinatorStep
<1>4. QuietCapture'
  BY <1>1 DEF QuietCapture, Keeps, Sure
<1> QED BY <1>1, <1>2, <1>3, <1>4 DEF Basis

LEMMA CoordinatorEndsKeeps ==
  ASSUME Basis, CoordinatorEnds
  PROVE  Basis' /\ QuietCapture'
<1>1. co'.busy = FALSE /\ co'.orphan = FALSE
  BY DEF CoordinatorEnds, NoCapture
<1>2. b' \in BackendType /\ b'.stack = "none"
  BY DEF CoordinatorEnds, Basis, ExposureTypeOK, BackendType
<1>3. CoOK'
  BY <1>1, <1>2 DEF CoordinatorEnds, CoOK, NoCapture, Pairs
<1>4. ExposureTypeOK'
  BY <1>2, <1>3 DEF CoordinatorEnds, Basis, ExposureTypeOK, JobOK
<1>5. ShownInNight'
  BY DEF CoordinatorEnds, Basis, ShownInNight, InNight
<1> QED BY <1>1, <1>4, <1>5 DEF Basis, CaptureOutline, Awaits, QuietCapture, Sure

LEMMA BootKeeps ==
  ASSUME Basis, QuietCapture, Boot
  PROVE  Basis'
<1> DEFINE todo == <<MustElse("start", GraphOf(files.mode), <<>>), Note("other", 0)>>
                   \o (IF files.mode = "night"
                       THEN <<Must("sync", 0), Must("apply", files.night), Must("preview", files.night)>>
                       ELSE <<May("sync", 0)>>)
<1>1. Begin("boot", "none", todo)
  BY DEF Boot
<1>2. todo \in AskedList(SetUpOps)
  BY BootListOK, FlatFrom DEF Basis, ExposureTypeOK, SetUpOps, PlainOps
<1> HIDE DEF todo
<1>3. CoOK' /\ CaptureOutline' /\ Awaits'
  BY UiAlone, NotUpAlone DEF Boot, Basis, Calm
<1>4. ui' \in UiType /\ ui'.up /\ ~ui'.gallery
  BY ShownOK DEF Boot, Basis, ExposureTypeOK, UiType, FilesType, Shown
<1>5. JobOK'
  BY <1>1, <1>2, <1>4, BeginOK DEF SetUpJobs
<1>6. ShownInNight'
  BY <1>1 DEF ShownInNight, ShowJobs, Begin
<1> QED BY <1>3, <1>4, <1>5, <1>6 DEF Basis, ExposureTypeOK, Boot

LEMMA RecoverKeeps ==
  ASSUME Basis, QuietCapture, Recover
  PROVE  Basis'
<1>1. Begin("recover", "none", PrimaryGraph) /\ UNCHANGED <<files, ui, co, b, photo, faults>>
  BY DEF Recover
<1>2. PrimaryGraph \in AskedList(SetUpOps)
  BY PrimaryGraphOK, FlatFrom DEF Basis, ExposureTypeOK, SetUpOps, PlainOps
<1>3. CoOK' /\ CaptureOutline' /\ Awaits'
  BY <1>1, UiAlone, IdleAlone DEF Recover, Basis, Calm
<1>4. JobOK'
  BY <1>1, <1>2, IdleUp, BeginOK DEF SetUpJobs, Recover, Basis
<1>5. ShownInNight'
  BY <1>1 DEF ShownInNight, ShowJobs, Begin
<1> QED BY <1>1, <1>3, <1>4, <1>5 DEF Basis, ExposureTypeOK

LEMMA SleepKeeps ==
  ASSUME Basis, QuietCapture, Sleep
  PROVE  Basis'
<1> DEFINE todo == <<OrElse("stop", 0, PrimaryGraph)>>
<1>1. Begin("sleep", "none", todo) /\ UNCHANGED <<files, ui, co, b, photo, faults>>
  BY DEF Sleep
<1>2. todo \in AskedList(SetUpOps)
  <2>1. PrimaryGraph \in FlatList(SetUpOps)
    BY PrimaryGraphOK DEF Basis, ExposureTypeOK, SetUpOps, PlainOps
  <2> QED BY <2>1, FlatOne, ArgsOK DEF SetUpOps
<1> HIDE DEF todo
<1>3. CoOK' /\ CaptureOutline' /\ Awaits'
  BY <1>1, UiAlone, IdleAlone DEF Sleep, Basis, Calm
<1>4. JobOK'
  BY <1>1, <1>2, IdleUp, BeginOK DEF SetUpJobs, Sleep, Basis
<1>5. ShownInNight'
  BY <1>1 DEF ShownInNight, ShowJobs, Begin
<1> QED BY <1>1, <1>3, <1>4, <1>5 DEF Basis, ExposureTypeOK

LEMMA TakingOK ==
  ASSUME files \in FilesType
  PROVE  Taking \in Pairs /\ (files.mode = "night" => Taking = files.night)
  BY DEF Taking, FilesType

LEMMA PressKeeps ==
  ASSUME Basis, QuietCapture, Press
  PROVE  Basis'
<1>1. Begin("snapshot", "none", PreviewAgain) /\ UNCHANGED <<files, ui, b, photo, faults>>
  BY DEF Press
<1>2. PreviewAgain \in AskedList(ShowOps)
  BY PreviewAgainOK DEF Basis, ExposureTypeOK, ShowOps
<1>3. JobOK'
  BY <1>1, <1>2, IdleUp, BeginOK DEF ShowJobs, Press, Basis
<1>4. ShownInNight'
  BY <1>1 DEF ShownInNight, ShowJobs, Begin, Basis, Press, Idle, InNight
<1>5. CASE co.busy
  <2>1. CoOK' /\ CaptureOutline' /\ Awaits'
    BY <1>1, <1>5, UiAlone, IdleAlone DEF Press, Basis, Calm
  <2> QED BY <1>1, <1>3, <1>4, <2>1 DEF Basis, ExposureTypeOK
<1>6. CASE ~co.busy
  <2>1. /\ co' = [busy |-> TRUE, todo |-> CaptureRequests(Taking), ok |-> TRUE, pair |-> Taking,
                  asked |-> ui.shown, mode |-> ui.mode, orphan |-> FALSE]
        /\ Unposed
    BY <1>6 DEF Press, Basis, ExposureTypeOK, CoOK, Unposed
  <2>2. Taking \in Pairs /\ (files.mode = "night" => Taking = files.night)
    BY TakingOK DEF Basis, ExposureTypeOK
  <2>3. CoOK'
    BY <2>1, <2>2 DEF CoOK
  <2>4. CaptureOutline'
    <3>1. ASSUME NEW q \in Pairs, q = Taking
          PROVE  co'.todo = CaptureRequests(q) /\ co'.pair = q
      BY <2>1, <3>1
    <3>2. Unposed'
      BY <1>1, <2>1 DEF Unposed
    <3> QED BY <2>2, <3>1, <3>2 DEF CaptureOutline, SlowOutline, QuickOutline
  <2>5. Awaits'
    <3>1. job' = [name |-> "snapshot", to |-> "none", ok |-> TRUE, todo |-> PreviewAgain]
      BY <1>1 DEF Begin
    <3>2. PreviewAgain' = PreviewAgain
      BY <1>1 DEF PreviewAgain, InNight
    <3> QED BY <1>1, <2>1, <2>2, <3>1, <3>2 DEF Awaits, Press, Idle
  <2> QED BY <1>1, <1>3, <1>4, <2>3, <2>4, <2>5 DEF Basis, ExposureTypeOK
<1> QED BY <1>5, <1>6

LEMMA SelectModeKeeps ==
  ASSUME Basis, QuietCapture, SelectMode
  PROVE  Basis'
<1>1. PICK sel \in Modes \ {ui.mode} :
        LET night == InNight \/ sel = "night"
            saved == [files EXCEPT ![Kind(ui.mode)] = ui.shown] IN
        \/ /\ files' = (IF night THEN saved ELSE files) /\ UNCHANGED faults
           /\ Begin("mode", sel, ModeRequests(sel, Load(files', sel), ui.shown))
        \/ /\ night /\ Spend(1) /\ UNCHANGED files
           /\ Begin("mode", sel, ModeRequests(sel, Load(files, sel), ui.shown))
  BY DEF SelectMode
<1>2. UNCHANGED <<ui, co, b, photo>> /\ Idle /\ ~ui.gallery
  BY DEF SelectMode
<1>3. files' \in FilesType
  BY <1>1 DEF Basis, ExposureTypeOK, FilesType, UiType, Kind
<1>4. faults' \in Nat /\ (Calm' => Calm)
  BY <1>1 DEF Basis, ExposureTypeOK, Spend, Calm
<1>5. PICK target \in Pairs : Begin("mode", sel, ModeRequests(sel, target, ui.shown))
  <2>1. Load(files, sel) \in Pairs /\ Load(files', sel) \in Pairs
    BY <1>3, PairsOK DEF Basis, ExposureTypeOK
  <2> QED BY <1>1, <2>1
<1>6. ModeRequests(sel, target, ui.shown) \in AskedList(SetUpOps)
  BY <1>2, ModeRequestsOK, IdleUp DEF Basis, ExposureTypeOK, SetUpOps, PlainOps
<1>7. JobOK'
  BY <1>2, <1>5, <1>6, IdleUp, BeginOK DEF SetUpJobs, Basis
<1>8. CoOK' /\ CaptureOutline' /\ Awaits'
  BY <1>2, <1>4, UiAlone, IdleAlone DEF Basis
<1>9. ShownInNight'
  BY <1>5 DEF ShownInNight, ShowJobs, Begin
<1> QED BY <1>2, <1>3, <1>4, <1>7, <1>8, <1>9 DEF Basis, ExposureTypeOK

(* A job that sets nothing up.                                              *)
LEMMA ShowJobKeeps ==
  ASSUME Basis, QuietCapture, Idle, UNCHANGED <<files, ui, co, b, photo, faults>>,
         NEW name \in ShowJobs, NEW to, NEW todo \in AskedList(ShowOps), Begin(name, to, todo),
         name = "pair" => to \in Pairs, name # "none", ui.gallery => name \in {"leave", "exit"}
  PROVE  Basis'
<1>1. JobOK'
  BY IdleUp, BeginOK DEF ShowJobs, Basis
<1>2. CoOK' /\ CaptureOutline' /\ Awaits'
  BY UiAlone, IdleAlone DEF Basis, Calm
<1>3. ShownInNight'
  BY DEF ShownInNight, ShowJobs, Begin, Basis, Idle, InNight
<1> QED BY <1>1, <1>2, <1>3 DEF Basis, ExposureTypeOK

LEMMA SelectPairKeeps ==
  ASSUME Basis, QuietCapture, SelectPair
  PROVE  Basis'
<1>1. PICK pair \in Allowed(ui.mode) :
        Begin("pair", pair, IF InNight THEN <<MustElse("preview", pair, PreviewAgain)>>
                                       ELSE <<Must("set", pair)>>)
  BY DEF SelectPair
<1>2. pair \in Pairs
  BY PairsOK
<1>3. /\ <<MustElse("preview", pair, PreviewAgain)>> \in AskedList(ShowOps)
      /\ <<Must("set", pair)>> \in AskedList(ShowOps)
  BY <1>2, ArgsOK, PreviewAgainOK, FlatOne, FlatFrom DEF ShowOps, Basis, ExposureTypeOK
<1> DEFINE todo == IF InNight THEN <<MustElse("preview", pair, PreviewAgain)>>
                              ELSE <<Must("set", pair)>>
<1>4. todo \in AskedList(ShowOps) /\ Begin("pair", pair, todo)
  BY <1>1, <1>3
<1> HIDE DEF todo
<1> QED BY <1>2, <1>4, ShowJobKeeps DEF SelectPair, ShowJobs

LEMMA LcdOnKeeps ==
  ASSUME Basis, QuietCapture, LcdOn
  PROVE  Basis'
<1>1. PreviewAgain \in AskedList(ShowOps)
  BY PreviewAgainOK DEF Basis, ExposureTypeOK, ShowOps
<1> QED BY <1>1, ShowJobKeeps DEF LcdOn, ShowJobs

LEMMA GalleryKeeps ==
  ASSUME Basis, QuietCapture, Gallery
  PROVE  Basis'
<1>1. PreviewAgain \in AskedList(ShowOps)
  BY PreviewAgainOK DEF Basis, ExposureTypeOK, ShowOps
<1>2. <<Must("play", 0)>> \in AskedList(ShowOps) /\ <<Must("endPlay", 0)>> \in AskedList(ShowOps)
  BY ArgsOK, FlatOne, FlatFrom DEF ShowOps
<1>3. <<Must("endPlay", 0)>> \o PreviewAgain \in AskedList(ShowOps)
  BY <1>1, <1>2, AskedFrom
<1>4. CASE ~ui.gallery /\ Begin("enter", "none", <<Must("play", 0)>>)
  BY <1>2, <1>4, ShowJobKeeps DEF Gallery, ShowJobs
<1>5. CASE Begin("leave", "none", <<Must("endPlay", 0)>> \o PreviewAgain)
  BY <1>3, <1>5, ShowJobKeeps DEF Gallery, ShowJobs
<1> QED BY <1>4, <1>5 DEF Gallery

LEMMA ExitKeeps ==
  ASSUME Basis, QuietCapture, Exit
  PROVE  Basis'
<1> DEFINE s1 == If(ui.gallery, <<May("endPlay", 0)>>)
           s2 == If(InNight, <<May("standard", 0), May("set", ui.shown)>>)
<1>1. ui.shown \in Pairs
  BY DEF Basis, ExposureTypeOK, UiType
<1>2. /\ <<May("endPlay", 0)>> \in AskedList(ShowOps)
      /\ <<May("standard", 0)>> \in AskedList(ShowOps)
      /\ <<May("set", ui.shown)>> \in AskedList(ShowOps)
  BY <1>1, ArgsOK, FlatOne, FlatFrom DEF ShowOps
<1>3. <<May("standard", 0), May("set", ui.shown)>> \in AskedList(ShowOps)
  BY <1>2, AskedFrom, TwoByOne
<1>4. s1 \in AskedList(ShowOps) /\ s2 \in AskedList(ShowOps)
  BY <1>2, <1>3, AskedFrom
<1>5. Begin("exit", "none", s1 \o s2)
  BY DEF Exit
<1> HIDE DEF s1, s2
<1>6. s1 \o s2 \in AskedList(ShowOps)
  BY <1>4, AskedFrom
<1> QED BY <1>5, <1>6, ShowJobKeeps DEF Exit, ShowJobs

LEMMA UiStepKeeps ==
  ASSUME Basis, QuietCapture, UiStep
  PROVE  Basis'
<1>1. PICK r, o :
         /\ r = Head(job.todo) /\ o \in Outcomes(r) /\ Proceeds(r, o)
         /\ Typed(o) /\ o.b.stack = b.stack
         /\ r.op \in AllOps /\ r.must \in BOOLEAN /\ r.rest \in BOOLEAN
         /\ r.op \in {"set", "apply", "preview"} => r.arg \in Pairs
         /\ r.op = "start" => r.arg \in Graphs
         /\ job.name \in SetUpJobs => r.op \in SetUpOps
         /\ job.name \in ShowJobs => r.op \in ShowOps
  BY UiProceeds DEF Basis
<1>2. ui.up /\ job.todo # <<>> /\ ~Waiting /\ UNCHANGED <<files, co, photo>>
  BY DEF UiStep
<1>3. /\ b' = o.b /\ b' \in BackendType /\ o.ok \in BOOLEAN /\ faults' \in Nat
      /\ Calm' => Calm
  <2>1. b' = o.b /\ faults' = faults + o.cost /\ faults \in Nat /\ o.cost \in Nat
        /\ o.b \in BackendType /\ o.ok \in BOOLEAN
    BY <1>1 DEF Proceeds, Typed, Basis, ExposureTypeOK
  <2> QED BY <2>1 DEF Calm
<1>4. CoOK' /\ CaptureOutline' /\ Awaits'
  <2>1. ~(co.busy /\ Sure)
    BY <1>2 DEF Basis, Awaits, Waiting, Sure
  <2> QED BY <1>1, <1>2, <1>3, <2>1, UiAlone
<1>5. ui' \in UiType /\ ui'.up = ui.up /\ ui'.gallery = ui.gallery /\ ui'.mode = ui.mode
  <2>1. ui \in UiType /\ Shown(ui.mode) \in Pairs
    BY ShownOK DEF Basis, ExposureTypeOK, Shown
  <2>2. ui' = ui \/ \E p \in Pairs : ui' = [ui EXCEPT !.shown = p]
    BY <1>1, <2>1 DEF Proceeds
  <2> QED BY <2>1, <2>2 DEF UiType
<1>6. job.name \in ShowJobs => ui' = ui
  BY <1>1 DEF Proceeds, ShowOps
<1>7. JobOK'
  <2>1. \A ops : job.todo \in AskedList(ops) =>
           Tail(job.todo) \in AskedList(ops) /\ r.instead \in AskedList(ops)
    BY <1>1, <1>2, AskedFirst
  <2>2. /\ job'.name = job.name /\ job'.to = job.to /\ job'.ok \in BOOLEAN
        /\ job'.todo = IF o.ok \/ r.rest THEN Tail(job.todo) ELSE r.instead
        /\ job' = [name |-> job'.name, to |-> job'.to, ok |-> job'.ok, todo |-> job'.todo]
    BY <1>1, <1>3 DEF Proceeds, Basis, ExposureTypeOK, JobOK
  <2>3. job.name # "none"
    BY <1>2 DEF Basis, ExposureTypeOK, JobOK, NoJob
  <2> QED BY <1>2, <1>5, <2>1, <2>2, <2>3 DEF Basis, ExposureTypeOK, JobOK
<1>8. ShownInNight'
  BY <1>1, <1>2, <1>6 DEF ShownInNight, Basis, InNight, Proceeds
<1> QED BY <1>2, <1>3, <1>4, <1>5, <1>7, <1>8 DEF Basis, ExposureTypeOK

LEMMA SavingOK ==
  ASSUME ExposureTypeOK, Saving
  PROVE  /\ files' \in FilesType /\ faults' \in Nat /\ (Calm' => Calm)
         /\ job.name \notin {"mode", "pair"} => files' = files
<1>1. files \in FilesType /\ faults \in Nat /\ (job.name = "mode" => job.to \in Modes)
      /\ (job.name = "pair" => job.to \in Pairs) /\ Modes \subseteq {"photo", "video", "night"}
  BY ConstantsAssumption DEF ExposureTypeOK, JobOK
<1>2. files' = files \/ (job.name = "mode" /\ files' = [files EXCEPT !.mode = job.to])
      \/ (job.name = "pair" /\ (\/ files' = [files EXCEPT !.profile = job.to]
                                \/ files' = [files EXCEPT !.profile = job.to, !.night = job.to]))
  BY DEF Saving, SavedPair
<1>3. faults' = faults \/ faults' = faults + 1
  BY DEF Saving, Spend
<1>4. files' \in FilesType
  BY <1>1, <1>2 DEF FilesType
<1> QED BY <1>1, <1>2, <1>3, <1>4 DEF Calm

LEMMA FinishKeeps ==
  ASSUME Basis, QuietCapture, Finish
  PROVE  Basis'
<1>1. /\ ui.up /\ job.name # "none" /\ ~Waiting /\ Saving /\ job' = NoJob
      /\ UNCHANGED <<co, b, photo>>
  BY DEF Finish
<1>2. /\ files' \in FilesType /\ faults' \in Nat /\ (Calm' => Calm)
      /\ job.name \notin {"mode", "pair"} => files' = files
  BY <1>1, SavingOK DEF Basis
<1>3. CoOK' /\ CaptureOutline' /\ Awaits'
  <2>1. ~(co.busy /\ Sure)
    BY <1>1 DEF Basis, Awaits, Waiting, Sure
  <2> QED BY <1>1, <1>2, <2>1, UiAlone
<1> DEFINE mode == IF job.name = "mode" /\ job.ok THEN job.to ELSE ui.mode
           gallery == IF job.ok THEN job.name = "enter" \/ (ui.gallery /\ job.name # "leave")
                      ELSE ui.gallery
           kept == job.name = "snapshot" \/ gallery
           available == CASE job.name \in {"boot", "recover"} -> job.ok
                          [] job.name = "sleep" -> job.ok /\ b.camera = "on"
                          [] OTHER -> ui.available
<1>4. ui' = [up |-> job.name # "exit", mode |-> mode,
             shown |-> IF kept THEN ui.shown ELSE ShownOf(files', mode),
             available |-> available, gallery |-> gallery]
  BY DEF Finish
<1>5. mode \in {"photo", "video", "night"} /\ gallery \in BOOLEAN /\ available \in BOOLEAN
  BY ConstantsAssumption DEF Basis, ExposureTypeOK, JobOK, UiType
<1>6. ShownOf(files', mode) \in Pairs /\ ui.shown \in Pairs
  BY <1>2, ShownOK DEF Basis, ExposureTypeOK, UiType
<1>7. kept => job.name \in ShowJobs /\ job.name # "mode" /\ job.name # "pair"
  BY <1>1 DEF Basis, ExposureTypeOK, JobOK, ShowJobs
<1>8. mode = "night" /\ ~kept => ShownOf(files', mode) = files'.night
  BY DEF ShownOf
<1>9. mode = "night" /\ kept => ui.shown = files'.night
  BY <1>1, <1>2, <1>7 DEF Basis, ShownInNight, InNight
<1> HIDE DEF mode, gallery, kept, available
<1>10. ui' \in UiType
  BY <1>4, <1>5, <1>6 DEF UiType
<1>11. ShownInNight'
  BY <1>4, <1>8, <1>9 DEF ShownInNight, InNight
<1>12. JobOK'
  <2>1. <<>> \in AskedList(ShowOps)
    BY AskedFrom
  <2> QED BY <1>1, <2>1 DEF JobOK, NoJob, ShowJobs
<1> QED BY <1>1, <1>2, <1>3, <1>10, <1>11, <1>12 DEF Basis, ExposureTypeOK

LEMMA PollKeeps ==
  ASSUME Basis, QuietCapture, Poll
  PROVE  Basis'
<1>1. Idle /\ ui' = [ui EXCEPT !.shown = Shown(ui.mode)] /\ UNCHANGED <<files, job, co, b, photo, faults>>
  BY DEF Poll
<1>2. /\ ui' \in UiType /\ ui'.up = ui.up /\ ui'.mode = ui.mode /\ ui'.gallery = ui.gallery
      /\ ui'.shown = Shown(ui.mode)
  BY <1>1, ShownOK DEF Basis, ExposureTypeOK, UiType, Shown
<1>3. CoOK' /\ CaptureOutline' /\ Awaits'
  BY <1>1, UiAlone, IdleAlone DEF Basis, Calm
<1>4. JobOK'
  BY <1>1, <1>2 DEF Basis, ExposureTypeOK, JobOK
<1>5. ShownInNight'
  BY <1>1, <1>2 DEF ShownInNight, InNight, Shown, ShownOf
<1> QED BY <1>1, <1>2, <1>3, <1>4, <1>5 DEF Basis, ExposureTypeOK

LEMMA CrashKeeps ==
  ASSUME Basis, Crash
  PROVE  Basis' /\ ~Calm'
<1>1. /\ Spend(1) /\ ui' = [ui EXCEPT !.up = FALSE] /\ job' = NoJob
      /\ co' = [co EXCEPT !.orphan = co.busy] /\ UNCHANGED <<files, b, photo>>
  BY DEF Crash
<1>2. ui' \in UiType /\ ~ui'.up
  BY <1>1 DEF Basis, ExposureTypeOK, UiType
<1>3. faults' \in Nat /\ ~Calm'
  BY <1>1 DEF Basis, ExposureTypeOK, Spend, Calm
<1>4. JobOK'
  <2>1. <<>> \in AskedList(ShowOps)
    BY AskedFrom
  <2> QED BY <1>1, <1>2, <2>1 DEF JobOK, NoJob, ShowJobs
<1>5. /\ co' = [busy |-> co.busy, todo |-> co.todo, ok |-> co.ok, pair |-> co.pair,
                asked |-> co.asked, mode |-> co.mode, orphan |-> co.busy]
      /\ co.busy \in BOOLEAN /\ co.ok \in BOOLEAN /\ co.pair \in Pairs
      /\ ~co.busy => co = NoCapture /\ photo = NoPhoto /\ b.stack = "none"
  <2> DEFINE u == co.busy
             l == co.todo
             k == co.ok
             p == co.pair
             a == co.asked
             m == co.mode
             o == co.orphan
  <2>1. co = [busy |-> u, todo |-> l, ok |-> k, pair |-> p, asked |-> a, mode |-> m, orphan |-> o]
    BY DEF Basis, ExposureTypeOK, CoOK
  <2>2. co' = [co EXCEPT !.orphan = u]
    BY <1>1
  <2> HIDE DEF u, l, k, p, a, m, o
  <2>3. co' = [busy |-> u, todo |-> l, ok |-> k, pair |-> p, asked |-> a, mode |-> m, orphan |-> u]
    BY <2>1, <2>2
  <2> QED BY <2>3 DEF u, l, k, p, a, m, o, Basis, ExposureTypeOK, CoOK
<1>6. CoOK'
  <2>1. /\ co' = [busy |-> co'.busy, todo |-> co'.todo, ok |-> co'.ok, pair |-> co'.pair,
                  asked |-> co'.asked, mode |-> co'.mode, orphan |-> co'.orphan]
        /\ co'.busy = co.busy /\ co'.ok = co.ok /\ co'.pair = co.pair /\ co'.orphan = co.busy
    BY <1>5
  <2>2. ASSUME ~co.busy
        PROVE  co' = NoCapture
    <3>1. co = NoCapture /\ co.busy = FALSE
      BY <1>5, <2>2
    <3>2. /\ co.todo = <<>> /\ co.ok = TRUE /\ co.pair = "auto" /\ co.asked = "auto"
          /\ co.mode = "photo"
      BY <3>1 DEF NoCapture
    <3> QED BY <1>5, <3>1, <3>2 DEF NoCapture
  <2> QED BY <1>1, <1>5, <2>1, <2>2 DEF CoOK
<1>7. CASE co.busy
  <2>1. co'.orphan = TRUE /\ co'.busy
    BY <1>5, <1>7
  <2>2. CaptureOutline'
    BY <1>1, <1>3, <1>5, <1>7, <2>1, OrphanKept DEF Basis, ExposureTypeOK
  <2>3. Awaits'
    BY <2>1 DEF Awaits, Sure
  <2> QED BY <1>1, <1>2, <1>3, <1>4, <1>6, <2>2, <2>3 DEF Basis, ExposureTypeOK, ShownInNight
<1>8. CASE ~co.busy
  <2>1. CaptureOutline' /\ Awaits'
    BY <1>5, <1>8 DEF CaptureOutline, Awaits
  <2> QED BY <1>1, <1>2, <1>3, <1>4, <1>6, <2>1 DEF Basis, ExposureTypeOK, ShownInNight
<1> QED BY <1>7, <1>8

-----------------------------------------------------------------------------
(* While nothing fails: the lists that bring a preview back.                *)
LEMMA ShowOne ==
  ASSUME NEW n, NEW r, r.op = "preview", r.arg = n, r.instead = <<>>
  PROVE  ShowList(<<r>>, n)
<1>1. <<r>> \in Seq({r}) /\ Len(<<r>>) = 1 /\ <<r>>[1] = r /\ <<r>> # <<>>
  OBVIOUS
<1> DEFINE s == <<r>>
<1>2. s # <<>> /\ Len(s) = 1 /\ s[1] = r
  BY <1>1
<1> HIDE DEF s
<1>3. ShowList(s, n)
  BY <1>2 DEF ShowList
<1> QED BY <1>3 DEF s

LEMMA ShowFirst ==
  ASSUME NEW S, NEW s \in Seq(S), NEW n, ShowList(s, n)
  PROVE  /\ s # <<>> /\ Head(s).instead = <<>>
         /\ \/ Head(s).op \in ShowingOps /\ ShowList(Tail(s), n)
            \/ Head(s).op = "preview" /\ Head(s).arg = n /\ Tail(s) = <<>>
<1>1. s # <<>> /\ Len(s) \in Nat /\ Len(s) > 0 /\ Head(s) = s[1]
  BY DEF ShowList
<1>2. Tail(s) \in Seq(S) /\ Len(Tail(s)) = Len(s) - 1 /\ \A i \in 1 .. Len(s) - 1 : Tail(s)[i] = s[i + 1]
  BY <1>1
<1>3. CASE Len(s) = 1
  <2> DEFINE t == Tail(s)
  <2>1. t \in Seq(S) /\ Len(t) = 0
    BY <1>2, <1>3
  <2> HIDE DEF t
  <2>2. t = <<>>
    BY <2>1
  <2>3. s[1].op = "preview" /\ s[1].arg = n /\ s[1].instead = <<>>
    BY <1>3 DEF ShowList
  <2> QED BY <1>1, <2>2, <2>3 DEF t
<1>4. CASE Len(s) > 1
  <2>1. s[1].op \in ShowingOps /\ s[1].instead = <<>>
    BY <1>1, <1>4 DEF ShowList
  <2> DEFINE t == Tail(s)
  <2>2. t \in Seq(S) /\ Len(t) = Len(s) - 1 /\ \A i \in 1 .. Len(s) - 1 : t[i] = s[i + 1]
    BY <1>2
  <2> HIDE DEF t
  <2>3. t # <<>>
    BY <1>1, <1>4, <2>2
  <2>4. \A i \in 1 .. Len(t) - 1 : t[i].op \in ShowingOps
    BY <1>1, <1>4, <2>2 DEF ShowList
  <2>5. \A i \in 1 .. Len(t) : t[i].instead = <<>>
    BY <1>1, <1>4, <2>2 DEF ShowList
  <2>6. t[Len(t)] = s[Len(s)]
    BY <1>1, <1>4, <2>2
  <2>7. ShowList(t, n)
    BY <2>3, <2>4, <2>5, <2>6 DEF ShowList
  <2> QED BY <1>1, <2>1, <2>7 DEF t
<1>5. Len(s) = 1 \/ Len(s) > 1
  <2>1. \A k \in Nat : k > 0 => k = 1 \/ k > 1
    OBVIOUS
  <2> QED BY <1>1, <2>1, Zenon
<1> QED BY <1>3, <1>4, <1>5

(* A request that is put first.                                             *)
LEMMA ShowMore ==
  ASSUME NEW s, IsList(s), NEW n, ShowList(s, n), NEW r, r.op \in ShowingOps, r.instead = <<>>
  PROVE  ShowList(<<r>> \o s, n) /\ IsList(<<r>> \o s)
<1>1. PICK S : s \in Seq(S)
  BY DEF IsList
<1> DEFINE T == S \cup {r}
           f == <<r>>
           t == f \o s
<1>2. s \in Seq(T) /\ f \in Seq(T) /\ Len(f) = 1 /\ f[1] = r
  BY <1>1
<1> HIDE DEF T, f
<1>3. /\ t \in Seq(T) /\ Len(t) = 1 + Len(s)
      /\ \A i \in 1 .. Len(f) : t[i] = f[i]
      /\ \A i \in 1 .. Len(s) : t[Len(f) + i] = s[i]
  <2>1. f \in Seq(T) /\ s \in Seq(T)
    BY <1>2
  <2>2. /\ t \in Seq(T) /\ Len(t) = Len(f) + Len(s)
        /\ \A i \in 1 .. Len(f) : t[i] = f[i]
        /\ \A i \in 1 .. Len(s) : t[Len(f) + i] = s[i]
    BY <2>1, ConcatProperties
  <2> QED BY <1>2, <2>2
<1> HIDE DEF t
<1>4. Len(s) \in Nat /\ Len(s) > 0
  BY <1>2 DEF ShowList
<1>5. t[1] = r /\ \A i \in 2 .. Len(t) : t[i] = s[i - 1] /\ i - 1 \in 1 .. Len(s)
  BY <1>2, <1>3, <1>4
<1>6. t # <<>> /\ t[Len(t)] = s[Len(s)]
  BY <1>3, <1>4, <1>5
<1>7. \A i \in 1 .. Len(t) - 1 : t[i].op \in ShowingOps
  <2> TAKE i \in 1 .. Len(t) - 1
  <2>1. CASE i = 1
    BY <1>5, <2>1
  <2>2. CASE i # 1
    <3>1. i \in 2 .. Len(t) /\ i - 1 \in 1 .. Len(s) - 1
      BY <1>2, <1>3, <1>4, <2>2
    <3>2. s[i - 1].op \in ShowingOps
      BY <3>1 DEF ShowList
    <3> QED BY <1>5, <3>1, <3>2
  <2> QED BY <2>1, <2>2
<1>8. \A i \in 1 .. Len(t) : t[i].instead = <<>>
  BY <1>3, <1>4, <1>5 DEF ShowList
<1>9. ShowList(t, n)
  BY <1>6, <1>7, <1>8 DEF ShowList
<1> QED BY <1>3, <1>9 DEF IsList, t, f

(* What the backend does for the UI when no call fails.                     *)
CalmDoes(r, o) ==
  /\ r.op = "start" /\ b.camera # "playing" => o.ok /\ b'.camera = "on" /\ (Plain => Fresh')
  /\ r.op = "stop" /\ b.camera # "playing" => o.ok /\ Off'
  /\ r.op = "other" => o.ok /\ b' = b
  /\ r.op = "sync" /\ InNight => o.ok /\ b' = b
  /\ r.op = "sync" /\ Plain => Plain'
  /\ r.op \in {"apply", "set"} =>
       /\ o.ok <=> b.camera = "on"
       /\ b'.camera = b.camera /\ (Fresh => Fresh') /\ (Off => Off')
  /\ r.op = "preview" /\ r.arg \in NightPairs =>
       IF b.camera = "on" THEN o.ok /\ Lit(r.arg)' ELSE ~o.ok /\ b' = b
  /\ r.op = "standard" => IF b.camera = "on" THEN o.ok /\ Fresh' ELSE ~o.ok /\ b' = b
  /\ r.op = "play" /\ b.camera # "playing" =>
       o.ok /\ b'.camera = "playing" /\ b'.cached = b.cached /\ b'.file = b.file
  /\ r.op = "endPlay" => /\ o.ok /\ b'.camera = "on" /\ ~b'.transient /\ b'.sensors = Both(30)
                         /\ b'.cached = b.cached /\ b'.file = b.file

LEMMA UiCalm ==
  ASSUME files \in FilesType, ui \in UiType, b \in BackendType,
         NEW r, r.op \in AllOps,
         r.op \in {"set", "apply", "preview"} => r.arg \in Pairs,
         r.op = "start" => r.arg \in Graphs,
         NEW o \in Outcomes(r), o.cost = 0, b' = o.b
  PROVE  CalmDoes(r, o)
<1>0. Typed(o)
  BY UiOutcomeOK
<1>1. CASE r.op = "start"
  <2>1. o \in StartGraph(r.arg)
    BY <1>1 DEF Outcomes
  <2>2. b.camera # "playing" =>
          /\ o.ok /\ o.b.camera = "on"
          /\ o.b = b \/ (~o.b.transient /\ o.b.cached = 30 /\ Timed(o.b, 30))
    BY <1>1, <2>1, StartGraphOK
  <2> QED BY <1>1, <2>2 DEF CalmDoes, Plain, Fresh, Off, Timed
<1>2. CASE r.op = "stop"
  <2>1. o \in StopGraph
    BY <1>2 DEF Outcomes
  <2> QED BY <1>2, <2>1, StopGraphOK DEF CalmDoes, Off
<1>3. CASE r.op = "other"
  <2>1. o \in {Does(b, TRUE, 0), Does(b, FALSE, 1)}
    BY <1>3 DEF Outcomes
  <2> QED BY <1>3, <2>1, AsItIs DEF CalmDoes
<1>4. CASE r.op = "sync" /\ InNight
  <2>1. o \in {Does(b, TRUE, 0), Does(b, FALSE, 1)}
    BY <1>4 DEF Outcomes, InNight
  <2>2. o.ok /\ o.b = b
    BY <2>1, AsItIs
  <2> QED BY <1>4, <2>2 DEF CalmDoes, Plain, Fresh, Off
<1>5. CASE r.op = "sync" /\ ~InNight
  <2>1. o \in SetPair(Shown("photo")) /\ Shown("photo") \in Pairs
    BY <1>5, ShownOK DEF Outcomes, InNight, Shown
  <2>2. /\ o.b.camera = b.camera /\ o.b.cached = b.cached /\ o.b.file = b.file
        /\ o.b.sensors = b.sensors /\ (o.b.transient => b.transient)
    BY <2>1, SetPairOK
  <2> QED BY <1>5, <2>2 DEF CalmDoes, Plain, Fresh, Off
<1>6. CASE r.op \in {"apply", "set"}
  <2>1. o \in SetPair(r.arg) /\ r.arg \in Pairs
    BY <1>6 DEF Outcomes
  <2>2. /\ o.b.camera = b.camera /\ o.b.cached = b.cached /\ o.b.file = b.file
        /\ o.b.sensors = b.sensors /\ (o.b.transient => b.transient)
        /\ o.ok <=> b.camera = "on"
    BY <2>1, SetPairOK
  <2> QED BY <1>6, <2>2 DEF CalmDoes, Fresh, Off
<1>7. CASE r.op = "preview"
  <2> DEFINE fps == PreviewRate(r.arg)
  <2>1. o \in NightPreview(fps)
    BY <1>7 DEF Outcomes
  <2>2. r.arg \in NightPairs => fps \in Rates /\ fps # 30 /\ fps # 0
    BY ValuesOK DEF Rates
  <2> HIDE DEF fps
  <2>3. ASSUME r.arg \in NightPairs
        PROVE  IF b.camera = "on"
                 THEN o.ok /\ b'.camera = "on" /\ b'.transient /\ b'.cached = fps /\ Timed(b', fps)
                 ELSE ~o.ok /\ b' = b
    BY <2>1, <2>2, <2>3, NightPreviewOK
  <2>4. r.arg \in NightPairs =>
          IF b.camera = "on" THEN o.ok /\ Lit(r.arg)' ELSE ~o.ok /\ b' = b
    BY <2>3 DEF Lit, Timed, fps
  <2> QED BY <1>7, <2>4 DEF CalmDoes
<1>8. CASE r.op = "standard"
  <2> DEFINE fps == 30
  <2>1. o \in NightPreview(fps) /\ fps \in Rates /\ fps # 0 /\ fps = 30
    BY <1>8 DEF Outcomes, Rates
  <2> HIDE DEF fps
  <2>2. IF b.camera = "on"
          THEN o.ok /\ b'.camera = "on" /\ ~b'.transient /\ b'.cached = 30 /\ Timed(b', 30)
          ELSE ~o.ok /\ b' = b
    BY <2>1, NightPreviewOK
  <2> QED BY <1>8, <2>2 DEF CalmDoes, Fresh, Timed
<1>9. CASE r.op = "play"
  <2>1. o \in Playback
    BY <1>9 DEF Outcomes
  <2> QED BY <1>9, <2>1, GalleryOK DEF CalmDoes
<1>10. CASE r.op = "endPlay"
  <2>1. o \in EndPlayback
    BY <1>10 DEF Outcomes
  <2> QED BY <1>10, <2>1, GalleryOK DEF CalmDoes
<1> QED BY <1>1, <1>2, <1>3, <1>4, <1>5, <1>6, <1>7, <1>8, <1>9, <1>10
        DEF AllOps, SetUpOps, ShowOps

-----------------------------------------------------------------------------
(* A step of the UI's list while nothing fails.                             *)
Advancing(r, o) ==
  /\ UNCHANGED <<files, co>> /\ ui.up /\ ui'.up
  /\ ui'.mode = ui.mode /\ ui'.gallery = ui.gallery /\ (job.name \in ShowJobs => ui' = ui)
  /\ job.todo # <<>> /\ r = Head(job.todo) /\ IsList(job.todo)
  /\ job'.name = job.name /\ job'.to = job.to /\ job'.ok = (job.ok /\ (o.ok \/ ~r.must))
  /\ job'.todo = IF o.ok \/ r.rest THEN Tail(job.todo) ELSE r.instead
  /\ o.ok \in BOOLEAN /\ CalmDoes(r, o)

LEMMA UiAdvances ==
  ASSUME Basis, UiStep, Calm'
  PROVE  \E r, o : Advancing(r, o)
<1>1. PICK r, o :
         /\ r = Head(job.todo) /\ o \in Outcomes(r) /\ Proceeds(r, o)
         /\ Typed(o) /\ o.b.stack = b.stack
         /\ r.op \in AllOps /\ r.must \in BOOLEAN /\ r.rest \in BOOLEAN
         /\ r.op \in {"set", "apply", "preview"} => r.arg \in Pairs
         /\ r.op = "start" => r.arg \in Graphs
         /\ job.name \in SetUpJobs => r.op \in SetUpOps
         /\ job.name \in ShowJobs => r.op \in ShowOps
  BY UiProceeds DEF Basis
<1>2. o.cost = 0 /\ b' = o.b /\ o.ok \in BOOLEAN
  <2>1. b' = o.b /\ faults' = faults + o.cost /\ faults \in Nat /\ o.cost \in Nat
        /\ o.ok \in BOOLEAN /\ faults' = 0
    BY <1>1 DEF Proceeds, Typed, Basis, ExposureTypeOK, Calm
  <2> QED BY <2>1
<1>3. CalmDoes(r, o)
  BY <1>1, <1>2, UiCalm DEF Basis, ExposureTypeOK
<1>4. ui.up /\ job.todo # <<>> /\ UNCHANGED <<files, co>>
  BY DEF UiStep
<1>5. ui'.up = ui.up /\ ui'.gallery = ui.gallery /\ ui'.mode = ui.mode
  <2>1. ui' = ui \/ \E p : ui' = [ui EXCEPT !.shown = p]
    BY <1>1 DEF Proceeds
  <2> QED BY <2>1 DEF Basis, ExposureTypeOK, UiType
<1>6. job.name \in ShowJobs => ui' = ui
  BY <1>1 DEF Proceeds, ShowOps
<1>7. IsList(job.todo)
  BY DEF IsList, AskedList, Basis, ExposureTypeOK, JobOK
<1> QED BY <1>1, <1>2, <1>3, <1>4, <1>5, <1>6, <1>7 DEF Advancing, Proceeds

LEMMA ShowStageStep ==
  ASSUME NEW n \in NightPairs, NEW r, NEW o, Advancing(r, o), ShowStage(n), InNight
  PROVE  ShowStage(n)'
<1>1. ShowList(job.todo, n) /\ OnOrOff
  BY DEF ShowStage, Advancing
<1>2. /\ r.instead = <<>>
      /\ \/ r.op \in ShowingOps /\ ShowList(Tail(job.todo), n)
         \/ r.op = "preview" /\ r.arg = n /\ Tail(job.todo) = <<>>
  BY <1>1, ShowFirst DEF Advancing, IsList
<1>3. job'.todo = Tail(job.todo) \/ (~o.ok /\ job'.todo = <<>>)
  BY <1>2 DEF Advancing
<1>4. CASE r.op \in ShowingOps /\ ShowList(Tail(job.todo), n)
  <2>1. CASE b.camera = "on"
    <3>1. o.ok /\ b'.camera = "on"
      BY <1>4, <2>1 DEF Advancing, CalmDoes, ShowingOps
    <3> QED BY <1>3, <1>4, <3>1 DEF ShowStage, OnOrOff
  <2>2. CASE Off
    <3>1. \/ o.ok /\ b'.camera = "on"
          \/ Off'
      BY <1>4, <2>2 DEF Advancing, CalmDoes, ShowingOps, Off
    <3> QED BY <1>3, <1>4, <3>1 DEF ShowStage, OnOrOff
  <2> QED BY <1>1, <2>1, <2>2 DEF OnOrOff
<1>5. CASE r.op = "preview" /\ r.arg = n /\ Tail(job.todo) = <<>>
  <2>1. job'.todo = <<>>
    BY <1>3, <1>5
  <2>2. Lit(n)' \/ Off'
    <3>1. CASE b.camera = "on"
      BY <1>5, <3>1 DEF Advancing, CalmDoes
    <3>2. CASE Off
      BY <1>5, <3>2 DEF Advancing, CalmDoes, Off
    <3> QED BY <1>1, <3>1, <3>2 DEF OnOrOff
  <2> QED BY <2>1, <2>2 DEF ShowStage
<1> QED BY <1>2, <1>4, <1>5

LEMMA PlainStageStep ==
  ASSUME NEW r, NEW o, Advancing(r, o), PlainStage
  PROVE  PlainStage'
<1>1. /\ r.op \in PlainOps /\ job'.todo \in AskedList(PlainOps)
  <2>1. job.todo \in AskedList(PlainOps) /\ job.todo # <<>> /\ r = Head(job.todo)
    BY DEF PlainStage, Advancing
  <2>2. r.op \in PlainOps /\ Tail(job.todo) \in AskedList(PlainOps) /\ r.instead \in AskedList(PlainOps)
    BY <2>1, AskedFirst
  <2> QED BY <2>2 DEF Advancing
<1>2. Plain'
  <2>1. Plain /\ b.camera # "playing"
    BY DEF PlainStage, Plain, Fresh, Off
  <2> QED BY <1>1, <2>1 DEF Advancing, CalmDoes, PlainOps, Plain, Fresh, Off
<1> QED BY <1>1, <1>2 DEF PlainStage

(* A list of known operations.                                              *)
LEMMA NextOfList ==
  ASSUME NEW s, IsList(s), s # <<>>
  PROVE  /\ Len(s) \in Nat /\ Len(s) > 0 /\ Head(s) = s[1]
         /\ Len(Tail(s)) = Len(s) - 1 /\ IsList(Tail(s))
         /\ \A i \in 1 .. Len(s) - 1 : Tail(s)[i] = s[i + 1]
<1>1. PICK S : s \in Seq(S)
  BY DEF IsList
<1>2. Len(s) \in Nat /\ Len(s) > 0 /\ Head(s) = s[1]
  BY <1>1
<1>3. /\ Tail(s) \in Seq(S) /\ Len(Tail(s)) = Len(s) - 1
      /\ \A i \in 1 .. Len(s) - 1 : Tail(s)[i] = s[i + 1]
  BY <1>1
<1> QED BY <1>2, <1>3 DEF IsList

LEMMA NightStageStep ==
  ASSUME NEW n \in NightPairs, NEW r, NEW o, Advancing(r, o), NightStage(n), job.ok = TRUE
  PROVE  NightStage(n)' /\ job'.ok = TRUE
<1>1. PICK k \in 0 .. 6 :
        /\ Len(job.todo) = 6 - k /\ \A i \in 1 .. 6 - k : job.todo[i].op = NightOps[i + k]
        /\ k <= 4 => job.todo[5 - k].arg = n
        /\ k <= 1 => OnOrOff
        /\ k \in 2 .. 4 => b.camera = "on"
        /\ k >= 5 => Lit(n)
  BY DEF NightStage
<1>2. /\ Len(job.todo) > 0 /\ r = job.todo[1] /\ Len(Tail(job.todo)) = 5 - k
      /\ \A i \in 1 .. 5 - k : Tail(job.todo)[i] = job.todo[i + 1]
  <2>1. job.todo # <<>> /\ IsList(job.todo) /\ r = Head(job.todo)
    BY DEF Advancing
  <2> QED BY <1>1, <2>1, NextOfList
<1>3. k \in 0 .. 5 /\ r.op = NightOps[1 + k]
  BY <1>1, <1>2
<1>4. /\ k = 0 => r.op = "stop"
      /\ k = 1 => r.op = "start"
      /\ k = 2 => r.op = "other"
      /\ k = 3 => r.op = "apply"
      /\ k = 4 => r.op = "preview" /\ r.arg = n
      /\ k = 5 => r.op = "other"
  BY <1>1, <1>2, <1>3 DEF NightOps
<1>5. o.ok /\ (k = 0 => Off') /\ (k \in 1 .. 3 => b'.camera = "on") /\ (k >= 4 => Lit(n)')
  <2>1. CASE k = 0
    BY <1>1, <1>4, <2>1 DEF Advancing, CalmDoes, OnOrOff, Off
  <2>2. CASE k = 1
    BY <1>1, <1>4, <2>2 DEF Advancing, CalmDoes, OnOrOff, Off
  <2>3. CASE k = 2
    BY <1>1, <1>4, <2>3 DEF Advancing, CalmDoes
  <2>4. CASE k = 3
    BY <1>1, <1>4, <2>4 DEF Advancing, CalmDoes
  <2>5. CASE k = 4
    BY <1>1, <1>4, <2>5 DEF Advancing, CalmDoes
  <2>6. CASE k = 5
    BY <1>1, <1>4, <2>6 DEF Advancing, CalmDoes, Lit
  <2> QED BY <1>3, <2>1, <2>2, <2>3, <2>4, <2>5, <2>6
<1>6. job'.todo = Tail(job.todo) /\ job'.ok = TRUE
  BY <1>5 DEF Advancing
<1> DEFINE j == k + 1
<1>7. /\ j \in 0 .. 6 /\ Len(job'.todo) = 6 - j
      /\ \A i \in 1 .. 6 - j : job'.todo[i].op = NightOps[i + j]
      /\ j <= 4 => job'.todo[5 - j].arg = n
  <2>1. \A i \in 1 .. 5 - k : i + 1 \in 1 .. 6 - k /\ i + (k + 1) = (i + 1) + k
    BY <1>3
  <2>2. j \in 0 .. 6 /\ 6 - j = 5 - k /\ (j <= 4 => 5 - j \in 1 .. 5 - k /\ (5 - j) + 1 = 5 - k)
    BY <1>3
  <2>3. Len(job'.todo) = 6 - j
    BY <1>2, <1>6, <2>2
  <2>4. \A i \in 1 .. 6 - j : job'.todo[i].op = NightOps[i + j]
    BY <1>1, <1>2, <1>3, <1>6, <2>1, <2>2
  <2>5. ASSUME j <= 4
        PROVE  job'.todo[5 - j].arg = n
    <3>1. 5 - j \in 1 .. 5 - k /\ (5 - j) + 1 = 5 - k /\ k <= 4
      BY <1>3, <2>2, <2>5
    <3>2. job'.todo[5 - j] = job.todo[(5 - j) + 1]
      BY <1>2, <1>6, <3>1
    <3> QED BY <1>1, <3>1, <3>2
  <2> QED BY <2>2, <2>3, <2>4, <2>5
<1>8. (j <= 1 => OnOrOff') /\ (j \in 2 .. 4 => b'.camera = "on") /\ (j >= 5 => Lit(n)')
  BY <1>3, <1>5 DEF OnOrOff
<1> HIDE DEF j
<1> QED BY <1>6, <1>7, <1>8 DEF NightStage

LEMMA LeaveStageStep ==
  ASSUME NEW r, NEW o, Advancing(r, o), LeaveStage, job.ok = TRUE
  PROVE  LeaveStage' /\ job'.ok = TRUE
<1>1. PICK k \in 0 .. 5 :
        /\ Len(job.todo) = 5 - k /\ \A i \in 1 .. 5 - k : job.todo[i].op = LeaveOps[i + k]
        /\ k = 0 => OnOrOff /\ job.todo[1].rest /\ ~job.todo[1].must
        /\ k = 1 => Plain
        /\ k >= 2 => Fresh
  BY DEF LeaveStage
<1>2. /\ Len(job.todo) > 0 /\ r = job.todo[1] /\ Len(Tail(job.todo)) = 4 - k
      /\ \A i \in 1 .. 4 - k : Tail(job.todo)[i] = job.todo[i + 1]
  <2>1. job.todo # <<>> /\ IsList(job.todo) /\ r = Head(job.todo)
    BY DEF Advancing
  <2> QED BY <1>1, <2>1, NextOfList
<1>3. k \in 0 .. 4 /\ r.op = LeaveOps[1 + k]
  BY <1>1, <1>2
<1>4. /\ k = 0 => r.op = "standard" /\ r.rest /\ ~r.must
      /\ k = 1 => r.op = "start"
      /\ k = 2 => r.op = "other"
      /\ k = 3 => r.op = "apply"
      /\ k = 4 => r.op = "other"
  BY <1>1, <1>2, <1>3 DEF LeaveOps
<1>5. (k >= 1 => o.ok) /\ (k = 0 => Plain') /\ (k >= 1 => Fresh')
  <2>1. CASE k = 0
    BY <1>1, <1>4, <2>1 DEF Advancing, CalmDoes, OnOrOff, Off, Plain
  <2>2. CASE k = 1
    BY <1>1, <1>4, <2>2 DEF Advancing, CalmDoes, Plain, Fresh, Off
  <2>3. CASE k = 2
    BY <1>1, <1>4, <2>3 DEF Advancing, CalmDoes, Fresh
  <2>4. CASE k = 3
    BY <1>1, <1>4, <2>4 DEF Advancing, CalmDoes, Fresh
  <2>5. CASE k = 4
    BY <1>1, <1>4, <2>5 DEF Advancing, CalmDoes, Fresh
  <2> QED BY <1>3, <2>1, <2>2, <2>3, <2>4, <2>5
<1>6. job'.todo = Tail(job.todo) /\ job'.ok = TRUE
  <2>1. o.ok \/ (r.rest /\ ~r.must)
    BY <1>3, <1>4, <1>5
  <2> QED BY <2>1 DEF Advancing
<1> DEFINE j == k + 1
<1>7. /\ j \in 1 .. 5 /\ Len(job'.todo) = 5 - j
      /\ \A i \in 1 .. 5 - j : job'.todo[i].op = LeaveOps[i + j]
  <2>1. \A i \in 1 .. 4 - k : i + 1 \in 1 .. 5 - k /\ i + (k + 1) = (i + 1) + k
    BY <1>3
  <2>2. j \in 1 .. 5 /\ 5 - j = 4 - k
    BY <1>3
  <2> QED BY <1>1, <1>2, <1>3, <1>6, <2>1, <2>2
<1>8. (j = 1 => Plain') /\ (j >= 2 => Fresh')
  BY <1>3, <1>5
<1> HIDE DEF j
<1>9. j \in 0 .. 5 /\ j # 0
  BY <1>7
<1> QED BY <1>6, <1>7, <1>8, <1>9 DEF LeaveStage

(* Each job of the UI, while nothing fails.                                 *)
LEMMA SnapshotJobStep ==
  ASSUME Basis, Unfailed, ui.up, ~co.busy, NEW r, NEW o, Advancing(r, o),
         job.name \in {"snapshot", "lcd"}
  PROVE  Stage'
<1>1. Stage /\ ui' = ui /\ job'.name = job.name /\ co' = co /\ job.todo # <<>>
  BY DEF Unfailed, Advancing, ShowJobs
<1>2. InNight /\ ShowStage(ui.shown)
  BY <1>1 DEF Stage
<1>3. ui.shown \in NightPairs
  BY <1>2 DEF Basis, ShownInNight, ShowJobs, Unfailed
<1>4. ASSUME NEW n \in NightPairs, n = ui.shown
      PROVE  ShowStage(n)'
  BY <1>2, <1>4, ShowStageStep
<1>5. InNight' /\ ShowStage(ui.shown)'
  BY <1>1, <1>2, <1>3, <1>4 DEF InNight
<1> QED BY <1>1, <1>5 DEF Stage

LEMMA SetUpJobStep ==
  ASSUME Basis, Unfailed, ui.up, NEW r, NEW o, Advancing(r, o),
         job.name \in {"boot", "recover"}
  PROVE  Stage'
<1>1. Stage /\ files' = files /\ job'.name = job.name /\ (InNight' <=> InNight)
      /\ files.night \in NightPairs
  BY DEF Unfailed, Advancing, InNight
<1>2. CASE InNight
  <2>1. ShowStage(files.night)
    BY <1>1, <1>2 DEF Stage
  <2>2. ASSUME NEW n \in NightPairs, n = files.night
        PROVE  ShowStage(n)'
    BY <1>2, <2>1, <2>2, ShowStageStep
  <2>3. ShowStage(files.night)'
    BY <1>1, <2>2
  <2> QED BY <1>1, <1>2, <2>3 DEF Stage
<1>3. CASE ~InNight
  <2>1. PlainStage
    BY <1>1, <1>3 DEF Stage
  <2>2. PlainStage'
    BY <2>1, PlainStageStep
  <2> QED BY <1>1, <1>3, <2>2 DEF Stage
<1> QED BY <1>2, <1>3

LEMMA SleepJobStep ==
  ASSUME Unfailed, ui.up, NEW r, NEW o, Advancing(r, o), job.name = "sleep"
  PROVE  Stage'
<1>1. Stage /\ job'.name = "sleep" /\ IsList(job.todo) /\ job.todo # <<>> /\ r = Head(job.todo)
  BY DEF Unfailed, Advancing
<1>2. Len(job.todo) = 1 /\ job.todo[1].op = "stop" /\ OnOrOff
  BY <1>1 DEF Stage
<1>3. r.op = "stop" /\ Len(Tail(job.todo)) = 0 /\ IsList(Tail(job.todo))
  BY <1>1, <1>2, NextOfList
<1>4. Tail(job.todo) = <<>>
  <2> DEFINE t == Tail(job.todo)
  <2>1. PICK S : t \in Seq(S)
    BY <1>3 DEF IsList
  <2>2. Len(t) = 0
    BY <1>3
  <2> HIDE DEF t
  <2>3. t = <<>>
    BY <2>1, <2>2
  <2> QED BY <2>3 DEF t
<1>5. o.ok /\ Off'
  BY <1>2, <1>3 DEF Advancing, CalmDoes, OnOrOff, Off
<1>6. job'.todo = <<>>
  BY <1>4, <1>5 DEF Advancing
<1> QED BY <1>1, <1>5, <1>6 DEF Stage

LEMMA ModeJobStep ==
  ASSUME Basis, Unfailed, ui.up, NEW r, NEW o, Advancing(r, o), job.name = "mode"
  PROVE  Stage'
<1>1. /\ Stage /\ files' = files /\ job'.name = "mode" /\ job'.to = job.to /\ (InNight' <=> InNight)
      /\ files.night \in NightPairs /\ job.ok \in BOOLEAN
  BY DEF Unfailed, Advancing, InNight, Basis, ExposureTypeOK, JobOK
<1>2. CASE job.to = "night"
  <2>1. ~InNight /\ job.ok = TRUE /\ NightStage(files.night)
    BY <1>1, <1>2 DEF Stage
  <2>2. ASSUME NEW n \in NightPairs, n = files.night
        PROVE  NightStage(n)' /\ job'.ok = TRUE
    BY <2>1, <2>2, NightStageStep
  <2>3. NightStage(files.night)' /\ job'.ok = TRUE
    BY <1>1, <2>2
  <2> QED BY <1>1, <1>2, <2>1, <2>3 DEF Stage
<1>3. CASE job.to # "night" /\ InNight
  <2>1. job.ok = TRUE /\ LeaveStage
    BY <1>1, <1>3 DEF Stage
  <2>2. LeaveStage' /\ job'.ok = TRUE
    BY <2>1, LeaveStageStep
  <2> QED BY <1>1, <1>3, <2>2 DEF Stage
<1>4. CASE job.to # "night" /\ ~InNight
  <2>1. PlainStage
    BY <1>1, <1>4 DEF Stage
  <2>2. PlainStage'
    BY <2>1, PlainStageStep
  <2> QED BY <1>1, <1>4, <2>2 DEF Stage
<1> QED BY <1>2, <1>3, <1>4

LEMMA PairJobStep ==
  ASSUME Basis, Unfailed, ui.up, NEW r, NEW o, Advancing(r, o), job.name = "pair"
  PROVE  Stage'
<1>1. /\ Stage /\ ui' = ui /\ job'.name = "pair" /\ job'.to = job.to /\ job.todo # <<>>
      /\ r = Head(job.todo) /\ job.ok \in BOOLEAN /\ job.to \in Pairs
  BY DEF Unfailed, Advancing, ShowJobs, Basis, ExposureTypeOK, JobOK
<1>2. InNight' = InNight /\ PreviewAgain' = PreviewAgain
  BY <1>1 DEF InNight, PreviewAgain
<1>3. CASE ~InNight
  <2>1. job.todo = <<Must("set", job.to)>> /\ Plain
    BY <1>1, <1>3 DEF Stage
  <2>2. r.op = "set" /\ r.instead = <<>> /\ Tail(job.todo) = <<>>
    BY <1>1, <2>1, Alone DEF Must, Request
  <2>3. Plain' /\ job'.todo = <<>>
    BY <2>1, <2>2 DEF Advancing, CalmDoes, Plain
  <2> QED BY <1>1, <1>2, <1>3, <2>3 DEF Stage
<1>4. CASE InNight /\ job.todo = <<MustElse("preview", job.to, PreviewAgain)>> /\ job.ok /\ OnOrOff
  <2>1. /\ r.op = "preview" /\ r.arg = job.to /\ r.instead = PreviewAgain /\ Tail(job.todo) = <<>>
        /\ r.must = TRUE /\ r.rest = FALSE
    BY <1>1, <1>4, Alone DEF MustElse, Request
  <2>2. job.to \in NightPairs
    BY <1>1, <1>4 DEF Stage
  <2>3. CASE b.camera = "on"
    <3>1. o.ok /\ Lit(job.to)'
      <4>1. ASSUME NEW n \in NightPairs, n = job.to
            PROVE  o.ok /\ Lit(n)'
        BY <2>1, <2>3, <4>1 DEF Advancing, CalmDoes
      <4> QED BY <1>1, <2>2, <4>1 DEF Lit
    <3>2. job'.todo = <<>> /\ job'.ok
      BY <1>4, <2>1, <3>1 DEF Advancing
    <3> QED BY <1>1, <1>2, <1>4, <2>2, <3>1, <3>2 DEF Stage
  <2>4. CASE b.camera # "on"
    <3>1. ~o.ok /\ b' = b
      BY <2>1, <2>2, <2>4 DEF Advancing, CalmDoes
    <3>2. job'.todo = PreviewAgain' /\ ~job'.ok
      BY <1>2, <2>1, <3>1 DEF Advancing
    <3>3. Off'
      BY <1>4, <2>4, <3>1 DEF OnOrOff, Off
    <3> QED BY <1>1, <1>2, <1>4, <2>2, <3>2, <3>3 DEF Stage
  <2> QED BY <2>3, <2>4
<1>5. CASE InNight /\ job.todo = PreviewAgain /\ ~job.ok /\ Off
  <2>1. /\ r.op = "preview" /\ r.arg = ui.shown /\ Tail(job.todo) = <<>> /\ r.instead = <<>>
    BY <1>1, <1>5, Alone DEF PreviewAgain, If, May, Request
  <2>2. ui.shown \in NightPairs /\ job.to \in NightPairs
    BY <1>1, <1>5 DEF Stage, Basis, ShownInNight, ShowJobs, Unfailed
  <2>3. b' = b /\ job'.todo = <<>> /\ ~job'.ok
    BY <1>5, <2>1, <2>2 DEF Advancing, CalmDoes, Off
  <2>4. Off'
    BY <1>5, <2>3 DEF Off
  <2> QED BY <1>1, <1>2, <1>5, <2>2, <2>3, <2>4 DEF Stage
<1> QED BY <1>1, <1>3, <1>4, <1>5 DEF Stage

LEMMA EnterJobStep ==
  ASSUME Unfailed, ui.up, NEW r, NEW o, Advancing(r, o), job.name = "enter"
  PROVE  Stage'
<1>1. /\ Stage /\ ui' = ui /\ job'.name = "enter" /\ job.todo # <<>> /\ r = Head(job.todo)
  BY DEF Unfailed, Advancing, ShowJobs
<1>2. /\ job.ok /\ ~ui.gallery /\ job.todo = <<Must("play", 0)>>
      /\ (IF InNight THEN OnOrOff ELSE Plain)
  BY <1>1 DEF Stage
<1>3. r.op = "play" /\ Tail(job.todo) = <<>> /\ b.camera # "playing"
  BY <1>1, <1>2, Alone DEF Must, Request, OnOrOff, Plain, Fresh, Off
<1>4. /\ o.ok /\ b'.camera = "playing" /\ b'.cached = b.cached /\ b'.file = b.file
  BY <1>3 DEF Advancing, CalmDoes
<1>5. Playing'
  BY <1>1, <1>2, <1>4 DEF Playing, InNight, Plain, Fresh, Off
<1>6. job'.ok /\ job'.todo = <<>>
  BY <1>2, <1>3, <1>4 DEF Advancing
<1> QED BY <1>1, <1>2, <1>5, <1>6 DEF Stage

LEMMA LeaveJobStep ==
  ASSUME Basis, Unfailed, ui.up, NEW r, NEW o, Advancing(r, o), job.name = "leave"
  PROVE  Stage'
<1>1. /\ Stage /\ ui' = ui /\ job'.name = "leave" /\ job.todo # <<>> /\ r = Head(job.todo)
      /\ InNight' = InNight /\ PreviewAgain' = PreviewAgain
  BY DEF Unfailed, Advancing, ShowJobs, InNight, PreviewAgain
<1>2. job.ok /\ ui.gallery
  BY <1>1 DEF Stage
<1>3. CASE job.todo = <<Must("endPlay", 0)>> \o PreviewAgain /\ Playing
  <2>1. IsList(PreviewAgain)
    BY Alone DEF PreviewAgain, If
  <2>2. r.op = "endPlay" /\ Tail(job.todo) = PreviewAgain
    BY <1>1, <1>3, <2>1, PutFirst DEF Must, Request
  <2>3. /\ o.ok /\ b'.camera = "on" /\ ~b'.transient /\ b'.sensors = Both(30)
        /\ b'.cached = b.cached /\ b'.file = b.file
    BY <2>2 DEF Advancing, CalmDoes
  <2>4. job'.ok /\ job'.todo = PreviewAgain
    BY <1>2, <2>2, <2>3 DEF Advancing
  <2>5. ~InNight => Fresh'
    BY <1>3, <2>3 DEF Playing, Fresh
  <2> QED BY <1>1, <1>2, <2>3, <2>4, <2>5 DEF Stage
<1>4. CASE job.todo = PreviewAgain /\ (IF InNight THEN b.camera = "on" ELSE Fresh)
  <2>1. InNight
    BY <1>1, <1>4 DEF PreviewAgain, If
  <2>2. r.op = "preview" /\ r.arg = ui.shown /\ Tail(job.todo) = <<>>
    BY <1>1, <1>4, <2>1, Alone DEF PreviewAgain, If, May, Request
  <2>3. ui.shown \in NightPairs
    BY <2>1 DEF Basis, ShownInNight, ShowJobs, Unfailed
  <2>4. ASSUME NEW n \in NightPairs, n = ui.shown
        PROVE  o.ok /\ Lit(n)'
    BY <1>4, <2>1, <2>2, <2>4 DEF Advancing, CalmDoes
  <2>5. o.ok /\ Lit(ui.shown)'
    BY <1>1, <2>3, <2>4
  <2>6. job'.ok /\ job'.todo = <<>>
    BY <1>2, <2>2, <2>5 DEF Advancing
  <2> QED BY <1>1, <1>2, <2>1, <2>5, <2>6 DEF Stage
<1> QED BY <1>1, <1>3, <1>4 DEF Stage

LEMMA ExitJobStep ==
  ASSUME Unfailed, ui.up, NEW r, NEW o, Advancing(r, o), job.name = "exit"
  PROVE  Stage'
<1> DEFINE rest == If(InNight, <<May("standard", 0), May("set", ui.shown)>>)
<1>1. /\ Stage /\ ui' = ui /\ job'.name = "exit" /\ job.todo # <<>> /\ r = Head(job.todo)
      /\ InNight' = InNight /\ rest' = rest
  BY DEF Unfailed, Advancing, ShowJobs, InNight
<1>2. InNight => rest = <<May("standard", 0)>> \o <<May("set", ui.shown)>>
  BY TwoByOne DEF If
<1>3. ~InNight => rest = <<>>
  BY DEF If
<1>4. IsList(rest)
  <2>1. IsList(<<May("set", ui.shown)>>) /\ IsList(<<>>)
    BY Alone
  <2> HIDE DEF rest
  <2> QED BY <1>2, <1>3, <2>1, PutFirst
<1>5. \/ job.todo = <<May("endPlay", 0)>> \o rest /\ Playing
      \/ job.todo = rest /\ (IF InNight THEN OnOrOff ELSE Plain)
      \/ job.todo = <<May("set", ui.shown)>> /\ Plain
  BY <1>1 DEF Stage
<1>6. /\ Stage' <=> \/ job'.todo = <<May("endPlay", 0)>> \o rest /\ Playing'
                    \/ job'.todo = rest /\ (IF InNight THEN OnOrOff' ELSE Plain')
                    \/ job'.todo = <<May("set", ui.shown)>> /\ Plain'
                    \/ job'.todo = <<>> /\ Plain'
  BY <1>1 DEF Stage
<1> HIDE DEF rest
<1>7. CASE job.todo = <<May("endPlay", 0)>> \o rest /\ Playing
  <2>1. r.op = "endPlay" /\ Tail(job.todo) = rest
    BY <1>1, <1>4, <1>7, PutFirst DEF May, Request
  <2>2. /\ o.ok /\ b'.camera = "on" /\ ~b'.transient /\ b'.sensors = Both(30)
        /\ b'.cached = b.cached /\ b'.file = b.file
    BY <2>1 DEF Advancing, CalmDoes
  <2>3. job'.todo = rest /\ OnOrOff' /\ (~InNight => Plain')
    BY <1>7, <2>1, <2>2 DEF Advancing, OnOrOff, Playing, Plain, Fresh
  <2> QED BY <1>6, <2>3
<1>8. CASE job.todo = rest /\ (IF InNight THEN OnOrOff ELSE Plain)
  <2>1. InNight /\ OnOrOff
    BY <1>1, <1>3, <1>8
  <2>2. /\ r.op = "standard" /\ r.rest = TRUE /\ Tail(job.todo) = <<May("set", ui.shown)>>
    <3> DEFINE x == May("standard", 0)
               s == <<May("set", ui.shown)>>
    <3>1. job.todo = <<x>> \o s /\ IsList(s)
      BY <1>2, <1>8, <2>1, Alone
    <3>2. x.op = "standard" /\ x.rest = TRUE
      BY DEF May, Request
    <3> HIDE DEF x, s
    <3>3. Head(job.todo) = x /\ Tail(job.todo) = s
      BY <3>1, PutFirst
    <3> QED BY <1>1, <3>2, <3>3 DEF s
  <2>3. job'.todo = <<May("set", ui.shown)>>
    BY <2>2 DEF Advancing
  <2>4. Plain'
    BY <2>1, <2>2 DEF Advancing, CalmDoes, OnOrOff, Plain, Off
  <2> QED BY <1>6, <2>3, <2>4
<1>9. CASE job.todo = <<May("set", ui.shown)>> /\ Plain
  <2>1. r.op = "set" /\ r.rest = TRUE /\ Tail(job.todo) = <<>>
    BY <1>1, <1>9, Alone DEF May, Request
  <2>2. job'.todo = <<>> /\ Plain'
    BY <1>9, <2>1 DEF Advancing, CalmDoes, Plain
  <2> QED BY <1>6, <2>2
<1> QED BY <1>5, <1>7, <1>8, <1>9

LEMMA UiStepCalm ==
  ASSUME Basis, Unfailed, UiStep, Calm'
  PROVE  Unfailed'
<1>1. PICK r, o : Advancing(r, o)
  BY UiAdvances
<1>2. ~co.busy
  BY DEF UiStep, Basis, Awaits, Waiting, Sure, Unfailed
<1>3. job.name \in SetUpJobs \cup ShowJobs /\ job.name # "none"
  <2>1. job.todo # <<>>
    BY DEF UiStep
  <2> QED BY <2>1 DEF Basis, ExposureTypeOK, JobOK, NoJob
<1>4. ui.up
  BY DEF UiStep
<1>5. Stage'
  BY <1>1, <1>2, <1>3, <1>4, SnapshotJobStep, SetUpJobStep, SleepJobStep, ModeJobStep, PairJobStep,
     EnterJobStep, LeaveJobStep, ExitJobStep DEF SetUpJobs, ShowJobs
<1> QED BY <1>1, <1>2, <1>4, <1>5 DEF Unfailed, Advancing, Sure

-----------------------------------------------------------------------------
(* The other steps, while nothing fails.                                    *)
LEMMA CapturesNotEmpty ==
  ASSUME NEW p
  PROVE  /\ CaptureRequests(p) # <<>> /\ Attempted(p) # <<>> /\ Recovery(p) # <<>>
         /\ GivenThenAnew(p) # <<>> /\ Anew(p) # <<>> /\ StartAfresh(p) # <<>> /\ Afresh(p) # <<>>
         /\ Again(p) # <<>> /\ Expect(p) # <<>> /\ Shoot(p) # <<>> /\ Prepare(p) # <<>>
         /\ Expose(p) # <<>> /\ Back(p) # <<>> /\ Restoring(p) # <<>> /\ Given(p) # <<>>
         /\ QuickOther(p) # <<>> /\ QuickShot(p) # <<>>
<1>1. \A a, s : IsList(s) => <<a>> \o s # <<>>
  BY PutFirst
<1>2. /\ IsList(Given(p)) /\ IsList(Back(p)) /\ IsList(Expose(p)) /\ IsList(Prepare(p))
      /\ IsList(Shoot(p)) /\ IsList(Expect(p)) /\ IsList(Again(p)) /\ IsList(Restoring(p))
      /\ IsList(StartAfresh(p)) /\ IsList(Anew(p)) /\ IsList(GivenThenAnew(p)) /\ IsList(Attempted(p))
      /\ IsList(QuickOther(p)) /\ IsList(QuickShot(p)) /\ IsList(<<>>)
  BY CaptureLists, Alone
<1>3. Given(p) # <<>>
  BY Alone DEF Given
<1>4. Back(p) # <<>> /\ Expose(p) # <<>> /\ Prepare(p) # <<>> /\ Restoring(p) # <<>>
  BY <1>1, <1>2, CaptureLists DEF Back, Expose, Prepare
<1>5. Shoot(p) # <<>>
  <2>1. CASE Stacked(p)
    BY <1>1, <1>2, <2>1, CaptureLists
  <2>2. CASE ~Stacked(p)
    BY <1>4, <2>2, CaptureLists
  <2> QED BY <2>1, <2>2
<1>6. Expect(p) # <<>> /\ Attempted(p) # <<>> /\ Anew(p) # <<>> /\ GivenThenAnew(p) # <<>>
  BY <1>1, <1>2 DEF Expect, Attempted, Anew, GivenThenAnew
<1>7. Again(p) # <<>> /\ Recovery(p) # <<>> /\ QuickOther(p) # <<>> /\ QuickShot(p) # <<>>
  BY <1>1, <1>2, CaptureLists
<1>8. StartAfresh(p) # <<>> /\ Afresh(p) # <<>>
  BY <1>1, <1>2 DEF StartAfresh, Afresh
<1>9. CaptureRequests(p) # <<>>
  BY <1>1, <1>2, CaptureLists
<1> QED BY <1>3, <1>4, <1>5, <1>6, <1>7, <1>8, <1>9

(* What is known of a capture that is done.                                 *)
LEMMA CaptureDone ==
  ASSUME CoOK, CaptureOutline, co.busy, co.todo = <<>>
  PROVE  /\ PhotoRight
         /\ Slow(co.pair) => /\ Calm => b.camera = "on"
                             /\ Calm \/ (co.ok /\ Sure) => Restored
<1>1. ASSUME NEW p \in Pairs, p = co.pair
      PROVE  /\ PhotoRight
             /\ Slow(p) => /\ Calm => b.camera = "on"
                           /\ Calm \/ (co.ok /\ Sure) => Restored
  <2>1. CASE Slow(p)
    <3>1. SlowOutline(p)
      BY <1>1, <2>1 DEF CaptureOutline
    <3> QED BY <2>1, <3>1, CapturesNotEmpty DEF SlowOutline
  <2>2. CASE ~Slow(p)
    <3>1. QuickOutline(p)
      BY <1>1, <2>2 DEF CaptureOutline
    <3> QED BY <2>2, <3>1, CapturesNotEmpty DEF QuickOutline
  <2> QED BY <2>1, <2>2
<1> QED BY <1>1 DEF CoOK

LEMMA PreviewAgainShows ==
  ASSUME InNight
  PROVE  ShowList(PreviewAgain, ui.shown)
<1> DEFINE r == May("preview", ui.shown)
<1>1. ASSUME NEW n, n = ui.shown
      PROVE  ShowList(PreviewAgain, n)
  <2>1. r.op = "preview" /\ r.arg = n /\ r.instead = <<>>
    BY <1>1 DEF May, Request
  <2>2. PreviewAgain = <<r>>
    BY DEF PreviewAgain, If
  <2> HIDE DEF r
  <2> QED BY <2>1, <2>2, ShowOne
<1> QED BY <1>1

LEMMA CoordinatorEndsCalm ==
  ASSUME Basis, Unfailed, Calm, CoordinatorEnds
  PROVE  Unfailed'
<1>1. /\ co.busy /\ co.todo = <<>> /\ co' = NoCapture /\ UNCHANGED <<files, ui, job>>
      /\ b' = [b EXCEPT !.stack = "none"]
  BY DEF CoordinatorEnds
<1>2. /\ b'.camera = b.camera /\ b'.transient = b.transient /\ b'.cached = b.cached
      /\ b'.file = b.file /\ b'.sensors = b.sensors
  BY <1>1 DEF Basis, ExposureTypeOK, BackendType
<1>3. /\ ui.up /\ job.name = "snapshot" /\ job.todo = PreviewAgain
  BY <1>1 DEF Basis, Awaits, Unfailed
<1>4. CaptureStage
  BY <1>1 DEF Unfailed
<1>5. Slow(co.pair) => b.camera = "on" /\ Restored
  BY <1>1, CaptureDone DEF Basis, ExposureTypeOK
<1>6. IF InNight THEN b'.camera = "on" ELSE Plain'
  BY <1>2, <1>4, <1>5 DEF CaptureStage, Plain, Fresh, Off, Restored
<1>7. IF InNight THEN ShowStage(ui.shown) ELSE job.todo = <<>>
  <2>1. CASE InNight
    BY <1>2, <1>3, <1>6, <2>1, PreviewAgainShows DEF ShowStage, OnOrOff
  <2>2. CASE ~InNight
    BY <1>3, <2>2 DEF PreviewAgain, If
  <2> QED BY <2>1, <2>2
<1>8. IF InNight' THEN ShowStage(ui.shown)' ELSE job'.todo = <<>> /\ Plain'
  <2>1. CASE InNight
    <3>1. ShowList(job.todo, ui.shown)
      BY <1>3, <2>1, PreviewAgainShows
    <3> QED BY <1>1, <1>6, <2>1, <3>1 DEF ShowStage, OnOrOff, InNight
  <2>2. CASE ~InNight
    BY <1>1, <1>6, <1>7, <2>2 DEF InNight
  <2> QED BY <2>1, <2>2
<1>9. Stage'
  BY <1>1, <1>3, <1>8 DEF Stage
<1>10. co'.orphan = FALSE /\ co'.busy = FALSE
  BY <1>1 DEF NoCapture
<1> QED BY <1>1, <1>3, <1>9, <1>10 DEF Unfailed, Sure

LEMMA CoordinatorStepCalm ==
  ASSUME Basis, Unfailed, CoordinatorStep, Calm'
  PROVE  Unfailed'
<1>1. Keeps /\ CaptureStage'
  BY CoordinatorStepOK DEF Basis, Unfailed, CoordinatorStep
<1>2. ui.up /\ job.name = "snapshot" /\ co'.busy
  BY <1>1 DEF Basis, Awaits, Unfailed, CoordinatorStep, Keeps
<1>3. Stage'
  BY <1>1, <1>2 DEF Stage, Keeps
<1> QED BY <1>1, <1>2, <1>3 DEF Unfailed, Keeps, Sure

(* A button or a poll finds the camera as the last job left it.             *)
LEMMA IdleCalm ==
  ASSUME Basis, Unfailed, Idle
  PROVE  /\ ui.up /\ ~co.busy /\ ui.mode = files.mode
         /\ IF ui.gallery THEN Playing ELSE Standing
         /\ InNight => ui.shown = files.night /\ ui.shown \in NightPairs
         /\ ~ui.gallery => /\ b.camera # "playing" /\ OnOrOff
                           /\ ~InNight => Plain
<1>1. ui.up /\ job.name = "none" /\ Stage /\ ui.mode = files.mode
  BY DEF Idle, Unfailed
<1>2. ~co.busy
  BY <1>1 DEF Basis, Awaits, Unfailed
<1>3. IF ui.gallery THEN Playing ELSE Standing
  BY <1>1 DEF Stage
<1>4. InNight => ui.shown = files.night /\ ui.shown \in NightPairs
  BY <1>1 DEF Basis, ShownInNight, ShowJobs, Unfailed
<1> QED BY <1>1, <1>2, <1>3, <1>4 DEF Standing, OnOrOff, Lit, Plain, Fresh, Off

LEMMA BeginCalm ==
  ASSUME Basis, Unfailed, Idle, UNCHANGED <<files, ui, co, b>>,
         NEW name, NEW to, NEW todo, Begin(name, to, todo), Stage'
  PROVE  Unfailed'
<1>1. ui.up /\ ~co.busy
  BY IdleCalm
<1> QED BY <1>1 DEF Unfailed, Sure

LEMMA Begun ==
  ASSUME NEW name, NEW to, NEW todo, Begin(name, to, todo)
  PROVE  job'.name = name /\ job'.to = to /\ job'.ok = TRUE /\ job'.todo = todo
  BY DEF Begin

(* The graph with everything on it brings the preview back, in Night.       *)
LEMMA PrimaryGraphShows ==
  ASSUME InNight
  PROVE  ShowList(PrimaryGraph, files.night)
<1>1. ASSUME NEW n, n = files.night, NEW g, g = GraphOf(ui.mode)
      PROVE  ShowList(PrimaryGraph, n)
  <2> DEFINE a == Must("start", g)
             c == Must("other", 0)
             d == Must("sync", 0)
             p == Must("preview", n)
             s == <<a, c, d, c>>
             t == <<p>>
             l == s \o t
             T == {a, c, d, p}
  <2>1. PrimaryGraph = l
    BY <1>1 DEF PrimaryGraph, If
  <2>2. /\ a.op = "start" /\ c.op = "other" /\ d.op = "sync" /\ p.op = "preview" /\ p.arg = n
        /\ a.instead = <<>> /\ c.instead = <<>> /\ d.instead = <<>> /\ p.instead = <<>>
    BY DEF Must, Request
  <2> HIDE DEF a, c, d, p
  <2>3. /\ s \in Seq(T) /\ Len(s) = 4 /\ s[1] = a /\ s[2] = c /\ s[3] = d /\ s[4] = c
        /\ t \in Seq(T) /\ Len(t) = 1 /\ t[1] = p
    OBVIOUS
  <2> HIDE DEF s, t, T
  <2>10. s \in Seq(T) /\ t \in Seq(T)
    BY <2>3
  <2>11. /\ l \in Seq(T) /\ Len(l) = Len(s) + Len(t)
         /\ \A i \in 1 .. Len(s) : l[i] = s[i]
         /\ \A i \in 1 .. Len(t) : l[Len(s) + i] = t[i]
    BY <2>10, ConcatProperties
  <2> HIDE DEF l
  <2>4. Len(l) = 5
    BY <2>3, <2>11
  <2>5. l[1] = a /\ l[2] = c /\ l[3] = d /\ l[4] = c /\ l[5] = p
    BY <2>3, <2>11
  <2>6. l # <<>>
    BY <2>4, <2>11
  <2>7. \A i \in 1 .. 4 : l[i].op \in ShowingOps /\ l[i].instead = <<>>
    <3>1. \A i \in 1 .. 4 : i = 1 \/ i = 2 \/ i = 3 \/ i = 4
      OBVIOUS
    <3> QED BY <2>2, <2>5, <3>1 DEF ShowingOps
  <2>8. \A i \in 1 .. 5 : i \in 1 .. 4 \/ i = 5
    OBVIOUS
  <2>9. ShowList(l, n)
    BY <2>2, <2>4, <2>5, <2>6, <2>7, <2>8 DEF ShowList
  <2> QED BY <2>1, <2>9
<1> QED BY <1>1

LEMMA BootListShows ==
  ASSUME NEW g, NEW n
  PROVE  ShowList(<<MustElse("start", g, <<>>), Note("other", 0)>>
                  \o <<Must("sync", 0), Must("apply", n), Must("preview", n)>>, n)
<1> DEFINE a == MustElse("start", g, <<>>)
           c == Note("other", 0)
           d == Must("sync", 0)
           e == Must("apply", n)
           p == Must("preview", n)
           s == <<a, c>>
           t == <<d, e, p>>
           l == s \o t
           T == {a, c, d, e, p}
<1>2. /\ a.op = "start" /\ c.op = "other" /\ d.op = "sync" /\ e.op = "apply" /\ p.op = "preview"
      /\ p.arg = n /\ a.instead = <<>> /\ c.instead = <<>> /\ d.instead = <<>> /\ e.instead = <<>>
      /\ p.instead = <<>>
  BY DEF Must, MustElse, Note, Request
<1> HIDE DEF a, c, d, e, p
<1>3. /\ s \in Seq(T) /\ Len(s) = 2 /\ s[1] = a /\ s[2] = c
      /\ t \in Seq(T) /\ Len(t) = 3 /\ t[1] = d /\ t[2] = e /\ t[3] = p
  OBVIOUS
<1> HIDE DEF s, t, T
<1>10. s \in Seq(T) /\ t \in Seq(T)
  BY <1>3
<1>11. /\ l \in Seq(T) /\ Len(l) = Len(s) + Len(t)
       /\ \A i \in 1 .. Len(s) : l[i] = s[i]
       /\ \A i \in 1 .. Len(t) : l[Len(s) + i] = t[i]
  BY <1>10, ConcatProperties
<1> HIDE DEF l
<1>4. Len(l) = 5
  BY <1>3, <1>11
<1>5. l[1] = a /\ l[2] = c /\ l[3] = d /\ l[4] = e /\ l[5] = p
  BY <1>3, <1>11
<1>6. l # <<>>
  BY <1>4, <1>11
<1>7. \A i \in 1 .. 4 : l[i].op \in ShowingOps /\ l[i].instead = <<>>
  <2>1. \A i \in 1 .. 4 : i = 1 \/ i = 2 \/ i = 3 \/ i = 4
    OBVIOUS
  <2> QED BY <1>2, <1>5, <2>1 DEF ShowingOps
<1>8. \A i \in 1 .. 5 : i \in 1 .. 4 \/ i = 5
  OBVIOUS
<1>9. ShowList(l, n)
  BY <1>2, <1>4, <1>5, <1>6, <1>7, <1>8 DEF ShowList
<1> QED BY <1>9 DEF l, s, t, a, c, d, e, p

(* The menu's lists, into Night and out of it.                              *)
LEMMA NightRequests ==
  ASSUME ~InNight, NEW n, NEW dep
  PROVE  LET todo == ModeRequests("night", n, dep)
         IN  /\ Len(todo) = 6 /\ todo[5].arg = n
             /\ \A i \in 1 .. 6 : todo[i].op = NightOps[i]
<1> DEFINE undo == UndoMode(dep, TRUE)
           a == MustElse("stop", 0, PreviewAgain)
           c == MustElse("start", GraphOf("night"), undo)
           d == MustElse("other", 0, undo)
           e == MustElse("apply", n, undo)
           p == MustElse("preview", n, undo)
           T == {a, c, d, e, p}
           s1 == <<a>>
           s2 == <<c>>
           s3 == <<d, e>>
           s4 == <<p>>
           s5 == <<d>>
           l1 == <<>> \o s1
           l2 == l1 \o s2
           l3 == l2 \o s3
           l4 == l3 \o s4
           l5 == l4 \o s5
<1>1. ModeRequests("night", n, dep) = l5
  BY DEF ModeRequests, If
<1>2. /\ a.op = "stop" /\ c.op = "start" /\ d.op = "other" /\ e.op = "apply"
      /\ p.op = "preview" /\ p.arg = n
  BY DEF MustElse, Request
<1> HIDE DEF undo, a, c, d, e, p
<1>3. /\ s1 \in Seq(T) /\ s2 \in Seq(T) /\ s3 \in Seq(T) /\ s4 \in Seq(T) /\ s5 \in Seq(T)
      /\ <<>> \in Seq(T)
      /\ Len(s1) = 1 /\ s1[1] = a /\ Len(s2) = 1 /\ s2[1] = c
      /\ Len(s3) = 2 /\ s3[1] = d /\ s3[2] = e
      /\ Len(s4) = 1 /\ s4[1] = p /\ Len(s5) = 1 /\ s5[1] = d
  OBVIOUS
<1>4. l1 \in Seq(T) /\ Len(l1) = 1 /\ l1[1] = a
  <2>1. l1 = s1
    BY <1>3, ConcatEmptySeq
  <2> QED BY <1>3, <2>1
<1> HIDE DEF T, s1, s2, s3, s4, s5, l1
<1>6. l2 \in Seq(T) /\ Len(l2) = 2 /\ l2[1] = a /\ l2[2] = c
  <2>1. l1 \in Seq(T) /\ s2 \in Seq(T)
    BY <1>3, <1>4
  <2>2. /\ l2 \in Seq(T) /\ Len(l2) = Len(l1) + Len(s2)
        /\ \A i \in 1 .. Len(l1) : l2[i] = l1[i]
        /\ \A i \in 1 .. Len(s2) : l2[Len(l1) + i] = s2[i]
    BY <2>1, ConcatProperties
  <2> HIDE DEF l2
  <2> QED BY <1>3, <1>4, <2>2
<1> HIDE DEF l2
<1>7. l3 \in Seq(T) /\ Len(l3) = 4 /\ l3[1] = a /\ l3[2] = c /\ l3[3] = d /\ l3[4] = e
  <2>1. l2 \in Seq(T) /\ s3 \in Seq(T)
    BY <1>3, <1>6
  <2>2. /\ l3 \in Seq(T) /\ Len(l3) = Len(l2) + Len(s3)
        /\ \A i \in 1 .. Len(l2) : l3[i] = l2[i]
        /\ \A i \in 1 .. Len(s3) : l3[Len(l2) + i] = s3[i]
    BY <2>1, ConcatProperties
  <2> HIDE DEF l3
  <2> QED BY <1>3, <1>6, <2>2
<1> HIDE DEF l3
<1>8. /\ l4 \in Seq(T) /\ Len(l4) = 5 /\ l4[1] = a /\ l4[2] = c /\ l4[3] = d /\ l4[4] = e
      /\ l4[5] = p
  <2>1. l3 \in Seq(T) /\ s4 \in Seq(T)
    BY <1>3, <1>7
  <2>2. /\ l4 \in Seq(T) /\ Len(l4) = Len(l3) + Len(s4)
        /\ \A i \in 1 .. Len(l3) : l4[i] = l3[i]
        /\ \A i \in 1 .. Len(s4) : l4[Len(l3) + i] = s4[i]
    BY <2>1, ConcatProperties
  <2> HIDE DEF l4
  <2> QED BY <1>3, <1>7, <2>2
<1> HIDE DEF l4
<1>9. /\ Len(l5) = 6 /\ l5[1] = a /\ l5[2] = c /\ l5[3] = d /\ l5[4] = e
      /\ l5[5] = p /\ l5[6] = d
  <2>1. l4 \in Seq(T) /\ s5 \in Seq(T)
    BY <1>3, <1>8
  <2>2. /\ l5 \in Seq(T) /\ Len(l5) = Len(l4) + Len(s5)
        /\ \A i \in 1 .. Len(l4) : l5[i] = l4[i]
        /\ \A i \in 1 .. Len(s5) : l5[Len(l4) + i] = s5[i]
    BY <2>1, ConcatProperties
  <2> HIDE DEF l5
  <2> QED BY <1>3, <1>8, <2>2
<1> HIDE DEF l5
<1>10. \A i \in 1 .. 6 : l5[i].op = NightOps[i]
  <2>1. \A i \in 1 .. 6 : i = 1 \/ i = 2 \/ i = 3 \/ i = 4 \/ i = 5 \/ i = 6
    OBVIOUS
  <2> QED BY <1>2, <1>9, <2>1 DEF NightOps
<1> QED BY <1>1, <1>2, <1>9, <1>10

LEMMA LeaveRequests ==
  ASSUME InNight, NEW sel, sel # "night", NEW target, NEW dep
  PROVE  LET todo == ModeRequests(sel, target, dep)
         IN  /\ Len(todo) = 5 /\ todo[1].rest /\ ~todo[1].must
             /\ \A i \in 1 .. 5 : todo[i].op = LeaveOps[i]
<1> DEFINE undo == UndoMode(dep, TRUE)
           a == May("standard", 0)
           c == MustElse("start", GraphOf(sel), PreviewAgain)
           d == MustElse("other", 0, undo)
           e == MustElse("apply", target, undo)
           T == {a, c, d, e}
           s1 == <<a>>
           s2 == <<c>>
           s3 == <<d, e>>
           s4 == <<d>>
           l1 == s1 \o <<>>
           l2 == l1 \o s2
           l3 == l2 \o s3
           l4 == l3 \o <<>>
           l5 == l4 \o s4
<1>1. ModeRequests(sel, target, dep) = l5
  BY DEF ModeRequests, If, LeaveNight
<1>2. /\ a.op = "standard" /\ a.rest = TRUE /\ a.must = FALSE /\ c.op = "start" /\ d.op = "other"
      /\ e.op = "apply"
  BY DEF MustElse, May, Request
<1> HIDE DEF undo, a, c, d, e
<1>3. /\ s1 \in Seq(T) /\ s2 \in Seq(T) /\ s3 \in Seq(T) /\ s4 \in Seq(T) /\ <<>> \in Seq(T)
      /\ Len(s1) = 1 /\ s1[1] = a /\ Len(s2) = 1 /\ s2[1] = c
      /\ Len(s3) = 2 /\ s3[1] = d /\ s3[2] = e
      /\ Len(s4) = 1 /\ s4[1] = d
  OBVIOUS
<1>4. l1 \in Seq(T) /\ Len(l1) = 1 /\ l1[1] = a
  <2>1. l1 = s1
    BY <1>3, ConcatEmptySeq
  <2> QED BY <1>3, <2>1
<1> HIDE DEF T, s1, s2, s3, s4, l1
<1>6. l2 \in Seq(T) /\ Len(l2) = 2 /\ l2[1] = a /\ l2[2] = c
  <2>1. l1 \in Seq(T) /\ s2 \in Seq(T)
    BY <1>3, <1>4
  <2>2. /\ l2 \in Seq(T) /\ Len(l2) = Len(l1) + Len(s2)
        /\ \A i \in 1 .. Len(l1) : l2[i] = l1[i]
        /\ \A i \in 1 .. Len(s2) : l2[Len(l1) + i] = s2[i]
    BY <2>1, ConcatProperties
  <2> HIDE DEF l2
  <2> QED BY <1>3, <1>4, <2>2
<1> HIDE DEF l2
<1>7. l3 \in Seq(T) /\ Len(l3) = 4 /\ l3[1] = a /\ l3[2] = c /\ l3[3] = d /\ l3[4] = e
  <2>1. l2 \in Seq(T) /\ s3 \in Seq(T)
    BY <1>3, <1>6
  <2>2. /\ l3 \in Seq(T) /\ Len(l3) = Len(l2) + Len(s3)
        /\ \A i \in 1 .. Len(l2) : l3[i] = l2[i]
        /\ \A i \in 1 .. Len(s3) : l3[Len(l2) + i] = s3[i]
    BY <2>1, ConcatProperties
  <2> HIDE DEF l3
  <2> QED BY <1>3, <1>6, <2>2
<1> HIDE DEF l3
<1>8. l4 \in Seq(T) /\ Len(l4) = 4 /\ l4[1] = a /\ l4[2] = c /\ l4[3] = d /\ l4[4] = e
  <2>1. l4 = l3
    BY <1>7, ConcatEmptySeq
  <2> QED BY <1>7, <2>1
<1> HIDE DEF l4
<1>9. /\ Len(l5) = 5 /\ l5[1] = a /\ l5[2] = c /\ l5[3] = d /\ l5[4] = e /\ l5[5] = d
  <2>1. l4 \in Seq(T) /\ s4 \in Seq(T)
    BY <1>3, <1>8
  <2>2. /\ l5 \in Seq(T) /\ Len(l5) = Len(l4) + Len(s4)
        /\ \A i \in 1 .. Len(l4) : l5[i] = l4[i]
        /\ \A i \in 1 .. Len(s4) : l5[Len(l4) + i] = s4[i]
    BY <2>1, ConcatProperties
  <2> HIDE DEF l5
  <2> QED BY <1>3, <1>8, <2>2
<1> HIDE DEF l5
<1>10. \A i \in 1 .. 5 : l5[i].op = LeaveOps[i]
  <2>1. \A i \in 1 .. 5 : i = 1 \/ i = 2 \/ i = 3 \/ i = 4 \/ i = 5
    OBVIOUS
  <2> QED BY <1>2, <1>9, <2>1 DEF LeaveOps
<1> QED BY <1>1, <1>2, <1>9, <1>10

LEMMA BootCalm ==
  ASSUME Basis, Unfailed, Boot
  PROVE  Unfailed'
<1> DEFINE todo == <<MustElse("start", GraphOf(files.mode), <<>>), Note("other", 0)>>
                   \o (IF files.mode = "night"
                       THEN <<Must("sync", 0), Must("apply", files.night), Must("preview", files.night)>>
                       ELSE <<May("sync", 0)>>)
<1>1. /\ Begin("boot", "none", todo) /\ ~ui.up /\ UNCHANGED <<files, co, b>>
      /\ ui'.up = TRUE /\ ui'.mode = files.mode
  BY DEF Boot
<1>2. Plain /\ ~co.busy
  BY <1>1, NotUpAlone DEF Unfailed, Basis
<1>3. files.mode = "night" => ShowList(todo, files.night)
  <2>1. ASSUME NEW n, n = files.night, NEW g, g = GraphOf(files.mode), files.mode = "night"
        PROVE  ShowList(todo, n)
    BY <2>1, BootListShows
  <2> QED BY <2>1
<1>4. files.mode # "night" => todo \in AskedList(PlainOps)
  BY BootListOK, FlatFrom DEF Basis, ExposureTypeOK
<1> HIDE DEF todo
<1>5. job'.name = "boot" /\ job'.todo = todo
  BY <1>1, Begun
<1>6. CASE files.mode = "night"
  <2>1. ASSUME NEW n, n = files.night
        PROVE  ShowStage(n)'
    <3>1. ShowList(job'.todo, n)
      BY <1>3, <1>5, <1>6, <2>1
    <3> QED BY <1>1, <1>2, <3>1 DEF ShowStage, OnOrOff, Plain, Fresh, Off
  <2>2. InNight' /\ ShowStage(files.night)'
    BY <1>1, <1>6, <2>1 DEF InNight
  <2>3. Stage'
    BY <1>5, <2>2 DEF Stage
  <2> QED BY <1>1, <1>2, <2>3 DEF Unfailed, Sure
<1>7. CASE files.mode # "night"
  <2>1. ~InNight' /\ PlainStage'
    BY <1>1, <1>2, <1>4, <1>5, <1>7 DEF InNight, PlainStage, Plain, Fresh, Off
  <2>2. Stage'
    BY <1>5, <2>1 DEF Stage
  <2> QED BY <1>1, <1>2, <2>2 DEF Unfailed, Sure
<1> QED BY <1>6, <1>7

LEMMA RecoverCalm ==
  ASSUME Basis, Unfailed, Recover
  PROVE  Unfailed'
<1>1. /\ Begin("recover", "none", PrimaryGraph) /\ UNCHANGED <<files, ui, co, b>>
      /\ Idle /\ ~ui.gallery
  BY DEF Recover
<1>2. OnOrOff /\ (~InNight => Plain)
  BY <1>1, IdleCalm
<1>3. job'.name = "recover" /\ job'.todo = PrimaryGraph /\ InNight' = InNight
  BY <1>1, Begun DEF InNight
<1>4. CASE InNight
  <2>1. ASSUME NEW n, n = files.night
        PROVE  ShowStage(n)'
    <3>1. ShowList(job'.todo, n)
      BY <1>3, <1>4, <2>1, PrimaryGraphShows
    <3> QED BY <1>1, <1>2, <3>1 DEF ShowStage, OnOrOff, Off
  <2>2. ShowStage(files.night)'
    BY <1>1, <2>1
  <2>3. Stage'
    BY <1>3, <1>4, <2>2 DEF Stage
  <2> QED BY <1>1, <2>3, BeginCalm
<1>5. CASE ~InNight
  <2>1. PrimaryGraph \in AskedList(PlainOps)
    BY <1>5, PrimaryGraphOK, FlatFrom DEF Basis, ExposureTypeOK
  <2>2. PlainStage'
    BY <1>1, <1>2, <1>3, <1>5, <2>1 DEF PlainStage, Plain, Fresh, Off
  <2>3. Stage'
    BY <1>3, <1>5, <2>2 DEF Stage
  <2> QED BY <1>1, <2>3, BeginCalm
<1> QED BY <1>4, <1>5

LEMMA SleepCalm ==
  ASSUME Basis, Unfailed, Sleep
  PROVE  Unfailed'
<1> DEFINE todo == <<OrElse("stop", 0, PrimaryGraph)>>
<1>1. /\ Begin("sleep", "none", todo) /\ UNCHANGED <<files, ui, co, b>> /\ Idle /\ ~ui.gallery
  BY DEF Sleep
<1>2. OnOrOff
  BY <1>1, IdleCalm
<1>3. Len(todo) = 1 /\ todo[1].op = "stop"
  BY DEF OrElse, Request
<1> HIDE DEF todo
<1>4. job'.name = "sleep" /\ job'.todo = todo
  BY <1>1, Begun
<1>5. Stage'
  BY <1>1, <1>2, <1>3, <1>4 DEF Stage, OnOrOff, Off
<1> QED BY <1>1, <1>5, BeginCalm

LEMMA PressCalm ==
  ASSUME Basis, Unfailed, Press
  PROVE  Unfailed'
<1>1. /\ Begin("snapshot", "none", PreviewAgain) /\ UNCHANGED <<files, ui, b>> /\ Idle /\ ~ui.gallery
  BY DEF Press
<1>2. /\ ui.up /\ ~co.busy /\ ui.mode = files.mode /\ files.night \in NightPairs
      /\ b.camera # "playing" /\ (~InNight => Plain)
  BY <1>1, IdleCalm DEF Unfailed
<1>3. co' = [busy |-> TRUE, todo |-> CaptureRequests(Taking), ok |-> TRUE, pair |-> Taking,
             asked |-> ui.shown, mode |-> ui.mode, orphan |-> FALSE]
  BY <1>2 DEF Press
<1>4. co'.busy /\ co'.pair = Taking /\ ~co'.orphan
  BY <1>3
<1>5. InNight => Rate(Taking) # 30
  BY <1>2, TakingOK, ValuesOK DEF Basis, ExposureTypeOK, InNight
<1>6. CaptureStage'
  BY <1>1, <1>2, <1>4, <1>5 DEF CaptureStage, InNight, Slow, Plain, Fresh, Off
<1>7. job'.name = "snapshot"
  BY <1>1, Begun
<1>8. Stage'
  BY <1>4, <1>7 DEF Stage
<1> QED BY <1>1, <1>2, <1>4, <1>6, <1>8 DEF Unfailed, Sure

LEMMA SelectModeCalm ==
  ASSUME Basis, Unfailed, SelectMode, Calm'
  PROVE  Unfailed'
<1>1. PICK sel \in Modes \ {ui.mode} :
        LET night == InNight \/ sel = "night"
            saved == [files EXCEPT ![Kind(ui.mode)] = ui.shown] IN
        \/ /\ files' = (IF night THEN saved ELSE files) /\ UNCHANGED faults
           /\ Begin("mode", sel, ModeRequests(sel, Load(files', sel), ui.shown))
        \/ /\ night /\ Spend(1) /\ UNCHANGED files
           /\ Begin("mode", sel, ModeRequests(sel, Load(files, sel), ui.shown))
  BY DEF SelectMode
<1>2. UNCHANGED <<ui, co, b>> /\ Idle /\ ~ui.gallery
  BY DEF SelectMode
<1>3. ~Spend(1)
  BY DEF Spend, Calm, Basis, ExposureTypeOK
<1>4. /\ files' = (IF InNight \/ sel = "night"
                   THEN [files EXCEPT ![Kind(ui.mode)] = ui.shown] ELSE files)
      /\ Begin("mode", sel, ModeRequests(sel, Load(files', sel), ui.shown))
  BY <1>1, <1>3
<1>5. /\ ui.up /\ ~co.busy /\ ui.mode = files.mode /\ files.night \in NightPairs
      /\ (InNight => ui.shown = files.night) /\ OnOrOff /\ (~InNight => Plain)
  BY <1>2, IdleCalm DEF Unfailed
<1>6. files'.night = files.night /\ files'.mode = files.mode
  BY <1>4, <1>5 DEF Basis, ExposureTypeOK, FilesType, Kind, InNight
<1> DEFINE target == Load(files', sel)
           todo == ModeRequests(sel, target, ui.shown)
<1>7. /\ job'.name = "mode" /\ job'.to = sel /\ job'.ok = TRUE /\ job'.todo = todo
  BY <1>4, Begun
<1>8. sel = "night" => target = files.night
  BY <1>5, <1>6 DEF Load, Allowed, Kind
<1>9. (OnOrOff' <=> OnOrOff) /\ (Plain' <=> Plain) /\ (InNight' <=> InNight)
  BY <1>2 DEF OnOrOff, Plain, Fresh, Off, InNight
<1> HIDE DEF target
<1>10. CASE sel = "night"
  <2>1. ~InNight
    BY <1>1, <1>10 DEF InNight
  <2>2. ASSUME NEW n, n = files.night
        PROVE  NightStage(n)'
    <3>1. /\ Len(todo) = 6 /\ todo[5].arg = n
          /\ \A i \in 1 .. 6 : todo[i].op = NightOps[i]
      BY <1>8, <1>10, <2>1, <2>2, NightRequests
    <3> HIDE DEF todo
    <3>2. 0 \in 0 .. 6 /\ 6 - 0 = 6 /\ 5 - 0 = 5 /\ \A i \in 1 .. 6 : i + 0 = i
      OBVIOUS
    <3>3. /\ Len(job'.todo) = 6 - 0 /\ \A i \in 1 .. 6 - 0 : job'.todo[i].op = NightOps[i + 0]
          /\ job'.todo[5 - 0].arg = n
      BY <1>7, <3>1, <3>2
    <3> QED BY <1>5, <1>9, <3>2, <3>3 DEF NightStage
  <2>3. NightStage(files.night)'
    BY <1>6, <2>2
  <2>4. Stage'
    BY <1>7, <1>9, <1>10, <2>1, <2>3 DEF Stage
  <2> QED BY <1>2, <1>5, <1>6, <2>4 DEF Unfailed, Sure
<1>11. CASE sel # "night" /\ InNight
  <2>1. LeaveStage'
    <3>1. /\ Len(todo) = 5 /\ todo[1].rest /\ ~todo[1].must
          /\ \A i \in 1 .. 5 : todo[i].op = LeaveOps[i]
      BY <1>11, LeaveRequests
    <3> HIDE DEF todo
    <3>2. 0 \in 0 .. 5 /\ 5 - 0 = 5 /\ \A i \in 1 .. 5 : i + 0 = i
      OBVIOUS
    <3>3. /\ Len(job'.todo) = 5 - 0 /\ \A i \in 1 .. 5 - 0 : job'.todo[i].op = LeaveOps[i + 0]
          /\ job'.todo[1].rest /\ ~job'.todo[1].must
      BY <1>7, <3>1, <3>2
    <3> QED BY <1>5, <1>9, <3>2, <3>3 DEF LeaveStage
  <2>2. Stage'
    BY <1>7, <1>9, <1>11, <2>1 DEF Stage
  <2> QED BY <1>2, <1>5, <1>6, <2>2 DEF Unfailed, Sure
<1>12. CASE sel # "night" /\ ~InNight
  <2>1. todo \in AskedList(PlainOps)
    <3>1. files' \in FilesType /\ ui.shown \in Pairs /\ ui \in UiType
      BY <1>4, <1>12 DEF Basis, ExposureTypeOK, UiType
    <3>2. target \in Pairs
      BY <3>1, PairsOK DEF target
    <3> QED BY <1>12, <3>1, <3>2, ModeRequestsOK
  <2>2. PlainStage'
    BY <1>5, <1>7, <1>9, <1>12, <2>1 DEF PlainStage
  <2>3. Stage'
    BY <1>7, <1>9, <1>12, <2>2 DEF Stage
  <2> QED BY <1>2, <1>5, <1>6, <2>3 DEF Unfailed, Sure
<1> QED BY <1>10, <1>11, <1>12

LEMMA SelectPairCalm ==
  ASSUME Basis, Unfailed, SelectPair
  PROVE  Unfailed'
<1>1. PICK pair \in Allowed(ui.mode) :
        Begin("pair", pair, IF InNight THEN <<MustElse("preview", pair, PreviewAgain)>>
                                       ELSE <<Must("set", pair)>>)
  BY DEF SelectPair
<1>2. UNCHANGED <<files, ui, co, b>> /\ Idle /\ ~ui.gallery
  BY DEF SelectPair
<1>3. OnOrOff /\ (~InNight => Plain) /\ (InNight => pair \in NightPairs)
  BY <1>2, IdleCalm DEF InNight, Allowed
<1>4. /\ job'.name = "pair" /\ job'.to = pair /\ job'.ok = TRUE
      /\ job'.todo = IF InNight THEN <<MustElse("preview", pair, PreviewAgain)>>
                                ELSE <<Must("set", pair)>>
  BY <1>1, Begun
<1>5. /\ (OnOrOff' <=> OnOrOff) /\ (Plain' <=> Plain) /\ (InNight' <=> InNight)
      /\ PreviewAgain' = PreviewAgain
  BY <1>2 DEF OnOrOff, Plain, Fresh, Off, InNight, PreviewAgain
<1>6. Stage'
  <2>1. CASE InNight
    <3>1. job'.todo = <<MustElse("preview", job'.to, PreviewAgain')>>
      BY <1>4, <1>5, <2>1
    <3> QED BY <1>3, <1>4, <1>5, <2>1, <3>1 DEF Stage
  <2>2. CASE ~InNight
    BY <1>3, <1>4, <1>5, <2>2 DEF Stage
  <2> QED BY <2>1, <2>2
<1> QED BY <1>1, <1>2, <1>6, BeginCalm

LEMMA LcdOnCalm ==
  ASSUME Basis, Unfailed, LcdOn
  PROVE  Unfailed'
<1>1. /\ Begin("lcd", "none", PreviewAgain) /\ UNCHANGED <<files, ui, co, b>> /\ Idle /\ ~ui.gallery
      /\ InNight
  BY DEF LcdOn
<1>2. OnOrOff
  BY <1>1, IdleCalm
<1>3. job'.name = "lcd" /\ job'.todo = PreviewAgain
  BY <1>1, Begun
<1>4. ASSUME NEW n, n = ui.shown
      PROVE  ShowStage(n)'
  <2>1. ShowList(job'.todo, n)
    BY <1>1, <1>3, <1>4, PreviewAgainShows
  <2> QED BY <1>1, <1>2, <2>1 DEF ShowStage, OnOrOff, Off
<1>5. InNight' /\ ShowStage(ui.shown)'
  BY <1>1, <1>4 DEF InNight
<1>6. Stage'
  BY <1>3, <1>5 DEF Stage
<1> QED BY <1>1, <1>6, BeginCalm

LEMMA GalleryCalm ==
  ASSUME Basis, Unfailed, Gallery
  PROVE  Unfailed'
<1>1. UNCHANGED <<files, ui, co, b>> /\ Idle
  BY DEF Gallery
<1>2. /\ (OnOrOff' <=> OnOrOff) /\ (Plain' <=> Plain) /\ (Playing' <=> Playing)
      /\ (InNight' <=> InNight) /\ PreviewAgain' = PreviewAgain
  BY <1>1 DEF OnOrOff, Plain, Fresh, Off, Playing, InNight, PreviewAgain
<1>3. CASE ~ui.gallery /\ Begin("enter", "none", <<Must("play", 0)>>)
  <2>1. OnOrOff /\ (~InNight => Plain)
    BY <1>1, <1>3, IdleCalm
  <2>2. job'.name = "enter" /\ job'.ok = TRUE /\ job'.todo = <<Must("play", 0)>>
    BY <1>3, Begun
  <2>3. Stage'
    BY <1>1, <1>2, <1>3, <2>1, <2>2 DEF Stage
  <2> QED BY <1>1, <1>3, <2>3, BeginCalm
<1>4. CASE ui.gallery /\ Begin("leave", "none", <<Must("endPlay", 0)>> \o PreviewAgain)
  <2>1. Playing
    BY <1>1, <1>4, IdleCalm
  <2>2. job'.name = "leave" /\ job'.ok = TRUE /\ job'.todo = <<Must("endPlay", 0)>> \o PreviewAgain
    BY <1>4, Begun
  <2>3. Stage'
    BY <1>1, <1>2, <1>4, <2>1, <2>2 DEF Stage
  <2> QED BY <1>1, <1>4, <2>3, BeginCalm
<1> QED BY <1>3, <1>4 DEF Gallery

LEMMA ExitCalm ==
  ASSUME Basis, Unfailed, Exit
  PROVE  Unfailed'
<1> DEFINE rest == If(InNight, <<May("standard", 0), May("set", ui.shown)>>)
           todo == If(ui.gallery, <<May("endPlay", 0)>>) \o rest
<1>1. UNCHANGED <<files, ui, co, b>> /\ Idle /\ Begin("exit", "none", todo)
  BY DEF Exit
<1>2. /\ (OnOrOff' <=> OnOrOff) /\ (Plain' <=> Plain) /\ (Playing' <=> Playing)
      /\ (InNight' <=> InNight) /\ rest' = rest
  BY <1>1 DEF OnOrOff, Plain, Fresh, Off, Playing, InNight
<1>3. job'.name = "exit" /\ job'.todo = todo
  <2> HIDE DEF todo
  <2> QED BY <1>1, Begun
<1>4. CASE ui.gallery
  <2>1. todo = <<May("endPlay", 0)>> \o rest
    BY <1>4 DEF If
  <2>2. Playing'
    BY <1>1, <1>2, <1>4, IdleCalm
  <2>3. Stage'
    BY <1>2, <1>3, <2>1, <2>2 DEF Stage
  <2> QED BY <1>1, <2>3, BeginCalm
<1>5. CASE ~ui.gallery
  <2>1. todo = rest
    <3>1. IsList(rest)
      <4>1. CASE InNight
        <5>1. rest = <<May("standard", 0)>> \o <<May("set", ui.shown)>>
          BY <4>1, TwoByOne DEF If
        <5>2. IsList(<<May("set", ui.shown)>>)
          BY Alone
        <5> QED BY <5>1, <5>2, PutFirst
      <4>2. CASE ~InNight
        BY <4>2, Alone DEF If
      <4> QED BY <4>1, <4>2
    <3>2. todo = <<>> \o rest
      BY <1>5 DEF If
    <3> HIDE DEF rest, todo
    <3> QED BY <3>1, <3>2, NothingFirst
  <2>2. IF InNight' THEN OnOrOff' ELSE Plain'
    BY <1>1, <1>2, <1>5, IdleCalm
  <2>3. Stage'
    BY <1>2, <1>3, <2>1, <2>2 DEF Stage
  <2> QED BY <1>1, <2>3, BeginCalm
<1> QED BY <1>1, <1>4, <1>5 DEF Basis, ExposureTypeOK, UiType

(* The end of a job, while nothing has failed.                              *)
LEMMA JobDone ==
  ASSUME Basis, Unfailed, Finish
  PROVE  /\ ui.up /\ ~co.busy /\ ui.mode = files.mode /\ job.todo = <<>> /\ Stage /\ Sure
         /\ job.name \in SetUpJobs \cup ShowJobs /\ job.name # "none" /\ job.ok \in BOOLEAN
         /\ ui.gallery => job.name \in {"leave", "exit"}
         /\ job'.name = "none" /\ UNCHANGED <<co, b>>
<1>1. ui.up /\ job.name # "none" /\ job.todo = <<>> /\ ~Waiting /\ job' = NoJob /\ UNCHANGED <<co, b>>
  BY DEF Finish
<1>2. ~co.busy
  BY <1>1 DEF Unfailed, Basis, Awaits, Waiting, Sure
<1>3. job.name \in SetUpJobs \cup ShowJobs /\ job.ok \in BOOLEAN
      /\ (ui.gallery => job.name \in {"leave", "exit"})
  BY <1>1 DEF Basis, ExposureTypeOK, JobOK
<1> QED BY <1>1, <1>2, <1>3 DEF Unfailed, NoJob

LEMMA ViewsAfter ==
  ASSUME Finish
  PROVE  /\ ui'.up = (job.name # "exit")
         /\ ui'.mode = IF job.name = "mode" /\ job.ok THEN job.to ELSE ui.mode
         /\ ui'.gallery = IF job.ok THEN job.name = "enter" \/ (ui.gallery /\ job.name # "leave")
                          ELSE ui.gallery
         /\ ui'.shown = IF job.name = "snapshot" \/ ui'.gallery THEN ui.shown
                        ELSE ShownOf(files', ui'.mode)
  BY DEF Finish

(* The jobs that save nothing, outside the gallery.                         *)
LEMMA SetUpEndsCalm ==
  ASSUME Basis, Unfailed, Finish, job.name \in {"boot", "recover", "sleep", "snapshot", "lcd"}
  PROVE  Unfailed'
<1>1. /\ ui.up /\ ~co.busy /\ ui.mode = files.mode /\ job.todo = <<>> /\ Stage /\ Sure
      /\ job.ok \in BOOLEAN /\ ~ui.gallery /\ job'.name = "none" /\ UNCHANGED <<co, b>>
  BY JobDone
<1>2. ui'.up /\ ui'.mode = ui.mode /\ ~ui'.gallery
      /\ ui'.shown = (IF job.name = "snapshot" THEN ui.shown ELSE ShownOf(files', ui.mode))
  BY <1>1, ViewsAfter
<1>3. files' = files
  BY <1>1 DEF Finish, Saving
<1>4. InNight' = InNight /\ (Plain' <=> Plain) /\ (Off' <=> Off)
  BY <1>1, <1>2 DEF InNight, Plain, Fresh, Off
<1>5. CASE ~InNight
  <2>1. Plain
    BY <1>1, <1>5 DEF Stage, PlainStage, Plain
  <2> QED BY <1>1, <1>2, <1>3, <1>4, <1>5, <2>1 DEF Unfailed, Stage, Standing, Sure
<1>6. CASE InNight
  <2>1. ui'.shown = files.night
    BY <1>1, <1>2, <1>3, <1>6 DEF Basis, ShownInNight, ShowJobs, ShownOf, InNight
  <2>2. Lit(files.night) \/ Off
    <3>1. job.name \in {"boot", "recover"} => ShowStage(files.night)
      BY <1>1, <1>6 DEF Stage
    <3>2. job.name \in {"snapshot", "lcd"} => ShowStage(files.night)
      <4>1. job.name \in {"snapshot", "lcd"} => ui.shown = files.night
        BY <1>1, <1>6 DEF Basis, ShownInNight, ShowJobs
      <4>2. job.name \in {"snapshot", "lcd"} => ShowStage(ui.shown)
        BY <1>1, <1>6 DEF Stage
      <4> QED BY <4>1, <4>2
    <3>3. job.name = "sleep" => Off
      BY <1>1 DEF Stage
    <3>4. ASSUME NEW n, ShowStage(n) PROVE Lit(n) \/ Off
      BY <1>1, <3>4 DEF ShowStage, ShowList
    <3> QED BY <3>1, <3>2, <3>3, <3>4
  <2>3. (Lit(ui.shown) \/ Off)'
    <3>1. ASSUME NEW n, n = files.night, Lit(n) PROVE Lit(n)'
      BY <1>1, <3>1 DEF Lit
    <3> QED BY <1>4, <2>1, <2>2, <3>1
  <2>4. Stage'
    BY <1>1, <1>2, <1>4, <1>6, <2>3 DEF Stage, Standing
  <2> QED BY <1>1, <1>2, <1>3, <2>4 DEF Unfailed, Sure
<1> QED BY <1>5, <1>6

LEMMA ModeEndsCalm ==
  ASSUME Basis, Unfailed, Finish, Calm', job.name = "mode"
  PROVE  Unfailed'
<1>1. /\ ui.up /\ ~co.busy /\ ui.mode = files.mode /\ job.todo = <<>> /\ Stage /\ Sure
      /\ job.ok \in BOOLEAN /\ ~ui.gallery /\ job'.name = "none" /\ UNCHANGED <<co, b>>
      /\ files \in FilesType /\ files.night \in NightPairs
  BY JobDone DEF Unfailed, Basis, ExposureTypeOK
<1>2. ~Spend(1)
  BY DEF Spend, Calm, Basis, ExposureTypeOK
<1>3. files' = IF job.ok THEN [files EXCEPT !.mode = job.to] ELSE files
  BY <1>1, <1>2 DEF Finish, Saving
<1>4. /\ ui'.up /\ ~ui'.gallery /\ ui'.mode = IF job.ok THEN job.to ELSE ui.mode
      /\ ui'.shown = ShownOf(files', ui'.mode)
  BY <1>1, ViewsAfter
<1>5. files'.night = files.night /\ ui'.mode = files'.mode
  BY <1>1, <1>3, <1>4 DEF FilesType
<1>6. (Plain' <=> Plain) /\ (Off' <=> Off)
  BY <1>1 DEF Plain, Fresh, Off
<1>7. Standing'
  <2>1. CASE job.to = "night"
    <3>1. job.ok /\ NightStage(files.night)
      BY <1>1, <2>1 DEF Stage
    <3>2. ui'.shown = files.night
      BY <1>3, <1>4, <1>5, <2>1, <3>1 DEF ShownOf
    <3>3. ASSUME NEW n, NightStage(n) PROVE Lit(n)
      <4>1. PICK k \in 0 .. 6 : Len(job.todo) = 6 - k /\ (k >= 5 => Lit(n))
        BY <3>3 DEF NightStage
      <4>2. Len(job.todo) = 0
        BY <1>1
      <4> QED BY <4>1, <4>2
    <3>4. ASSUME NEW n, n = files.night PROVE Lit(n)'
      BY <1>1, <3>1, <3>3, <3>4 DEF Lit
    <3> QED BY <1>4, <2>1, <3>1, <3>2, <3>4 DEF Standing, InNight
  <2>2. CASE job.to # "night"
    <3>1. Plain /\ (job.ok \/ ~InNight)
      <4>1. CASE InNight
        <5>1. job.ok /\ LeaveStage
          BY <1>1, <2>2, <4>1 DEF Stage
        <5>2. PICK k \in 0 .. 5 : Len(job.todo) = 5 - k /\ (k >= 2 => Fresh)
          BY <5>1 DEF LeaveStage
        <5>3. Len(job.todo) = 0
          BY <1>1
        <5> QED BY <5>1, <5>2, <5>3 DEF Plain
      <4>2. CASE ~InNight
        BY <1>1, <2>2, <4>2 DEF Stage, PlainStage
      <4> QED BY <4>1, <4>2
    <3>2. ~InNight'
      BY <1>4, <2>2, <3>1 DEF InNight
    <3> QED BY <1>6, <3>1, <3>2 DEF Standing
  <2> QED BY <2>1, <2>2
<1> QED BY <1>1, <1>4, <1>5, <1>7 DEF Unfailed, Stage, Sure

LEMMA PairEndsCalm ==
  ASSUME Basis, Unfailed, Finish, Calm', job.name = "pair"
  PROVE  Unfailed'
<1>1. /\ ui.up /\ ~co.busy /\ ui.mode = files.mode /\ job.todo = <<>> /\ Stage /\ Sure
      /\ job.ok \in BOOLEAN /\ ~ui.gallery /\ job'.name = "none" /\ UNCHANGED <<co, b>>
      /\ files \in FilesType /\ files.night \in NightPairs
  BY JobDone DEF Unfailed, Basis, ExposureTypeOK
<1>2. ~Spend(1)
  BY DEF Spend, Calm, Basis, ExposureTypeOK
<1>3. files' = IF job.ok THEN SavedPair(job.to) ELSE files
  BY <1>1, <1>2 DEF Finish, Saving
<1>4. /\ ui'.up /\ ~ui'.gallery /\ ui'.mode = ui.mode /\ ui'.shown = ShownOf(files', ui.mode)
  BY <1>1, ViewsAfter
<1>5. InNight' = InNight /\ (Plain' <=> Plain) /\ (Off' <=> Off) /\ files'.mode = files.mode
  BY <1>1, <1>3, <1>4 DEF InNight, Plain, Fresh, Off, SavedPair, FilesType
<1>6. CASE ~InNight
  <2>1. Plain /\ files'.night = files.night
    BY <1>1, <1>3, <1>6 DEF Stage, SavedPair, FilesType
  <2> QED BY <1>1, <1>4, <1>5, <1>6, <2>1 DEF Unfailed, Stage, Standing, Sure
<1>7. CASE InNight
  <2>1. job.to \in NightPairs
    BY <1>1, <1>7 DEF Stage
  <2>2. IF job.ok THEN Lit(job.to) ELSE Off
    <3>1. <<MustElse("preview", job.to, PreviewAgain)>> # <<>>
      BY Alone
    <3> QED BY <1>1, <1>7, <3>1 DEF Stage
  <2>3. files'.night = (IF job.ok THEN job.to ELSE files.night) /\ files'.night \in NightPairs
    BY <1>1, <1>3, <1>7, <2>1 DEF SavedPair, FilesType
  <2>4. ui'.shown = files'.night
    BY <1>4, <1>7 DEF ShownOf, InNight
  <2>5. (Lit(ui.shown) \/ Off)'
    <3>1. ASSUME NEW n, Lit(n) PROVE Lit(n)'
      BY <1>1, <3>1 DEF Lit
    <3> QED BY <1>5, <2>2, <2>3, <2>4, <3>1
  <2>6. Stage'
    BY <1>1, <1>4, <1>5, <1>7, <2>5 DEF Stage, Standing
  <2> QED BY <1>1, <1>4, <1>5, <2>3, <2>6 DEF Unfailed, Sure
<1> QED BY <1>6, <1>7

LEMMA GalleryEndsCalm ==
  ASSUME Basis, Unfailed, Finish, job.name \in {"enter", "leave"}
  PROVE  Unfailed'
<1>1. /\ ui.up /\ ~co.busy /\ ui.mode = files.mode /\ job.todo = <<>> /\ Stage /\ Sure
      /\ job'.name = "none" /\ UNCHANGED <<co, b>>
  BY JobDone
<1>2. job.ok /\ files' = files
  BY <1>1 DEF Finish, Saving, Stage
<1>3. /\ ui'.up /\ ui'.mode = ui.mode /\ ui'.gallery = (job.name = "enter")
      /\ ui'.shown = IF ui'.gallery THEN ui.shown ELSE ShownOf(files, ui.mode)
  BY <1>1, <1>2, ViewsAfter
<1>4. InNight' = InNight /\ (Plain' <=> Plain) /\ (Playing' <=> Playing)
  BY <1>1, <1>3 DEF InNight, Plain, Fresh, Off, Playing
<1>5. CASE job.name = "enter"
  <2>1. Playing
    <3>1. <<Must("play", 0)>> # <<>>
      BY Alone
    <3> QED BY <1>1, <1>5, <3>1 DEF Stage
  <2>2. Stage'
    BY <1>1, <1>3, <1>4, <1>5, <2>1 DEF Stage
  <2> QED BY <1>1, <1>2, <1>3, <2>2 DEF Unfailed, Sure
<1>6. CASE job.name = "leave"
  <2>1. IF InNight THEN Lit(ui.shown) ELSE Fresh
    <3>1. <<Must("endPlay", 0)>> \o PreviewAgain # <<>>
      <4>1. IsList(PreviewAgain)
        BY Alone DEF PreviewAgain, If
      <4> QED BY <4>1, PutFirst
    <3>2. InNight => PreviewAgain # <<>>
      BY Alone DEF PreviewAgain, If
    <3> QED BY <1>1, <1>6, <3>1, <3>2 DEF Stage
  <2>2. InNight => ui'.shown = ui.shown
    BY <1>1, <1>3, <1>6 DEF Basis, ShownInNight, ShowJobs, ShownOf, InNight
  <2>3. InNight => Lit(ui.shown)'
    <3>1. ASSUME NEW n, Lit(n) PROVE Lit(n)'
      BY <1>1, <3>1 DEF Lit
    <3> QED BY <2>1, <2>2, <3>1
  <2>4. ~InNight => Plain'
    BY <1>4, <2>1 DEF Plain
  <2>5. Stage'
    BY <1>1, <1>3, <1>4, <1>6, <2>3, <2>4 DEF Stage, Standing
  <2> QED BY <1>1, <1>2, <1>3, <2>5 DEF Unfailed, Sure
<1> QED BY <1>5, <1>6

LEMMA ExitEndsCalm ==
  ASSUME Basis, Unfailed, Finish, job.name = "exit"
  PROVE  Unfailed'
<1>1. /\ ui.up /\ ~co.busy /\ job.todo = <<>> /\ Stage /\ Sure /\ UNCHANGED <<co, b>>
  BY JobDone
<1>2. files' = files /\ ~ui'.up
  BY <1>1, ViewsAfter DEF Finish, Saving
<1> DEFINE rest == If(InNight, <<May("standard", 0), May("set", ui.shown)>>)
<1>3. \/ job.todo = <<May("endPlay", 0)>> \o rest
      \/ job.todo = rest /\ (IF InNight THEN OnOrOff ELSE Plain)
      \/ Plain
  BY <1>1 DEF Stage
<1>4. InNight => rest = <<May("standard", 0)>> \o <<May("set", ui.shown)>>
  BY TwoByOne DEF If
<1>5. ~InNight => rest = <<>>
  BY DEF If
<1>6. IsList(<<May("set", ui.shown)>>) /\ IsList(<<>>)
  BY Alone
<1> HIDE DEF rest
<1>7. InNight => IsList(rest) /\ rest # <<>>
  BY <1>4, <1>6, PutFirst
<1>8. <<May("endPlay", 0)>> \o rest # <<>>
  BY <1>5, <1>6, <1>7, PutFirst
<1>9. Plain
  BY <1>1, <1>3, <1>7, <1>8
<1> QED BY <1>1, <1>2, <1>9 DEF Unfailed, Sure, Plain, Fresh, Off

LEMMA FinishCalm ==
  ASSUME Basis, Unfailed, Finish, Calm'
  PROVE  Unfailed'
<1>1. job.name \in SetUpJobs \cup ShowJobs /\ job.name # "none"
  BY JobDone
<1> QED BY <1>1, SetUpEndsCalm, ModeEndsCalm, PairEndsCalm, GalleryEndsCalm, ExitEndsCalm
     DEF SetUpJobs, ShowJobs

LEMMA PollCalm ==
  ASSUME Basis, Unfailed, Poll
  PROVE  Unfailed'
<1>1. /\ Idle /\ ~ui.gallery /\ ui' = [ui EXCEPT !.shown = Shown(ui.mode)]
      /\ UNCHANGED <<files, job, co, b>>
  BY DEF Poll
<1>2. ui'.up /\ ui'.mode = ui.mode /\ ~ui'.gallery /\ ui'.shown = Shown(ui.mode) /\ job'.name = "none"
  BY <1>1 DEF Basis, ExposureTypeOK, UiType, Idle
<1>3. /\ ui.up /\ ~co.busy /\ ui.mode = files.mode /\ Standing
      /\ InNight => ui.shown = files.night
  BY <1>1, IdleCalm
<1>4. InNight' = InNight /\ (Plain' <=> Plain) /\ (Off' <=> Off)
      /\ (InNight => ui'.shown = ui.shown)
  BY <1>1, <1>2, <1>3 DEF InNight, Plain, Fresh, Off, Shown, ShownOf
<1>5. ASSUME NEW n, Lit(n) PROVE Lit(n)'
  BY <1>1, <1>5 DEF Lit
<1>6. Standing'
  BY <1>3, <1>4, <1>5 DEF Standing
<1>7. Stage'
  BY <1>2, <1>6 DEF Stage
<1> QED BY <1>1, <1>2, <1>3, <1>7 DEF Unfailed, Sure

-----------------------------------------------------------------------------
LEMMA InitOK == ExposureInit => ExposureInv
<1> SUFFICES ASSUME ExposureInit
             PROVE  ExposureInv
  OBVIOUS
<1>1. b \in BackendType /\ Plain
  BY DEF ExposureInit, BackendType, SensorsType, Both, Cameras, Graphs, Pairs, Rates, Plain, Off
<1>2. files \in FilesType /\ ui \in UiType /\ faults \in Nat
  BY DEF ExposureInit, FilesType, UiType, Pairs
<1>3. JobOK
  <2>1. <<>> \in AskedList(ShowOps)
    BY AskedFrom
  <2> QED BY <2>1 DEF ExposureInit, JobOK, NoJob, ShowJobs
<1>4. CoOK /\ CaptureOutline /\ Awaits /\ ShownInNight
  BY DEF ExposureInit, CoOK, NoCapture, Pairs, CaptureOutline, Awaits, ShownInNight
<1>5. Unfailed
  <2>1. "eighth" \in NightPairs
    BY DEF NightPairs
  <2> QED BY <1>1, <2>1 DEF ExposureInit, Unfailed, Sure, NoCapture
<1> QED BY <1>1, <1>2, <1>3, <1>4, <1>5 DEF ExposureInv, ExposureTypeOK

LEMMA InvSplit == ExposureInv <=> Basis /\ (Calm => Unfailed)
  BY DEF ExposureInv, Basis

LEMMA Undisturbing == ASSUME ExposureInv PROVE Basis /\ QuietCapture
  BY InvSplit DEF QuietCapture, Unfailed

(* A failure is not taken back.                                             *)
LEMMA StaysFailed ==
  ASSUME Basis, QuietCapture, ExposureNext, Calm'
  PROVE  Calm
<1>1. faults \in Nat
  BY DEF Basis, ExposureTypeOK
<1>2. CASE CoordinatorStep
  BY <1>2, CoordinatorStepOK DEF Basis, QuietCapture, Keeps
<1>3. CASE UiStep
  <2>1. PICK r, o : Proceeds(r, o) /\ Typed(o)
    BY <1>3, UiProceeds DEF Basis
  <2> QED BY <1>1, <2>1 DEF Proceeds, Typed, Spend, Calm
<1>4. CASE Finish
  BY <1>4, SavingOK DEF Finish, Basis
<1>5. CASE SelectMode
  <2>1. UNCHANGED faults \/ Spend(1)
    BY <1>5 DEF SelectMode
  <2> QED BY <1>1, <2>1 DEF Spend, Calm
<1>6. CASE Crash
  BY <1>6, CrashKeeps
<1>7. CASE CoordinatorEnds \/ Boot \/ Recover \/ Sleep \/ Press \/ SelectPair \/ LcdOn \/ Gallery
           \/ Exit \/ Poll
  BY <1>7 DEF CoordinatorEnds, Boot, Recover, Sleep, Press, SelectPair, LcdOn, Gallery, Exit, Poll, Calm
<1> QED BY <1>2, <1>3, <1>4, <1>5, <1>6, <1>7 DEF ExposureNext

LEMMA NextKeeps ==
  ASSUME Basis, QuietCapture, ExposureNext
  PROVE  Basis'
  BY CoordinatorStepKeeps, CoordinatorEndsKeeps, BootKeeps, RecoverKeeps, SleepKeeps, PressKeeps,
     SelectModeKeeps, SelectPairKeeps, LcdOnKeeps, GalleryKeeps, ExitKeeps, UiStepKeeps,
     FinishKeeps, PollKeeps, CrashKeeps DEF ExposureNext

LEMMA NextCalm ==
  ASSUME Basis, Unfailed, Calm, ExposureNext, Calm'
  PROVE  Unfailed'
  BY CoordinatorStepCalm, CoordinatorEndsCalm, BootCalm, RecoverCalm, SleepCalm, PressCalm,
     SelectModeCalm, SelectPairCalm, LcdOnCalm, GalleryCalm, ExitCalm, UiStepCalm,
     FinishCalm, PollCalm, CrashKeeps DEF ExposureNext

LEMMA StutterOK ==
  ASSUME ExposureInv, UNCHANGED exposureVars
  PROVE  ExposureInv'
<1>1. /\ files' = files /\ ui' = ui /\ job' = job /\ co' = co /\ b' = b /\ photo' = photo
      /\ faults' = faults
  BY DEF exposureVars
<1>2. ExposureTypeOK'
  BY <1>1 DEF ExposureInv, ExposureTypeOK, JobOK, CoOK
<1>3. CaptureOutline'
  <2>1. ASSUME NEW p, p = co.pair PROVE CaptureOutline'
    <3>1. SlowOutline(p) => SlowOutline(p)'
      BY <1>1 DEF SlowOutline, Unposed, Posed, Marked, PhotoRight, Restored, Sure, Calm
    <3>2. QuickOutline(p) => QuickOutline(p)'
      BY <1>1 DEF QuickOutline, Unposed, Posed, PhotoRight, Sure
    <3> QED BY <1>1, <2>1, <3>1, <3>2 DEF ExposureInv, CaptureOutline
  <2> QED BY <2>1
<1>4. Awaits' /\ ShownInNight'
  BY <1>1 DEF ExposureInv, Awaits, ShownInNight, Sure, InNight, PreviewAgain
<1>5. (Calm => Unfailed)'
  <2>1. /\ InNight' = InNight /\ (Plain' <=> Plain) /\ (Fresh' <=> Fresh) /\ (Off' <=> Off)
        /\ (OnOrOff' <=> OnOrOff) /\ (Playing' <=> Playing) /\ PreviewAgain' = PreviewAgain
        /\ (PlainStage' <=> PlainStage)
    BY <1>1 DEF InNight, Plain, Fresh, Off, OnOrOff, Playing, PreviewAgain, PlainStage
  <2>2. ASSUME NEW n PROVE Lit(n) => Lit(n)'
    BY <1>1 DEF Lit
  <2>3. ASSUME NEW n PROVE ShowStage(n) => ShowStage(n)'
    BY <1>1, <2>1, <2>2 DEF ShowStage
  <2>4. ASSUME NEW n PROVE NightStage(n) => NightStage(n)'
    <3> SUFFICES ASSUME NightStage(n) PROVE NightStage(n)'
      OBVIOUS
    <3>1. PICK k \in 0 .. 6 :
            /\ Len(job.todo) = 6 - k /\ \A i \in 1 .. 6 - k : job.todo[i].op = NightOps[i + k]
            /\ k <= 4 => job.todo[5 - k].arg = n
            /\ k <= 1 => OnOrOff
            /\ k \in 2 .. 4 => b.camera = "on"
            /\ k >= 5 => Lit(n)
      BY DEF NightStage
    <3> QED BY <1>1, <2>1, <2>2, <3>1 DEF NightStage
  <2>5. LeaveStage => LeaveStage'
    <3> SUFFICES ASSUME LeaveStage PROVE LeaveStage'
      OBVIOUS
    <3>1. PICK k \in 0 .. 5 :
            /\ Len(job.todo) = 5 - k /\ \A i \in 1 .. 5 - k : job.todo[i].op = LeaveOps[i + k]
            /\ k = 0 => OnOrOff /\ job.todo[1].rest /\ ~job.todo[1].must
            /\ k = 1 => Plain
            /\ k >= 2 => Fresh
      BY DEF LeaveStage
    <3> QED BY <1>1, <2>1, <3>1 DEF LeaveStage
  <2>6. /\ Lit(ui.shown) => Lit(ui.shown)'
        /\ Lit(job.to) => Lit(job.to)'
        /\ ShowStage(files.night) => ShowStage(files.night)'
        /\ ShowStage(ui.shown) => ShowStage(ui.shown)'
        /\ NightStage(files.night) => NightStage(files.night)'
    BY <1>1, <2>2, <2>3, <2>4
  <2>7. Stage => Stage'
    <3> SUFFICES ASSUME Stage PROVE Stage'
      OBVIOUS
    <3>1. Standing => Standing'
      BY <1>1, <2>1, <2>6 DEF Standing
    <3>2. CASE job.name \in {"none", "boot", "recover", "sleep", "snapshot", "lcd"}
      BY <1>1, <2>1, <2>6, <3>1, <3>2 DEF Stage
    <3>3. CASE job.name = "mode"
      BY <1>1, <2>1, <2>5, <2>6, <3>3 DEF Stage
    <3>4. CASE job.name = "pair"
      BY <1>1, <2>1, <2>6, <3>4 DEF Stage
    <3>5. CASE job.name \in {"enter", "leave", "exit"}
      BY <1>1, <2>1, <2>6, <3>5 DEF Stage
    <3>6. CASE job.name \notin {"none", "boot", "recover", "sleep", "snapshot", "lcd", "mode", "pair",
                                "enter", "leave", "exit"}
      BY <1>1, <3>6 DEF Stage
    <3> QED BY <3>2, <3>3, <3>4, <3>5, <3>6
  <2>8. CaptureStage => CaptureStage'
    BY <1>1, <2>1 DEF CaptureStage
  <2> QED BY <1>1, <2>1, <2>7, <2>8 DEF ExposureInv, Unfailed, Sure, Calm
<1> QED BY <1>2, <1>3, <1>4, <1>5 DEF ExposureInv

(* What holds whatever fails, and, while nothing has, what the camera is     *)
(* left in by every job of the UI.                                         *)
THEOREM ExposureInvariant == ExposureSpec => []ExposureInv
<1>1. ExposureInit => ExposureInv
  BY InitOK
<1>2. ExposureInv /\ [ExposureNext]_exposureVars => ExposureInv'
  <2> SUFFICES ASSUME ExposureInv, [ExposureNext]_exposureVars
               PROVE  ExposureInv'
    OBVIOUS
  <2>1. Basis /\ QuietCapture
    BY Undisturbing
  <2>2. CASE ExposureNext
    <3>1. Basis'
      BY <2>1, <2>2, NextKeeps
    <3>2. Calm' => Unfailed'
      BY <2>1, <2>2, StaysFailed, NextCalm, InvSplit
    <3> QED BY <3>1, <3>2, InvSplit DEF ExposureInv, Basis
  <2>3. CASE UNCHANGED exposureVars
    BY <2>3, StutterOK
  <2> QED BY <2>2, <2>3
<1> QED BY <1>1, <1>2, PTL DEF ExposureSpec

(* Outside Night nothing of the preview is left at rest, and in Night it is  *)
(* the preview of the pair on the screen.                                  *)
THEOREM PreviewOnlyInNightHolds == ExposureSpec => []PreviewOnlyInNight
<1>1. ExposureInv => PreviewOnlyInNight
  <2> SUFFICES ASSUME ExposureInv, Resting
               PROVE  /\ b.transient = InNight
                      /\ LET fps == IF InNight THEN PreviewRate(ui.shown) ELSE 30
                         IN  b.sensors = Both(fps) /\ b.file = fps /\ b.cached = fps
    BY DEF PreviewOnlyInNight
  <2>1. /\ Basis /\ Unfailed /\ Idle /\ b.camera = "on" /\ b.transient \in BOOLEAN
    BY InvSplit DEF Resting, Calm, ExposureInv, ExposureTypeOK, BackendType
  <2>2. IF InNight THEN Lit(ui.shown) ELSE Fresh
    BY <2>1, IdleCalm DEF Playing, Standing, Plain, Off
  <2>3. InNight \in BOOLEAN
    BY DEF InNight
  <2>4. CASE InNight
    BY <2>1, <2>2, <2>3, <2>4 DEF Lit
  <2>5. CASE ~InNight
    BY <2>1, <2>2, <2>3, <2>5 DEF Fresh
  <2> QED BY <2>4, <2>5
<1> QED BY <1>1, ExposureInvariant, PTL

(* Only its end answers a capture.                                          *)
LEMMA AnswerIsTheEnd ==
  ASSUME Basis, QuietCapture, [ExposureNext]_exposureVars, Answered
  PROVE  co.busy /\ co.todo = <<>>
<1>1. co.busy /\ ~co'.busy
  BY DEF Answered
<1>2. ~CoordinatorStep
  BY <1>1, CoordinatorStepOK DEF Basis, QuietCapture, Keeps
<1>3. ~Press /\ ~Crash
  BY <1>1 DEF Press, Crash, Basis, ExposureTypeOK, CoOK
<1>4. co' # co
  BY <1>1
<1> QED BY <1>1, <1>2, <1>3, <1>4
     DEF ExposureNext, exposureVars, CoordinatorEnds, Boot, Recover, Sleep, SelectMode, SelectPair,
         LcdOn, Gallery, Exit, UiStep, Finish, Poll

(* A photo that was taken has the pair the coordinator took up, whichever    *)
(* of its calls failed; a stack, even when the UI that asked has died.      *)
THEOREM PhotoHasItsPairHolds == ExposureSpec => PhotoHasItsPair
<1>1. ExposureInv /\ [ExposureNext]_exposureVars
      => [Answered /\ photo # NoPhoto /\ (~co.orphan \/ Stacked(co.pair)) => photo = Of(co.pair)]_exposureVars
  <2> SUFFICES ASSUME ExposureInv, [ExposureNext]_exposureVars, Answered, photo # NoPhoto,
                      ~co.orphan \/ Stacked(co.pair)
               PROVE  photo = Of(co.pair)
    OBVIOUS
  <2>1. co.busy /\ co.todo = <<>>
    BY Undisturbing, AnswerIsTheEnd
  <2>2. PhotoRight
    BY <2>1, CaptureDone DEF ExposureInv, ExposureTypeOK
  <2> QED BY <2>2 DEF PhotoRight
<1> QED BY <1>1, ExposureInvariant, PTL DEF ExposureSpec, PhotoHasItsPair

(* In Night mode it is the pair that stood on the screen.                    *)
THEOREM NightPhotoAsShownHolds == ExposureSpec => NightPhotoAsShown
<1>1. ExposureInv /\ [ExposureNext]_exposureVars
      => [Answered /\ photo # NoPhoto /\ ~co.orphan /\ co.mode = "night" /\ files.mode = "night"
            => photo = Of(co.asked)]_exposureVars
  <2> SUFFICES ASSUME ExposureInv, [ExposureNext]_exposureVars, Answered, photo # NoPhoto,
                      ~co.orphan, co.mode = "night", files.mode = "night"
               PROVE  photo = Of(co.asked)
    OBVIOUS
  <2>1. co.busy /\ co.todo = <<>>
    BY Undisturbing, AnswerIsTheEnd
  <2>2. photo = Of(co.pair)
    BY <2>1, CaptureDone DEF ExposureInv, ExposureTypeOK, PhotoRight
  <2>3. co.asked = ui.shown /\ ui.up /\ ui.mode = "night" /\ job.name = "snapshot" /\ co.pair = files.night
    BY <2>1 DEF ExposureInv, Awaits, Sure
  <2>4. ui.shown = files.night
    BY <2>3 DEF ExposureInv, ShownInNight, InNight, ShowJobs
  <2> QED BY <2>2, <2>3, <2>4
<1> QED BY <1>1, ExposureInvariant, PTL DEF ExposureSpec, NightPhotoAsShown

(* A slow photo that is answered well has given the sensors back.            *)
THEOREM ServedMeansRestoredHolds == ExposureSpec => ServedMeansRestored
<1>1. ExposureInv /\ [ExposureNext]_exposureVars
      => [Answered /\ co.ok /\ ~co.orphan /\ Rate(co.pair) # 30
            => b.sensors = Both(30) /\ b.file = 30]_exposureVars
  <2> SUFFICES ASSUME ExposureInv, [ExposureNext]_exposureVars, Answered, co.ok, ~co.orphan,
                      Rate(co.pair) # 30
               PROVE  b.sensors = Both(30) /\ b.file = 30
    OBVIOUS
  <2>1. co.busy /\ co.todo = <<>>
    BY Undisturbing, AnswerIsTheEnd
  <2>2. Restored
    BY <2>1, CaptureDone DEF ExposureInv, ExposureTypeOK, Slow, Sure
  <2> QED BY <2>2 DEF Restored
<1> QED BY <1>1, ExposureInvariant, PTL DEF ExposureSpec, ServedMeansRestored
=============================================================================
