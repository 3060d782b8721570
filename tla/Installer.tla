------------------------------ MODULE Installer ------------------------------
(***************************************************************************)
(* The script that installs and removes the firmware on the camera         *)
(* (src/calf_fw_tool/package_builder.py), over the process pair it         *)
(* replaces.  /app is a journalled file system: what a power loss leaves   *)
(* is what was there a moment earlier, so losing power at every step       *)
(* covers the renames that had not reached the disk.                       *)
(***************************************************************************)
EXTENDS Naturals

CONSTANT Attempts  \* how often a new pair is looked at (20 in the script)

ASSUME InstallerAssumption == Attempts \in Nat

Sides == {"ngcd", "ngui"}
Policies == {"iq", "nginx"}
Programs == {"calf-capture-server", "calf-ngcd", "calf-ui"}
Items == Programs \cup Sides \cup Policies

(* The order of the names in every list of the script.                     *)
Rank == [x \in Items |-> CASE x = "calf-capture-server" -> 1
                           [] x = "calf-ngcd" -> 2 [] x = "calf-ui" -> 3
                           [] x = "ngcd" -> 4 [] x = "ngui" -> 5
                           [] x = "iq" -> 6 [] x = "nginx" -> 7]

VARIABLES
  entry,     \* /app/bin/ngcd and ngui: the stock program or a selector
  kept,      \* the preserved stock files
  prog,      \* the custom programs, by version
  policy,    \* the sensor policy and the nginx configuration
  stock_marker,  \* the fallback marker in /tmp
  ngmonitor,     \* the process monitor: "run", "paused"
  child,     \* what runs on each side
  step,      \* where the script is
  todo,      \* what is left of its current list
  noted,     \* monitor_paused
  attempts, seen,  \* of the new pair
  interrupted      \* ghost: power was lost, or a rollback did not end

files == <<entry, kept, prog, policy>>
camera == <<stock_marker, ngmonitor, child>>
look == <<attempts, seen>>
work == <<files, camera, step, todo, noted, look>>
vars == <<work, interrupted>>

Before == {"keep", "stage", "pause", "note", "stop"}
Transaction == {"policies", "publish", "resume", "unnote", "observe"}
Rollback == {"rpause", "rnote", "rstop", "restore", "rresume"}
Removal == {"upause", "unote", "ustop", "urestore", "uresume", "remove"}
Ends == {"idle", "installed", "restored", "removed", "failed"}

TypeOK ==
  /\ entry \in [Sides -> {"stock", "selector"}]
  /\ kept \in [Sides \cup Policies -> BOOLEAN]
  /\ prog \in [Programs -> {"none", "old", "new"}]
  /\ policy \in [Policies -> {"stock", "calf"}]
  /\ stock_marker \in BOOLEAN
  /\ ngmonitor \in {"run", "paused"}
  /\ child \in [Sides -> {"none", "stock", "fallback", "old", "new"}]
  /\ step \in Before \cup Transaction \cup Rollback \cup Removal \cup Ends \cup {"exit"}
  /\ todo \subseteq Items
  /\ noted \in BOOLEAN
  /\ attempts \in 0..Attempts /\ seen \in 0..3
  /\ interrupted \in BOOLEAN

(* A factory camera, or one with an older version of the firmware.         *)
Init ==
  /\ \E old \in BOOLEAN :
       /\ entry = [s \in Sides |-> IF old THEN "selector" ELSE "stock"]
       /\ kept = [x \in Sides \cup Policies |-> old]
       /\ prog = [p \in Programs |-> IF old THEN "old" ELSE "none"]
       /\ policy = [x \in Policies |-> IF old THEN "calf" ELSE "stock"]
  /\ stock_marker = FALSE /\ ngmonitor = "run" /\ child = [s \in Sides |-> "none"]
  /\ step = "idle" /\ todo = {} /\ noted = FALSE
  /\ attempts = 0 /\ seen = 0 /\ interrupted = FALSE

-----------------------------------------------------------------------------
(* The script.  Operators named ...Wrong are plausible mistakes in the     *)
(* operator they precede; a property must notice each.                     *)

Go(from, to) == step = from /\ step' = to

(* The next item of the current list.                                      *)
First(x) == x \in todo /\ \A y \in todo : Rank[x] <= Rank[y]

(* Identities are checked: a stock file must be there, preserved or not.   *)
BeginInstall ==
  /\ step \in Ends
  /\ \A s \in Sides : kept[s] \/ entry[s] = "stock"
  /\ kept["nginx"] \/ policy["nginx"] = "stock"
  /\ step' = "keep" /\ todo' = Sides \cup Policies
  /\ UNCHANGED <<files, camera, noted, look>>

KeepWrong ==  \* the sensor policy is not preserved
  /\ step = "keep"
  /\ \E x \in todo : First(x) /\ todo' = todo \ {x}
                     /\ kept' = [kept EXCEPT ![x] = @ \/ x # "iq"]
  /\ UNCHANGED <<entry, prog, policy, camera, step, noted, look>>
Keep ==
  /\ step = "keep"
  /\ \E x \in todo : First(x) /\ todo' = todo \ {x} /\ kept' = [kept EXCEPT ![x] = TRUE]
  /\ UNCHANGED <<entry, prog, policy, camera, step, noted, look>>

Stage ==
  /\ todo = {}
  /\ Go("keep", "stage")
  /\ UNCHANGED <<files, camera, todo, noted, look>>
Staged ==
  /\ Go("stage", "pause")
  /\ UNCHANGED <<files, camera, todo, noted, look>>

(* The script learns that the monitor is stopped one command later.  A     *)
(* rollback pauses it unless the script believes that it did so before.    *)
Pause ==
  /\ \/ Go("pause", "note") \/ Go("upause", "unote")
     \/ Go("rpause", IF noted THEN "rstop" ELSE "rnote")
  /\ ngmonitor' = IF step = "rpause" /\ noted THEN ngmonitor ELSE "paused"
  /\ UNCHANGED <<files, stock_marker, child, todo, noted, look>>
Note ==
  /\ Go("note", "stop") \/ Go("unote", "ustop") \/ Go("rnote", "rstop")
  /\ noted' = TRUE
  /\ UNCHANGED <<files, camera, todo, look>>

(* stop_children goes by name: a stock program that a selector started is  *)
(* called ngcd-stock or ngui-stock and is not among them.                  *)
Stopped == [s \in Sides |-> IF child[s] = "fallback" THEN "fallback" ELSE "none"]

StopChildren ==
  /\ \/ Go("stop", "policies") /\ todo' = {x \in Policies : policy[x] = "stock"}
     \/ Go("ustop", "urestore") /\ todo' = Sides \cup Policies
     \/ Go("rstop", "restore") /\ todo' = Sides \cup Policies
  /\ child' = Stopped
  /\ UNCHANGED <<files, stock_marker, ngmonitor, noted, look>>

PublishPolicy ==
  /\ step = "policies"
  /\ \E x \in todo : First(x) /\ todo' = todo \ {x}
                     /\ policy' = [policy EXCEPT ![x] = "calf"]
  /\ UNCHANGED <<entry, kept, prog, camera, step, noted, look>>

VerifyRoute ==
  /\ todo = {}
  /\ Go("policies", "publish")
  /\ todo' = Programs \cup Sides
  /\ UNCHANGED <<files, camera, noted, look>>

PublishItem(x) ==
  /\ todo' = todo \ {x}
  /\ \/ x \in Programs /\ prog' = [prog EXCEPT ![x] = "new"] /\ UNCHANGED entry
     \/ x \in Sides /\ entry' = [entry EXCEPT ![x] = "selector"] /\ UNCHANGED prog
Publish ==
  /\ step = "publish"
  /\ \E x \in todo : First(x) /\ PublishItem(x)
  /\ UNCHANGED <<kept, policy, camera, step, noted, look>>

(* No rm -f is looked at: the marker goes, or stays.                       *)
Published ==
  /\ todo = {}
  /\ Go("publish", "resume")
  /\ stock_marker' \in {FALSE, stock_marker}
  /\ UNCHANGED <<files, ngmonitor, child, todo, noted, look>>

Resume ==
  /\ Go("resume", "unnote")
  /\ ngmonitor' = "run"
  /\ UNCHANGED <<files, stock_marker, child, todo, noted, look>>
Unnote ==
  /\ Go("unnote", "observe")
  /\ noted' = FALSE /\ attempts' = 0 /\ seen' = 0
  /\ UNCHANGED <<files, camera, todo>>

(* The pair is looked at by name, twice more after it was first seen.      *)
Observe ==
  /\ attempts < Attempts /\ seen < 3
  /\ Go("observe", "observe")
  /\ attempts' = attempts + 1
  /\ seen' = IF \A s \in Sides : child[s] \in {"old", "new"} THEN seen + 1 ELSE 0
  /\ UNCHANGED <<files, camera, todo, noted>>
Succeed ==
  /\ seen = 3
  /\ Go("observe", "installed")
  /\ UNCHANGED <<files, camera, todo, noted, look>>
GiveUp ==
  /\ attempts = Attempts /\ seen < 3
  /\ Go("observe", "rpause")
  /\ UNCHANGED <<files, camera, todo, noted, look>>

-----------------------------------------------------------------------------
(* Rolling back, and removing.                                             *)
BeginUninstall ==
  /\ step \in Ends
  /\ kept["ngcd"] /\ kept["ngui"] /\ kept["iq"]
  /\ step' = "upause"
  /\ UNCHANGED <<files, camera, todo, noted, look>>

RestoreItem(x) ==
  /\ kept[x]
  /\ todo' = todo \ {x}
  /\ \/ x \in Sides /\ entry' = [entry EXCEPT ![x] = "stock"] /\ UNCHANGED policy
     \/ x \in Policies /\ policy' = [policy EXCEPT ![x] = "stock"] /\ UNCHANGED entry
RestoreWrong ==  \* the policies are forgotten
  /\ step \in {"restore", "urestore"}
  /\ \E x \in todo :
       /\ First(x) /\ kept[x] /\ todo' = todo \ {x}
       /\ entry' = [s \in Sides |-> IF s = x THEN "stock" ELSE entry[s]]
  /\ UNCHANGED <<policy, kept, prog, camera, step, noted, look>>
Restore ==
  /\ step \in {"restore", "urestore"}
  /\ \E x \in todo : First(x) /\ RestoreItem(x)
  /\ UNCHANGED <<kept, prog, camera, step, noted, look>>

(* The copy of the nginx configuration is not looked for at the start.     *)
RestoreMisses ==
  /\ step \in {"restore", "urestore"}
  /\ \E x \in todo : First(x) /\ ~kept[x]
  /\ step' = "exit"
  /\ UNCHANGED <<files, camera, todo, noted, look>>

Restored ==
  /\ todo = {}
  /\ Go("restore", "rresume") \/ Go("urestore", "uresume")
  /\ stock_marker' \in {FALSE, stock_marker}
  /\ UNCHANGED <<files, ngmonitor, child, todo, noted, look>>

ResumeStock ==
  /\ \/ Go("rresume", "restored") /\ todo' = {}
     \/ Go("uresume", "remove") /\ todo' = Items
  /\ ngmonitor' = "run" /\ noted' = FALSE
  /\ UNCHANGED <<files, stock_marker, child, look>>

(* What rm -f cannot remove stays, and the script goes on to its verdict.   *)
Remove ==
  /\ step = "remove"
  /\ \E x \in todo :
       /\ First(x) /\ todo' = todo \ {x}
       /\ \/ UNCHANGED <<prog, kept>>
          \/ x \in Programs /\ prog' = [prog EXCEPT ![x] = "none"] /\ UNCHANGED kept
          \/ x \notin Programs /\ kept' = [kept EXCEPT ![x] = FALSE] /\ UNCHANGED prog
  /\ UNCHANGED <<entry, policy, camera, step, noted, look>>
Removed ==
  /\ todo = {}
  /\ Go("remove", "removed")
  /\ UNCHANGED <<files, camera, todo, noted, look>>

(* A command fails, or a signal arrives.  A failing stop may have stopped  *)
(* one child.                                                              *)
Fails(from, to) ==
  /\ step \in from
  /\ step' = to
  /\ child' \in {child} \cup
       IF step \in {"stop", "rstop", "ustop"}
       THEN {[child EXCEPT ![s] = Stopped[s]] : s \in Sides} ELSE {}
  /\ UNCHANGED <<files, stock_marker, ngmonitor, todo, noted, look>>

Fail ==
  \/ Fails(Before \ {"note"}, "exit")
  \/ Fails(Transaction \ {"unnote"}, "rpause")

(* The same in a rollback, also that of a removal; and a signal that       *)
(* arrives between a command to the monitor and the note of it, or among   *)
(* the removal's last commands, none of which can fail for the script.     *)
FailAgain ==
  \/ Fails(Rollback \cup Removal \cup {"note"}, "exit")
  \/ Fails({"unnote"}, "rpause")

ExitTrapWrong ==  \* the monitor is left as it is
  /\ Go("exit", "failed")
  /\ noted' = FALSE
  /\ UNCHANGED <<files, camera, todo, look>>
ExitTrap ==
  /\ Go("exit", "failed")
  /\ ngmonitor' = IF noted THEN "run" ELSE ngmonitor
  /\ noted' = FALSE
  /\ UNCHANGED <<files, stock_marker, child, todo, look>>

-----------------------------------------------------------------------------
(* The camera: selectors, monitor, power.  Session.tla has the details.    *)
Complete(s) ==
  \A p \in Programs \ (IF s = "ngui" THEN {"calf-capture-server"} ELSE {}) :
    prog[p] # "none"

Started(s) ==
  IF entry[s] = "stock" THEN "stock"
  ELSE IF ~stock_marker /\ Complete(s) THEN prog[IF s = "ngcd" THEN "calf-ngcd" ELSE "calf-ui"]
  ELSE IF kept[s] THEN "fallback" ELSE "none"

StartPair ==
  /\ ngmonitor = "run"
  /\ \E s \in Sides : child[s] = "none"
  /\ child' = [s \in Sides |-> Started(s)]
  /\ stock_marker' = (stock_marker \/ \E s \in Sides : entry[s] = "selector" /\ ~Complete(s))
  /\ UNCHANGED <<files, ngmonitor, step, todo, noted, look>>

ChildEnds(s) ==
  /\ child[s] # "none"
  /\ child' = [child EXCEPT ![s] = "none"]
  /\ stock_marker' = (stock_marker \/ child[s] \in {"old", "new"})
  /\ UNCHANGED <<files, ngmonitor, step, todo, noted, look>>

PowerLoss ==
  /\ stock_marker' = FALSE /\ ngmonitor' = "run" /\ child' = [s \in Sides |-> "none"]
  /\ step' = "idle" /\ todo' = {} /\ noted' = FALSE
  /\ attempts' = 0 /\ seen' = 0
  /\ UNCHANGED files

-----------------------------------------------------------------------------
Forward == Keep \/ Stage \/ Staged \/ Pause \/ Note \/ StopChildren \/ PublishPolicy
           \/ VerifyRoute \/ Publish \/ Published \/ Resume \/ Unnote
           \/ Observe \/ Succeed
Back == GiveUp \/ Restore \/ RestoreMisses \/ Restored \/ ResumeStock
        \/ Remove \/ Removed \/ ExitTrap

Next ==
  \/ /\ \/ BeginInstall \/ BeginUninstall \/ Forward \/ Back \/ Fail
        \/ StartPair \/ \E s \in Sides : ChildEnds(s)
     /\ UNCHANGED interrupted
  \/ /\ FailAgain \/ PowerLoss
     /\ interrupted' = TRUE

(* The script goes on, and so does a monitor that is not stopped.          *)
Spec == Init /\ [][Next]_vars /\ WF_work(Forward \/ Back) /\ WF_work(StartPair)

-----------------------------------------------------------------------------
(* Whatever happens, and whenever, the stock programs and policies are     *)
(* there: in place or preserved.                                           *)
StockIsRecoverable ==
  /\ \A s \in Sides : entry[s] = "stock" \/ kept[s]
  /\ \A x \in Policies : policy[x] = "stock" \/ kept[x]

(* A selector is only ever installed over a complete set of programs, so   *)
(* that losing power never leaves one that finds nothing to start.         *)
SelectorIsComplete ==
  \A s \in Sides : entry[s] = "selector" => \A p \in Programs : prog[p] # "none"

(* What the script says it did is what it leaves: a new pair, or the stock *)
(* one.  Removed says no more than restored: what an rm could not remove is *)
(* still there.                                                            *)
VerdictIsTrue ==
  /\ step = "installed" =>
       /\ \A s \in Sides : entry[s] = "selector"
       /\ \A p \in Programs : prog[p] = "new"
       /\ \A x \in Policies : policy[x] = "calf"
  /\ step \in {"restored", "removed"} =>
       /\ \A s \in Sides : entry[s] = "stock"
       /\ \A x \in Policies : policy[x] = "stock"

(* The script never leaves the monitor stopped.                            *)
MonitorResumes == ngmonitor = "paused" ~> ngmonitor = "run" \/ interrupted

=============================================================================
