------------------------------- MODULE Session -------------------------------
(***************************************************************************)
(* The pair of supervised programs and their fallback.  The camera's       *)
(* process monitor runs /app/bin/ngcd and /app/bin/ngui; installed there   *)
(* are two selectors (backend_selector.py, ui_selector.py) which become    *)
(* the custom or the stock program.  A marker file in /tmp chooses the     *)
(* stock pair until the next boot; the custom programs write it when they  *)
(* fail (ngcd/src/main.c, ui/src/target.c).                                *)
(***************************************************************************)
Pair == {"ngcd", "ngui"}

VARIABLES
  healthy,  \* the files both selectors look at are executable and load
  marker,   \* /tmp/calf-ui-stock-session exists
  proc,     \* what runs on each side
  monitor,  \* "watch", or "stop" once one of the pair has ended
  marked,   \* ghost: the marker existed when this pair was started
  crashed,  \* ghost: a custom program failed in this boot
  faults    \* ghost: the faults of this boot no custom program could record

session == <<healthy, marker, proc, monitor, marked, crashed, faults>>

Selecting == {"test", "check", "server", "mark"}
Custom == {"load", "run"}        \* before, after it installed its handlers
Ending == {"crash", "leave", "quit"}
States == {"none", "stock"} \cup Selecting \cup Custom \cup Ending

SessionTypeOK ==
  /\ healthy \in BOOLEAN
  /\ marker \in BOOLEAN
  /\ proc \in [Pair -> States]
  /\ monitor \in {"watch", "stop"}
  /\ marked \in BOOLEAN
  /\ crashed \in BOOLEAN
  /\ faults \subseteq {"server", "unrecorded"}
  /\ proc["ngui"] # "server"

SessionInit ==
  /\ healthy \in BOOLEAN
  /\ marker = FALSE
  /\ proc = [s \in Pair |-> "test"]
  /\ monitor = "watch"
  /\ marked = FALSE
  /\ crashed = FALSE
  /\ faults = {}

-----------------------------------------------------------------------------
(* The selectors.  Operators named ...Wrong are plausible mistakes in the  *)
(* operator they precede; a property must notice each.                     *)

Become(s, from, to) ==
  /\ proc[s] = from
  /\ proc' = [proc EXCEPT ![s] = to]
  /\ UNCHANGED <<healthy, monitor, marked>>

TestMarkerWrong(s) ==  \* only the backend looks at the marker
  /\ Become(s, "test", IF marker /\ s = "ngcd" THEN "stock" ELSE "check")
  /\ UNCHANGED <<marker, crashed, faults>>
TestMarker(s) ==
  /\ Become(s, "test", IF marker THEN "stock" ELSE "check")
  /\ UNCHANGED <<marker, crashed, faults>>

(* Each selector examines both programs, so that they agree.               *)
CheckWrong(s) ==  \* each selector examines its own program
  /\ \E ok \in {TRUE, healthy} :
       Become(s, "check",
              IF ~ok THEN "mark" ELSE IF s = "ngcd" THEN "server" ELSE "load")
  /\ UNCHANGED <<marker, crashed, faults>>
CheckBoth(s) ==  \* the UI's selector starts the server as well
  /\ Become(s, "check", IF ~healthy THEN "mark" ELSE "server")
  /\ UNCHANGED <<marker, crashed, faults>>
Check(s) ==
  /\ Become(s, "check", IF ~healthy THEN "mark"
                        ELSE IF s = "ngcd" THEN "server" ELSE "load")
  /\ UNCHANGED <<marker, crashed, faults>>

StartServer(s) ==
  /\ \/ Become(s, "server", "load") /\ UNCHANGED faults
     \/ Become(s, "server", "mark") /\ faults' = faults \cup {"server"}
  /\ UNCHANGED <<marker, crashed>>

(* select_stock.  The file may be impossible to create, and a shell may    *)
(* give up on a redirection to a file that exists by now.                  *)
Mark(s) ==
  /\ \/ Become(s, "mark", "stock") /\ marker' = TRUE
     \/ Become(s, "mark", "none") /\ UNCHANGED marker
  /\ UNCHANGED <<crashed, faults>>

-----------------------------------------------------------------------------
(* The custom programs.                                                    *)

Loaded(s) ==
  /\ Become(s, "load", "run")
  /\ UNCHANGED <<marker, crashed, faults>>

(* A fatal signal, a start or a service loop that fails, a graph stop that *)
(* hangs, a display that does not open.                                    *)
Die(s) ==
  /\ \/ proc[s] = "run"
     \/ proc[s] = "quit" /\ s = "ngcd"
  /\ Become(s, proc[s], "crash")
  /\ crashed' = TRUE
  /\ UNCHANGED <<marker, faults>>

RecordWrong(s) ==  \* the backend ends without a record
  /\ Become(s, "crash", "leave")
  /\ marker' = (marker \/ s = "ngui")
  /\ UNCHANGED <<crashed, faults>>
Record(s) ==
  /\ Become(s, "crash", "leave")
  /\ marker' = TRUE
  /\ UNCHANGED <<crashed, faults>>

(* SIGKILL, an exec that fails, a crash before the handlers are installed, *)
(* a marker that could not be written.                                     *)
FailUnrecorded(s) ==
  /\ proc[s] \in Custom \cup {"crash"}
  /\ Become(s, proc[s], "none")
  /\ crashed' = TRUE
  /\ faults' = faults \cup {"unrecorded"}
  /\ UNCHANGED marker

(* "Stock UI" in the settings.                                             *)
LoadStockUi ==
  /\ Become("ngui", "run", "leave")
  /\ marker' = TRUE
  /\ UNCHANGED <<crashed, faults>>

Exit(s) ==
  /\ proc[s] \in {"leave", "quit"}
  /\ Become(s, proc[s], "none")
  /\ UNCHANGED <<marker, crashed, faults>>

(* SIGTERM: a selector, or a program without handlers, ends at once; the   *)
(* others stop in order.  A failing UI that is told to stop leaves no      *)
(* record.                                                                 *)
Terminated(s) ==
  CASE proc[s] = "run" -> {"quit"}
    [] proc[s] = "crash" -> {"crash"} \cup IF s = "ngui" THEN {"quit"} ELSE {}
    [] proc[s] = "leave" -> {"leave"}
    [] OTHER -> {"none"}

-----------------------------------------------------------------------------
(* Outside: the stock programs, the process monitor, the power.            *)

StockEnds(s) ==
  /\ Become(s, "stock", "none")
  /\ UNCHANGED <<marker, crashed, faults>>

StopPair ==
  /\ monitor = "watch"
  /\ \E s \in Pair : proc[s] = "none"
  /\ monitor' = "stop"
  /\ \E n \in Terminated("ngcd"), u \in Terminated("ngui") :
       proc' = [proc EXCEPT !["ngcd"] = n, !["ngui"] = u]
  /\ UNCHANGED <<healthy, marker, marked, crashed, faults>>

StartAgain ==
  /\ monitor = "stop"
  /\ \A s \in Pair : proc[s] = "none"
  /\ monitor' = "watch"
  /\ proc' = [s \in Pair |-> "test"]
  /\ marked' = marker
  /\ UNCHANGED <<healthy, marker, crashed, faults>>

Reboot ==
  /\ healthy' \in BOOLEAN
  /\ marker' = FALSE
  /\ proc' = [s \in Pair |-> "test"]
  /\ monitor' = "watch"
  /\ marked' = FALSE
  /\ crashed' = FALSE
  /\ faults' = {}

-----------------------------------------------------------------------------
Proceed(s) ==
  TestMarker(s) \/ Check(s) \/ StartServer(s) \/ Mark(s) \/ Record(s) \/ Exit(s)

SessionNext ==
  \/ \E s \in Pair : Proceed(s) \/ Loaded(s) \/ Die(s) \/ FailUnrecorded(s)
                      \/ StockEnds(s)
  \/ LoadStockUi \/ StopPair \/ StartAgain \/ Reboot

(* Straight-line code goes on; the monitor does its work.                  *)
SessionSpec ==
  /\ SessionInit /\ [][SessionNext]_session
  /\ \A s \in Pair : WF_session(Proceed(s))
  /\ WF_session(StopPair) /\ WF_session(StartAgain)

-----------------------------------------------------------------------------
(* "One matched pair": as long as the capture server starts, the custom UI *)
(* never runs beside the stock daemon, nor the stock UI beside the custom  *)
(* daemon.                                                                 *)
MatchedPair ==
  "server" \notin faults =>
  \A s, t \in Pair : ~(proc[s] = "stock" /\ proc[t] \in Custom)

(* A pair started while the marker exists is the stock pair, whatever the  *)
(* two selectors meet: stock for the remainder of the boot.                *)
MarkedPairIsStock == marked => marker /\ \A s \in Pair : proc[s] \notin Custom

(* "A crash in either custom process activates the paired fallback": when  *)
(* both are gone the next pair will find the marker, unless a program died *)
(* without being able to write it.                                         *)
CrashIsRecorded ==
  faults = {} /\ crashed /\ (\A s \in Pair : proc[s] = "none") => marker

(* Once the marker is there the custom programs come to an end, and with   *)
(* them a mixed pair, unless the capture server failed.                    *)
FallbackCompletes ==
  marker ~> \/ ~marker \/ "server" \in faults
            \/ \A s \in Pair : proc[s] \notin Custom \cup Ending
=============================================================================
