----------------------------- MODULE CaptureLock -----------------------------
(***************************************************************************)
(* The snapshot server and the lock of its request handlers                *)
(* (src/calf_fw_tool/capture.py, two shell scripts).  The server starts    *)
(* one nc process at a time, which accepts one connection and becomes the  *)
(* handler; stopping and starting the server lets a new handler meet an    *)
(* old one.  A handler owns the camera between taking the lock, a          *)
(* directory with its pid in a file, and removing it.  Every shell command *)
(* is a step; redirecting printf opens the file and then writes it.        *)
(***************************************************************************)
CONSTANTS
  Pids,    \* process numbers; they come back after a process is gone
  None,    \* no process, no file
  Empty    \* an owner file nothing was written to

ASSUME NamesAssumption == None # Empty /\ None \notin Pids /\ Empty \notin Pids

VARIABLES
  server,   \* the server's loop
  child,    \* the process it started last
  at,       \* where each process is
  dir,      \* the lock directory exists
  owner,    \* content of the file in it
  writers,  \* who has that very file open for writing
  seen,     \* what each handler read from it
  alone,    \* ghost: no other handler and no failed write since it started
  orderly   \* ghost: the server was never killed, nor stopped too early

vars == <<server, child, at, dir, owner, writers, seen, alone, orderly>>

(* Before its traps are set a signal kills a handler at once.              *)
Acquiring == {"request", "mkdir", "create", "write", "undo", "read", "judge",
              "unlink", "rmdir", "remkdir", "acquired", "refused"}
Places == Acquiring \cup {"free", "foreign", "zombie", "unbound", "listening",
                          "capturing", "release", "leave"}

Handlers == {p \in Pids : at[p] \in Acquiring \cup
                                    {"capturing", "release", "leave"}}
Free == {p \in Pids : at[p] = "free"}

(* kill -0 succeeds for every process, also one of another program, and    *)
(* for one that ended and was not waited for.                              *)
Alive(p) == p \in Pids \ Free

TypeOK ==
  /\ server \in {"down", "looping", "forked", "waiting"}
  /\ child \in Pids \cup {None}
  /\ child # None <=> server \in {"forked", "waiting"}
  /\ at \in [Pids -> Places]
  /\ dir \in BOOLEAN
  /\ owner \in Pids \cup {None, Empty}
  /\ writers \subseteq Pids
  /\ seen \in [Pids -> Pids \cup {None, Empty}]
  /\ alone \in [Pids -> BOOLEAN]
  /\ orderly \in BOOLEAN

Init ==
  /\ server = "down"
  /\ child = None
  /\ at = [p \in Pids |-> "free"]
  /\ dir = FALSE
  /\ owner = None
  /\ writers = {}
  /\ seen = [p \in Pids |-> None]
  /\ alone = [p \in Pids |-> FALSE]
  /\ orderly = TRUE

lock == <<dir, owner, writers>>
notes == <<seen, alone>>

-----------------------------------------------------------------------------
(* The server.  Operators named ...Wrong or ...Trusting are plausible      *)
(* mistakes in the operator they precede; a property must notice each.     *)

(* A process that ends is a zombie until its parent has waited for it; one *)
(* without a parent disappears.                                            *)
Ended(p) == IF p = child /\ server # "down" THEN "zombie" ELSE "free"

Start ==
  /\ server = "down"
  /\ server' = "looping"
  /\ UNCHANGED <<child, at, lock, notes>>

(* nc in the background: it listens, or fails when the port is taken.      *)
Fork(p) ==
  /\ server = "looping"
  /\ p \in Free
  /\ at' = [at EXCEPT ![p] = IF \E q \in Pids : at[q] = "listening"
                             THEN "unbound" ELSE "listening"]
  /\ child' = p
  /\ server' = "forked"
  /\ UNCHANGED <<lock, notes>>

NotePid ==
  /\ server = "forked"
  /\ server' = "waiting"
  /\ UNCHANGED <<child, at, lock, notes>>

Wait ==
  /\ server = "waiting"
  /\ at[child] = "zombie"
  /\ at' = [at EXCEPT ![child] = "free"]
  /\ child' = None
  /\ server' = "looping"
  /\ UNCHANGED <<lock, notes>>

(* The trap of the server signals nc_pid.  A handler that has set its own  *)
(* traps goes on to its cleanup, unless it is already there; any other     *)
(* process dies.                                                           *)
Signalled(p) ==
  CASE at[p] = "capturing" -> "release"
    [] at[p] = "foreign"   -> "foreign"
    [] OTHER               -> "free"

Stop ==
  /\ server = "waiting"
  /\ server' = "down"
  /\ child' = None
  /\ at' = [at EXCEPT ![child] = Signalled(child)]
  /\ writers' = writers \ {child}
  /\ UNCHANGED <<dir, owner, notes>>

(* SIGKILL, or a stop between starting nc and noting its number: the child *)
(* goes on without a server.                                               *)
ServerGone ==
  /\ server # "down"
  /\ orderly' = FALSE
  /\ server' = "down"
  /\ child' = None
  /\ at' = [p \in Pids |-> IF at[p] = "zombie" THEN "free" ELSE at[p]]
  /\ UNCHANGED <<lock, notes>>

Unbound(p) ==
  /\ at[p] = "unbound"
  /\ at' = [at EXCEPT ![p] = Ended(p)]
  /\ UNCHANGED <<server, child, lock, notes>>

-----------------------------------------------------------------------------
(* The handler: acquire_lock.                                              *)

Accept(p) ==
  /\ at[p] = "listening"
  /\ at' = [at EXCEPT ![p] = "request"]
  /\ seen' = [seen EXCEPT ![p] = None]
  /\ alone' = [q \in Pids |-> q = p /\ Handlers = {}]
  /\ UNCHANGED <<server, child, lock>>

(* The handler p moves from one place to another.                          *)
Step(p, from, to) ==
  /\ at[p] = from
  /\ at' = [at EXCEPT ![p] = to]
  /\ UNCHANGED <<server, child>>

ReadRequest(p) ==
  /\ Step(p, "request", "mkdir")
  /\ UNCHANGED <<lock, notes>>

Mkdir(p) ==
  /\ Step(p, "mkdir", IF dir THEN "read" ELSE "create")
  /\ dir' = TRUE
  /\ UNCHANGED <<owner, writers, notes>>

(* The redirection creates or truncates the owner file.                    *)
Create(p) ==
  \/ /\ dir
     /\ Step(p, "create", "write")
     /\ owner' = Empty
     /\ writers' = writers \cup {p}
     /\ UNCHANGED <<dir, notes>>
  \/ /\ Step(p, "create", "undo")
     /\ alone' = IF dir THEN [alone EXCEPT ![p] = FALSE] ELSE alone
     /\ UNCHANGED <<lock, seen>>

(* A file that was unlinked meanwhile takes the number with it.            *)
WriteOwner(p) ==
  \/ /\ Step(p, "write", "acquired")
     /\ owner' = IF p \in writers THEN p ELSE owner
     /\ writers' = writers \ {p}
     /\ UNCHANGED <<dir, notes>>
  \/ /\ Step(p, "write", "undo")
     /\ alone' = [alone EXCEPT ![p] = FALSE]
     /\ writers' = writers \ {p}
     /\ UNCHANGED <<dir, owner, seen>>

(* rmdir succeeds on an empty directory only.                              *)
Removable == dir /\ owner = None

Undo(p) ==
  /\ Step(p, "undo", "refused")
  /\ dir' = (dir /\ ~Removable)
  /\ UNCHANGED <<owner, writers, notes>>

ReadOwner(p) ==
  /\ Step(p, "read", "judge")
  /\ seen' = [seen EXCEPT ![p] = owner]
  /\ UNCHANGED <<lock, alone>>

JudgeWrong(p) ==  \* an owner whose process is gone is believed
  /\ Step(p, "judge", IF seen[p] \in Pids THEN "refused" ELSE "unlink")
  /\ UNCHANGED <<lock, notes>>
JudgeTrusting(p) ==  \* a live owner is not noticed
  /\ Step(p, "judge", "unlink")
  /\ UNCHANGED <<lock, notes>>

Judge(p) ==
  /\ Step(p, "judge", IF Alive(seen[p]) THEN "refused" ELSE "unlink")
  /\ UNCHANGED <<lock, notes>>

Unlink(p, from, to) ==
  /\ Step(p, from, to)
  /\ owner' = None
  /\ writers' = {}
  /\ UNCHANGED <<dir, notes>>

RemoveStaleOwner(p) == Unlink(p, "unlink", "rmdir")

RemoveStaleDir(p) ==
  /\ Step(p, "rmdir", IF Removable THEN "remkdir" ELSE "refused")
  /\ dir' = (dir /\ ~Removable)
  /\ UNCHANGED <<owner, writers, notes>>

MkdirAgain(p) ==
  /\ Step(p, "remkdir", IF dir THEN "refused" ELSE "create")
  /\ dir' = TRUE
  /\ UNCHANGED <<owner, writers, notes>>

-----------------------------------------------------------------------------
(* The handler: capture and cleanup.                                       *)

SetTraps(p) ==
  /\ Step(p, "acquired", "capturing")
  /\ UNCHANGED <<lock, notes>>

Capture(p) ==
  /\ Step(p, "capturing", "release")
  /\ UNCHANGED <<lock, notes>>

ReleaseOwner(p) == Unlink(p, "release", "leave")

Ends(p, from) ==
  /\ at[p] = from
  /\ at' = [at EXCEPT ![p] = Ended(p)]
  /\ writers' = writers \ {p}
  /\ seen' = [seen EXCEPT ![p] = None]
  /\ alone' = [alone EXCEPT ![p] = FALSE]
  /\ UNCHANGED <<server, child, owner>>

ReleaseDir(p) ==
  /\ Ends(p, "leave")
  /\ dir' = (dir /\ ~Removable)

(* "capture busy": no trap is set, so nothing is cleaned up.               *)
Refuse(p) == Ends(p, "refused") /\ UNCHANGED dir

(* Killed (out of memory): nothing is cleaned up.                          *)
Die(p) ==
  /\ p \in Handlers
  /\ Ends(p, at[p])
  /\ UNCHANGED dir

(* Other programs use process numbers too.                                 *)
Foreign(p) ==
  /\ \/ at[p] = "free" /\ at' = [at EXCEPT ![p] = "foreign"]
     \/ at[p] = "foreign" /\ at' = [at EXCEPT ![p] = "free"]
  /\ UNCHANGED <<server, child, lock, notes>>

-----------------------------------------------------------------------------
Handle(p) ==
  \/ ReadRequest(p) \/ Mkdir(p) \/ Create(p) \/ WriteOwner(p) \/ Undo(p)
  \/ ReadOwner(p) \/ Judge(p) \/ RemoveStaleOwner(p) \/ RemoveStaleDir(p)
  \/ MkdirAgain(p) \/ SetTraps(p) \/ Capture(p) \/ ReleaseOwner(p)
  \/ ReleaseDir(p) \/ Refuse(p)

Loop == NotePid \/ Wait \/ \E p \in Pids : Fork(p) \/ Unbound(p)

Next ==
  \/ ServerGone
  \/ /\ \/ Start \/ Stop \/ Loop
        \/ \E p \in Pids : Accept(p) \/ Handle(p) \/ Die(p) \/ Foreign(p)
     /\ UNCHANGED orderly

Spec == Init /\ [][Next]_vars

-----------------------------------------------------------------------------
(* The cleanup still drives the sensors, until it removes the owner file.  *)
Holding == {p \in Pids : at[p] \in {"acquired", "capturing", "release"}}

(* One handler at a time drives the sensors and the backend.               *)
CapturesAreSerial == \A p, q \in Holding : p = q

(* Snapshots are serial as long as the server ends in order, whatever      *)
(* happens to the handlers and with whatever restarts.  A server killed    *)
(* with a handler under way, or stopped between starting nc and noting its *)
(* number, leaves a handler beside the next one; then it is not true, since*)
(* a handler between mkdir and its owner file looks just like a stale lock.*)
OrderlyIsSerial == orderly => CapturesAreSerial

(* And then nobody takes the lock from the handler that has it: not a late *)
(* rmdir of its predecessor's cleanup, not a successor that judged an old  *)
(* owner.                                                                  *)
HolderKeepsLock == orderly => \A p \in Holding : dir /\ owner = p

(* A lock left behind by a killed handler never costs a request: a handler *)
(* that meets nobody and whose writes succeed is refused only when the     *)
(* number in the lock is in use again, perhaps by itself.                  *)
StaleLockIsReclaimed ==
  [][\A p \in Pids :
       at[p] # "refused" /\ at'[p] = "refused" /\ alone[p] => Alive(seen[p])]_vars
=============================================================================
