------------------------------- MODULE Requests -------------------------------
(***************************************************************************)
(* The UI's long operations and the snapshot coordinator are lists of       *)
(* requests, made one after the other, each with its own way of dealing     *)
(* with failure.  "ok" is what the whole amounts to, "todo" what is left.   *)
(***************************************************************************)
EXTENDS Sequences

(* A failure of one that must succeed makes the whole fail; then either the *)
(* rest is done all the same, or what it says instead.                     *)
Request(op, arg, must, rest, instead) ==
  [op |-> op, arg |-> arg, must |-> must, rest |-> rest, instead |-> instead]
Must(op, arg) == Request(op, arg, TRUE, FALSE, <<>>)
MustElse(op, arg, instead) == Request(op, arg, TRUE, FALSE, instead)
Note(op, arg) == Request(op, arg, TRUE, TRUE, <<>>)
May(op, arg) == Request(op, arg, FALSE, TRUE, <<>>)
OrElse(op, arg, instead) == Request(op, arg, FALSE, FALSE, instead)
If(condition, requests) == IF condition THEN requests ELSE <<>>

After(p, r, ok) ==
  [p EXCEPT !.ok = @ /\ (ok \/ ~r.must),
            !.todo = IF ok \/ r.rest THEN Tail(@) ELSE r.instead]
=============================================================================
