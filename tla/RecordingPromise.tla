--------------------------- MODULE RecordingPromise ---------------------------
(***************************************************************************)
(* What a recording promises, without files, journals and processes:       *)
(* samples are promised as the recording goes on; a clip is saved with at  *)
(* least what was promised and keeps its content as long as there is       *)
(* power; an unsaved clip can be given up as a whole, never shortened; a   *)
(* loss of power takes the promise back.  A crash of the daemon is not a   *)
(* step.                                                                   *)
(***************************************************************************)
EXTENDS Integers

CONSTANTS
  MaxClip,     \* sequence numbers
  MaxSamples   \* samples of one clip

Clips   == 1 .. MaxClip
Samples == 1 .. MaxSamples

VARIABLES
  saved,     \* the clips a user sees
  content,   \* the samples they show
  promised   \* the samples each clip must show when it is saved

vars == <<saved, content, promised>>

Init ==
  /\ saved = {}
  /\ content = [c \in Clips |-> {}]
  /\ promised = [c \in Clips |-> {}]

Acknowledge(c, S) ==
  /\ c \notin saved
  /\ promised[c] \subseteq S /\ S # promised[c]
  /\ promised' = [promised EXCEPT ![c] = S]
  /\ UNCHANGED <<saved, content>>

Save(c, S) ==
  /\ c \notin saved
  /\ S # {} /\ promised[c] \subseteq S
  /\ saved' = saved \cup {c}
  /\ content' = [content EXCEPT ![c] = S]
  /\ UNCHANGED promised

GiveUp(c) ==
  /\ c \notin saved
  /\ promised' = [promised EXCEPT ![c] = {}]
  /\ UNCHANGED <<saved, content>>

LosePower(c) ==
  /\ saved' = saved \ {c}
  /\ content' = [content EXCEPT ![c] = {}]
  /\ promised' = [promised EXCEPT ![c] = {}]

Next == \E c \in Clips :
  \/ \E S \in SUBSET Samples : Acknowledge(c, S) \/ Save(c, S)
  \/ GiveUp(c)
  \/ LosePower(c)

Spec == Init /\ [][Next]_vars
=============================================================================
