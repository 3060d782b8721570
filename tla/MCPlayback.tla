------------------------------ MODULE MCPlayback ------------------------------
(***************************************************************************)
(* Playback on a small instance: recordings of up to five pictures.        *)
(***************************************************************************)
EXTENDS Playback

(* Pictures, some of them key frames (early versions began before the        *)
(* first), a gap that may be two pictures long, and sound from the first     *)
(* picture on that may reach the card late and go on behind the last.       *)
MCStart == 1000
MCRecorded(keys, n, slow, sounds, late) ==
  LET pts(i)   == MCStart + (i - 1) * 33333 + (IF i > slow THEN 33333 ELSE 0)
      pictures == [i \in 1..n |-> VideoPiece(100 + i, i \in keys, pts(i))]
      sound    == [k \in 1..sounds |-> AudioPiece(9 + k, MCStart, k - 1)]
      when(p)  == p.pts + (IF p.track = "audio" THEN late ELSE 0)
  IN  Placed(SortSeq(pictures \o sound, LAMBDA a, b : when(a) < when(b)))
MCRecordings ==
  {MCRecorded(r.keys, r.n, r.slow, r.sounds, r.late) :
     r \in {s \in [n : 1..5, keys : SUBSET (1..5), slow : {1, 5}, sounds : {0, 3, 9}, late : {1, 50000}] :
              s.keys \subseteq 1..s.n /\ Cardinality(s.keys) <= 2
              /\ (s.sounds = 0 => s.late = 1)}}
=============================================================================
