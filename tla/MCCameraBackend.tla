--------------------------- MODULE MCCameraBackend ---------------------------
(* CameraBackend for TLC: one stitched mode and one single-sensor mode, two *)
(* encoders, two audio inputs, two validation polls.                        *)
EXTENDS CameraBackend

CONSTANTS pic, single, e1, e2

(* Both profile files install the first encoder.                           *)
MCProfileEncoder == [m \in {pic, single} |-> e1]

=============================================================================
