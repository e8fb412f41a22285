---- MODULE MCCaptureReplay ----
(* Two receipt times a unit apart, so that a bare frame may be clamped, a  *)
(* third far ahead; a session of three frames and fixtures of four lines.  *)
EXTENDS CaptureReplay
MCTimes == {120, 121, 130}
================================
