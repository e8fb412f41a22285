---- MODULE MCAcceptance ----
(* Two channels, a minimum of three frames and runs of up to four: each    *)
(* channel, the minimum, and one frame more that may be anything.          *)
EXTENDS Acceptance, TLC
ChannelSymmetry == Permutations(Channels)
=============================
