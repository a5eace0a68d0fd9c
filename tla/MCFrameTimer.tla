---------------------------- MODULE MCFrameTimer ----------------------------
(* Instances of FrameTimer for TLC.                                        *)
EXTENDS FrameTimer

CONSTANTS o1, o2, o3

\* Two observers, for the runs that look at one pair.
MCObserversPair == {o1, o2}
\* Three observers, so that the majority reduction sees two votes.
MCObserversTriple == {o1, o2, o3}
=============================================================================
