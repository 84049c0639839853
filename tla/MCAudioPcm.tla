----------------------------- MODULE MCAudioPcm -----------------------------
\* Halves that end before a task gets to them.  With Behind a player may be late
\* enough to be stopped by the interrupt, with BehindTwo for an underrun; a recorder
\* is late only by a half.
EXTENDS AudioPcm

Behind == [d \in Dir |-> IF d = "play" THEN 5 ELSE 1]
BehindTwo == [d \in Dir |-> IF d = "play" THEN 2 ELSE 1]
=============================================================================
