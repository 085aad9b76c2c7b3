------------------------- MODULE MCRemoteSessions -------------------------
EXTENDS RemoteSessions

CONSTANTS r1, r2, r3, w1, w2, console, video

\* Two requests meet at one worker, the third is served by another.
Routes == [r \in Requests |-> IF r = r3 THEN w2 ELSE w1]
Kinds == [op \in Ops |-> IF op = video THEN "video" ELSE "console"]
=============================================================================
