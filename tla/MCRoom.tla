------------------------------- MODULE MCRoom -------------------------------
EXTENDS Room, TLC

CONSTANTS c1, c2

\* How many frames each connection sends.
Frames21 == (c1 :> 2 @@ c2 :> 1)
Frames20 == (c1 :> 2 @@ c2 :> 0)
=============================================================================
