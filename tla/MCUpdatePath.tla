---------------------------- MODULE MCUpdatePath ----------------------------
EXTENDS UpdatePath, TLC

CONSTANTS u1, u2, u3, u4, p1, bad, cut, a1, a2

\* Two writers and an anonymous one; a longer and a shorter frame for the same growth.
MCWire == (u1 :> 1 @@ u2 :> 1 @@ u3 :> 2 @@ u4 :> 1 @@ p1 :> 2 @@ bad :> 1 @@ cut :> 1)
MCAuthor == (u1 :> a1 @@ u2 :> a2 @@ u3 :> a1 @@ u4 :> NoActor @@ p1 :> a1 @@ bad :> a1 @@ cut :> a2)
=============================================================================
