----------------------------- MODULE MCLifecycle -----------------------------
EXTENDS TransitionLifecycle, TLC

CONSTANTS p1, p2, w1, w2, x1, x2, c1, c2

\* Two pods with a worker slot each.
TwoPods == (w1 :> p1) @@ (w2 :> p2)

\* One pod with one worker slot.
OnePod == w1 :> p1
=============================================================================
