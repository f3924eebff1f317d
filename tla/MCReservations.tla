--------------------------- MODULE MCReservations ---------------------------
(* Two transitions of one component, on two pods.                          *)
EXTENDS Reservations, TLC

CONSTANTS p1, p2, t1, t2, c1

MCOn == (t1 :> {c1}) @@ (t2 :> {c1})
MCHome == (t1 :> {p1}) @@ (t2 :> {p1, p2})

\* Once a reservation has gone unrenewed and HSM has failed a worker, every
\* property but TypeOK allows anything: behaviours are not followed further.
StillClaimed == ~(lost /\ erred)
=============================================================================
