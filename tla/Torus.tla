------------------------------- MODULE Torus -------------------------------
(***************************************************************************)
(* The grid of satellites: t.orbs orbital planes of t.sats satellites      *)
(* each, closed in both directions.  Indices are bytes; the flight build   *)
(* is a release build, in which their arithmetic wraps.                    *)
(***************************************************************************)
EXTENDS Integers

IndexMod == 256

TorusType == [orbs : 1..(IndexMod - 1), sats : 1..(IndexMod - 1)]

Points(t) == [orb : 0..(t.orbs - 1), sat : 0..(t.sats - 1)]

Direction == {"North", "South", "East", "West"}

Opposite(d) ==
    CASE d = "North" -> "South" [] d = "South" -> "North"
      [] d = "East" -> "West" [] d = "West" -> "East"

NextIndex(i, n) == IF i = n - 1 THEN 0 ELSE i + 1

PrevIndex(i, n) == IF i = 0 THEN n - 1 ELSE i - 1

\* the way forward on a ring of n
Distance(from, to, n) == IF to >= from THEN to - from ELSE (n - from + to) % IndexMod

Neighbor(t, p, d) ==
    CASE d = "North" -> [p EXCEPT !.sat = PrevIndex(p.sat, t.sats)]
      [] d = "South" -> [p EXCEPT !.sat = NextIndex(p.sat, t.sats)]
      [] d = "East"  -> [p EXCEPT !.orb = NextIndex(p.orb, t.orbs)]
      [] d = "West"  -> [p EXCEPT !.orb = PrevIndex(p.orb, t.orbs)]

\* mutant of DirectionToSat: the two distances swapped
DirectionToSatSwapped(t, p, q) ==
    IF Distance(p.sat, q.sat, t.sats) < Distance(q.sat, p.sat, t.sats)
    THEN "North" ELSE "South"

DirectionToSat(t, p, q) ==
    IF Distance(q.sat, p.sat, t.sats) < Distance(p.sat, q.sat, t.sats)
    THEN "North" ELSE "South"

DirectionToOrb(t, p, q) ==
    IF Distance(q.orb, p.orb, t.orbs) < Distance(p.orb, q.orb, t.orbs)
    THEN "West" ELSE "East"
-----------------------------------------------------------------------------
\* Reference: the length of a shortest way between two satellites.
Shorter(a, b) == IF a < b THEN a ELSE b

RingDistance(i, j, n) == Shorter(Distance(i, j, n), Distance(j, i, n))

Hops(t, p, q) == RingDistance(p.orb, q.orb, t.orbs) + RingDistance(p.sat, q.sat, t.sats)
=============================================================================
