----------------------------- MODULE MCSessions -----------------------------
(* Three overlapping requests of a browser, one of which saves its session  *)
(* itself, and three session ids.                                           *)
EXTENDS Sessions, TLC

CONSTANTS r1, r2, r3, i1, i2, i3

MCVisits == {r1, r2, r3}
MCSavers == {r1}
MCIds == {i1, i2, i3}

Sym == Permutations(MCVisits \ MCSavers) \cup Permutations(MCIds)
=============================================================================
