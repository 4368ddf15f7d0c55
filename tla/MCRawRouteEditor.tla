-------------------------- MODULE MCRawRouteEditor --------------------------
(* Two routes, two definitions: the editor opens r1, and a POST can use   *)
(* the id left free.                                                       *)
EXTENDS RawRouteEditor

CONSTANTS r1, r2, v1, v2

MCIds == {r1, r2}
MCVals == {v1, v2}

====
