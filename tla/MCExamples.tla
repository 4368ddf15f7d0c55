------------------------------ MODULE MCExamples ------------------------------
EXTENDS Examples

CONSTANTS r1, r2, u1, u2, s1, c1, c2, c3, t1, p1, q1, b1

MCIdsOf ==
    [routes |-> {r1, r2}, upstreams |-> {u1, u2}, services |-> {s1},
     consumers |-> {c1, c2, c3}, ssl |-> {t1}, plugin_configs |-> {p1}, proto |-> {q1}]

MCLiteral == [routes |-> r2, upstreams |-> u2]
MCUsers == <<c1, c2, c3>>

MCBodies == {b1}
MCNames == {Undefined, "", "api"}
MCUris == {Undefined, "/get"}
MCLabelSeqs == {Undefined, <<"env:prod">>, <<"env:prod", "team:a">>}
MCVersionSeqs == {Undefined, <<"v1">>}
MCPages == {Undefined, 2}

(* States that differ only in the last list query behave alike: listed is *)
(* read by no action, and ListQueriesMatchSpec judges it on each step.    *)
MCView == <<store, got, script, pc, env, status, calls>>

====
