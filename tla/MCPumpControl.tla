--------------------------- MODULE MCPumpControl ---------------------------
(* Small instances of PumpControl: two callers, speeds 1 and 2, priming at *)
(* 3. The callers are interchangeable: they start with any two commands.    *)
EXTENDS PumpControl, TLC

CONSTANTS c1, c2

Two == {c1, c2}
Symmetry == Permutations(Callers)

Do(k, v) == [kind |-> k, value |-> v]

Off == [pool |-> 0, water |-> 0, light |-> 0, colour |-> 1, auto |-> 1,
        preset |-> 2, man |-> 1, req |-> 0, cmd |-> 0]

Stopped == {Off}

\* One report carries all settings, or all of ecm0.
Whole == {{"pool", "water", "light", "colour", "auto", "man"}, {"req", "cmd", "preset"}}

Speed == {1, 2}
Panel == {[field |-> "auto", value |-> 0]}
Nobody == {}
Falls == {[field |-> "water", value |-> 1]}

\* A startup among commands that cancel it, and others; two startups of the same
\* target, the waterfall with a speed, and off; a startup that meets a
\* waterfall-off.
Mixed == {Do("start", 1), Do("speed", 2), Do("preset", 2), Do("power", 0), Do("waterOn", 1),
          Do("light", 1), Do("colour", 2), Do("power", 1)}
Water == {Do("start", 2), Do("withSpeed", 1), Do("waterOff", 0)}
Joining == {Do("start", 1), Do("waterOff", 0)}
=============================================================================
