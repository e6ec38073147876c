----------------------------- MODULE MCPadScript -----------------------------
(* PadScript for TLC: every kind of step, alone and after another.          *)
EXTENDS PadScript

Do(action) == [action |-> action, delay |-> FALSE]
Later(action) == [action |-> action, delay |-> TRUE]

MCScripts == {
    <<Do("tap"), Do("wait_counter")>>,
    <<Do("press"), Later("wait_memory"), Do("release")>>,
    <<Do("stick"), Do("wait_memory_not")>>,
    <<Later("steer_memory_f32"), Do("stick")>>,
    <<Do("tap_until_memory"), Do("wait")>>}
==============================================================================
