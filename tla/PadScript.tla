------------------------------ MODULE PadScript ------------------------------
(***************************************************************************)
(* scripts/gcpipe.py: a script of controller steps played into the pipe of *)
(* the running game.  Some steps wait for what the game's memory shows,    *)
(* as the emulator's MemoryWatcher publishes it in datagrams: of each      *)
(* watched location the script knows the last value it has received.       *)
(*                                                                         *)
(* Every wait has a deadline, kept as the ticks left until it; a tick is   *)
(* the 0.5 s after which a receive gives up.  The clock is read anew by    *)
(* each loop test and again by _receive, so time may pass between the two. *)
(*                                                                         *)
(* Three locations stand for the watched ones: a frame counter, a flag     *)
(* that is the masked comparison of wait_memory and tap_until_memory, and  *)
(* a spot that says whether the cursor of steer_memory_f32 is on target.   *)
(***************************************************************************)
EXTENDS Integers, Sequences

CONSTANTS
    Scripts,     \* bound: the scripts that are run
    Repeat,      \* --repeat
    Width,       \* 2^32, what the counters wrap at
    Increments,  \* increments of the wait_counter steps
    Timeout,     \* ticks each memory step allows
    Pause,       \* ticks of a delay, a hold, a pulse, an interval and a wait
    OpenTimeout, \* ticks that opening the pipe may take
    MaxTaps,     \* max_taps
    MaxEvents,   \* bound: changes of the game's memory
    None         \* a location nothing was received for

ASSUME PadAssumption ==
    /\ Width \in Nat \ {0} /\ Width % 2 = 0
    /\ {Increments, Timeout, OpenTimeout, MaxTaps, Repeat} \subseteq Nat \ {0}
    /\ {Pause, MaxEvents} \subseteq Nat

VARIABLES
    script,   \* the steps that are run
    watching, \* --memory-user-dir: there is a MemoryWatcherClient
    round,    \* runs of the script that are left
    index,    \* the step under way
    at,       \* where the program stands
    wait,     \* what it waits for
    then,     \* where it goes on after the wait
    left,     \* ticks until the deadline of the wait
    outer,    \* ticks until the deadline of steer_memory_f32 or tap_until_memory
    count,    \* previous and remaining of wait_counter, taps of tap_until_memory
    values,   \* MemoryWatcherClient.values
    queue,    \* datagrams in the socket
    game,     \* the watched memory, and the changes it may still make
    pad,      \* what the game's controller holds: stick, and who pressed buttons
    advanced, \* the game's frames since wait_counter began
    outcome   \* how the program ended

vars == <<script, watching, round, index, at, wait, then, left, outer, count,
          values, queue, game, pad, advanced, outcome>>

Location == {"frame", "flag", "spot"}
Actions == {"tap", "press", "release", "stick", "wait", "wait_memory",
            "wait_memory_not", "wait_counter", "steer_memory_f32", "tap_until_memory"}
MemoryActions == {"wait_memory", "wait_memory_not", "wait_counter",
                  "steer_memory_f32", "tap_until_memory"}

ASSUME ScriptAssumption ==
    \A s \in Scripts : s \in Seq([action : Actions, delay : BOOLEAN])

LocationOf(action) == CASE action = "wait_counter" -> {"frame"}
                        [] action = "steer_memory_f32" -> {"spot"}
                        [] action \in MemoryActions -> {"flag"}
                        [] OTHER -> {}

sequence_addresses == UNION {LocationOf(script[i].action) : i \in DOMAIN script}

step == script[index]
Half == (Width \div 2) - 1

-----------------------------------------------------------------------------
(* The game publishes what changes; a datagram may be lost in a full       *)
(* socket.  A counter may be reset while it is far below its width.        *)

Publish(l, v) ==
    \/ queue' = queue
    \/ watching /\ l \in sequence_addresses /\ queue' = Append(queue, [location |-> l, value |-> v])

GameStep(l, v) ==
    /\ game.events > 0 /\ at # "ended"
    /\ game' = [game EXCEPT ![l] = v, !.events = @ - 1]
    /\ Publish(l, v)
    /\ UNCHANGED <<script, watching, round, index, at, wait, then, left, outer,
                   count, values, pad, outcome>>

FrameAdvances == /\ "frame" \in sequence_addresses
                 /\ GameStep("frame", (game.frame + 1) % Width)
                 /\ advanced' = advanced + 1
FrameResets == /\ "frame" \in sequence_addresses
               /\ game.frame > 0 /\ game.frame <= Half
               /\ GameStep("frame", 0)
               /\ UNCHANGED advanced
MemoryChanges == \E l \in {"flag", "spot"} \cap sequence_addresses :
                    GameStep(l, ~game[l]) /\ UNCHANGED advanced

-----------------------------------------------------------------------------
(* Time.  A receive that has waited for a tick returns without a value.    *)

Elapsed(t) == IF t > 0 THEN t - 1 ELSE 0

Resume == IF wait = "count" THEN "count" ELSE "test"

Tick ==
    /\ left > 0 \/ outer > 0
    /\ left' = Elapsed(left) /\ outer' = Elapsed(outer)
    /\ at' = IF at = "recv" /\ queue = <<>> THEN Resume ELSE at
    /\ UNCHANGED <<script, watching, round, index, wait, then, count, values,
                   queue, game, pad, advanced, outcome>>

-----------------------------------------------------------------------------
(* Waits: the loops of MemoryWatcherClient.                                *)

\* A wait begins at its loop test with its deadline set.
Await(w, ticks, next) ==
    at' = "test" /\ wait' = w /\ left' = ticks /\ then' = next

\* pause of run_sequence: time.sleep, or pump_for with a watcher.
pause(ticks, next) == Await(IF watching THEN "pump_for" ELSE "sleep", ticks, next)

Satisfied ==
    CASE wait \in {"pump_for", "sleep"} -> left = 0
      [] wait = "wait_value" -> values.flag = TRUE
      [] wait = "wait_value_not" -> values.flag = FALSE
      [] wait = "wait_current" -> values.flag # None
      [] wait = "wait_f32" -> values.spot # None
      [] wait = "wait_counter" -> values.frame # count.previous

\* The test of the loop.  The first change wait_counter sees is where it
\* counts from.
Test ==
    /\ at = "test"
    /\ IF ~Satisfied THEN /\ wait # "sleep"
                          /\ at' = "receive"
                          /\ UNCHANGED <<wait, count>>
       ELSE IF wait = "wait_counter"
       THEN /\ at' = "receive"
            /\ wait' = "count"
            /\ count' = [previous |-> values.frame, remaining |-> Increments]
       ELSE at' = then /\ UNCHANGED <<wait, count>>
    /\ UNCHANGED <<script, watching, round, index, then, left, outer, values,
                   queue, game, pad, advanced, outcome>>

\* mutant: a counter that was reset counts as one that wrapped.
CounterWithoutReset ==
    LET delta == (values.frame - count.previous) % Width
    IN /\ at = "count"
       /\ IF delta = 0
          THEN at' = "receive" /\ UNCHANGED count
          ELSE IF delta >= count.remaining
          THEN at' = then /\ UNCHANGED count
          ELSE /\ at' = "receive"
               /\ count' = [previous |-> values.frame, remaining |-> count.remaining - delta]
       /\ UNCHANGED <<script, watching, round, index, wait, then, left, outer,
                      values, queue, game, pad, advanced, outcome>>

\* The rest of the loop of wait_counter.
wait_counter ==
    LET delta == (values.frame - count.previous) % Width
    IN /\ at = "count"
       /\ IF delta = 0
          THEN at' = "receive" /\ UNCHANGED count
          ELSE IF delta > Half
          THEN at' = "receive" /\ count' = [count EXCEPT !.previous = values.frame]
          ELSE IF delta >= count.remaining
          THEN at' = then /\ UNCHANGED count
          ELSE /\ at' = "receive"
               /\ count' = [previous |-> values.frame, remaining |-> count.remaining - delta]
       /\ UNCHANGED <<script, watching, round, index, wait, then, left, outer,
                      values, queue, game, pad, advanced, outcome>>

\* mutant: a receive whose time is over waits all the same.
ReceiveAnyway ==
    /\ at = "receive"
    /\ at' = "recv"
    /\ UNCHANGED <<script, watching, round, index, wait, then, left, outer, count,
                   values, queue, game, pad, advanced, outcome>>

\* _receive reads the clock, and raises TimeoutError at the deadline also when
\* the loop is that of pump_for.
_receive ==
    /\ at = "receive"
    /\ at' = IF left > 0 THEN "recv" ELSE "raise"
    /\ UNCHANGED <<script, watching, round, index, wait, then, left, outer, count,
                   values, queue, game, pad, advanced, outcome>>

_process_payload ==
    /\ at = "recv" /\ queue # <<>>
    /\ values' = [values EXCEPT ![Head(queue).location] = Head(queue).value]
    /\ queue' = Tail(queue)
    /\ at' = Resume
    /\ UNCHANGED <<script, watching, round, index, wait, then, left, outer, count,
                   game, pad, advanced, outcome>>

\* _drain: the last queued value of each location.
Drained == [l \in Location |->
    LET at_l == {i \in DOMAIN queue : queue[i].location = l}
    IN IF at_l = {} THEN values[l]
       ELSE queue[CHOOSE i \in at_l : \A j \in at_l : j <= i].value]

-----------------------------------------------------------------------------
(* The program and its steps.                                              *)

Init ==
    /\ script \in Scripts
    /\ watching \in BOOLEAN
    /\ watching => sequence_addresses # {}
    /\ round = Repeat /\ index = 1
    /\ at = "open" /\ wait = "sleep" /\ then = "begin"
    /\ left = OpenTimeout /\ outer = 0
    /\ count = [previous |-> None, remaining |-> 0]
    /\ values = [l \in Location |-> None]
    /\ queue = <<>>
    /\ \E n \in 0..(Width - 1) :
          game = [frame |-> n, flag |-> FALSE, spot |-> FALSE, events |-> MaxEvents]
    /\ game.frame > 0 => "frame" \in sequence_addresses
    /\ pad = [stick |-> "neutral", pressed |-> {}]
    /\ advanced = 0
    /\ outcome = "none"

\* PadWriter: the game may open its end of the pipe at any time, or never.  A
\* writer that gives up raises before main's try, so the watcher stays open.
OpenPipe ==
    /\ at = "open"
    /\ \/ at' = "begin" /\ UNCHANGED outcome
       \/ left = 0 /\ at' = "ended" /\ outcome' = "failed"
    /\ UNCHANGED <<script, watching, round, index, wait, then, left, outer, count,
                   values, queue, game, pad, advanced>>

\* The head of the loop of run_sequence, and of main's loop over --repeat.
Begin ==
    /\ at = "begin"
    /\ IF index <= Len(script)
       THEN /\ IF step.delay THEN pause(Pause, "act") ELSE at' = "act" /\ UNCHANGED <<wait, then, left>>
            /\ UNCHANGED <<round, index, outcome>>
       ELSE IF round > 1
       THEN /\ round' = round - 1 /\ index' = 1
            /\ UNCHANGED <<at, wait, then, left, outcome>>
       ELSE at' = "close" /\ outcome' = "passed" /\ UNCHANGED <<round, index, wait, then, left>>
    /\ UNCHANGED <<script, watching, outer, count, values, queue, game, pad, advanced>>

\* PRESS and RELEASE on the pipe, by the kind of step that wrote them.
Press == pad' = [pad EXCEPT !.pressed = @ \cup {step.action}]
Release == pad' = [pad EXCEPT !.pressed = {}]
Stick(where) == pad' = [pad EXCEPT !.stick = where]

NextStep == at' = "begin" /\ index' = index + 1

\* Steps that do not watch memory.
tap ==
    /\ at = "act" /\ step.action = "tap"
    /\ Press
    /\ pause(Pause, "release")
    /\ UNCHANGED <<index, outer, count, values, queue, advanced>>

release ==
    /\ \/ at = "release"
       \/ at = "act" /\ step.action = "release"
    /\ Release
    /\ NextStep
    /\ UNCHANGED <<wait, then, left, outer, count, values, queue, advanced>>

press ==
    /\ at = "act" /\ step.action = "press"
    /\ Press
    /\ NextStep
    /\ UNCHANGED <<wait, then, left, outer, count, values, queue, advanced>>

stick ==
    /\ at = "act" /\ step.action = "stick"
    /\ Stick("set")
    /\ NextStep
    /\ UNCHANGED <<wait, then, left, outer, count, values, queue, advanced>>

wait_seconds ==
    /\ at = "act" /\ step.action = "wait"
    /\ pause(Pause, "done")
    /\ UNCHANGED <<index, outer, count, values, queue, pad, advanced>>

done ==
    /\ at = "done"
    /\ NextStep
    /\ UNCHANGED <<wait, then, left, outer, count, values, queue, pad, advanced>>

\* Without a watcher the steps that need one raise ValueError.
NeedsWatcher ==
    /\ at = "act" /\ step.action \in MemoryActions /\ ~watching
    /\ at' = "raise"
    /\ UNCHANGED <<index, wait, then, left, outer, count, values, queue, pad, advanced>>

wait_memory ==
    /\ at = "act" /\ watching
    /\ \/ step.action = "wait_memory" /\ Await("wait_value", Timeout, "done")
       \/ step.action = "wait_memory_not" /\ Await("wait_value_not", Timeout, "done")
    /\ UNCHANGED <<index, outer, count, values, queue, pad, advanced>>

\* wait_counter up to its first loop.
StartCounter ==
    /\ at = "act" /\ step.action = "wait_counter" /\ watching
    /\ values' = Drained /\ queue' = <<>>
    /\ count' = [previous |-> Drained["frame"], remaining |-> Increments]
    /\ advanced' = 0
    /\ Await("wait_counter", Timeout, "done")
    /\ UNCHANGED <<index, outer, pad>>

\* steer_memory_f32: neutral, then look and pulse until the cursor is there.
steer_memory_f32 ==
    /\ at = "act" /\ step.action = "steer_memory_f32" /\ watching
    /\ Stick("neutral")
    /\ outer' = Timeout
    /\ at' = "look"
    /\ UNCHANGED <<index, wait, then, left, count, values, queue, advanced>>

\* The head of both loops that have a deadline of their own.
Look ==
    /\ at = "look"
    /\ CASE step.action = "steer_memory_f32" ->
              IF outer > 0 THEN Await("wait_f32", outer, "decide")
                           ELSE at' = "raise" /\ UNCHANGED <<wait, then, left>>
         [] OTHER ->
              Await("wait_current", IF outer = 0 THEN 1 ELSE outer,
                    IF outer = 0 \/ count.remaining = 0 THEN "last" ELSE "decide")
    /\ UNCHANGED <<index, outer, count, values, queue, pad, advanced>>

\* A pause inside a step ends no later than the step's deadline.
Within == IF outer < Pause THEN outer ELSE Pause

Steer ==
    /\ at = "decide" /\ step.action = "steer_memory_f32"
    /\ IF values.spot
       THEN Stick("neutral") /\ NextStep /\ UNCHANGED <<wait, then, left>>
       ELSE Stick("steered") /\ pause(Within, "settle") /\ UNCHANGED index
    /\ UNCHANGED <<outer, count, values, queue, advanced>>

Settle ==
    /\ at = "settle"
    /\ Stick("neutral")
    /\ pause(Within, "look")
    /\ UNCHANGED <<index, outer, count, values, queue, advanced>>

tap_until_memory ==
    /\ at = "act" /\ step.action = "tap_until_memory" /\ watching
    /\ outer' = Timeout
    /\ count' = [previous |-> None, remaining |-> MaxTaps]
    /\ at' = "look"
    /\ UNCHANGED <<index, wait, then, left, values, queue, pad, advanced>>

TapAgain ==
    /\ at = "decide" /\ step.action = "tap_until_memory"
    /\ IF values.flag
       THEN NextStep /\ UNCHANGED <<wait, then, left, pad>>
       ELSE Press /\ pause(Within, "lift") /\ UNCHANGED index
    /\ UNCHANGED <<outer, count, values, queue, advanced>>

\* mutant: the button is not released between the taps.
LiftNothing ==
    /\ at = "lift"
    /\ count' = [count EXCEPT !.remaining = @ - 1]
    /\ pause(Within, "look")
    /\ UNCHANGED <<index, outer, values, queue, pad, advanced>>

Lift ==
    /\ at = "lift"
    /\ Release
    /\ count' = [count EXCEPT !.remaining = @ - 1]
    /\ pause(Within, "look")
    /\ UNCHANGED <<index, outer, values, queue, advanced>>

LastLook ==
    /\ at = "last"
    /\ IF values.flag THEN NextStep ELSE at' = "raise" /\ UNCHANGED index
    /\ UNCHANGED <<wait, then, left, outer, count, values, queue, pad, advanced>>

StepAction ==
    /\ \/ tap \/ release \/ press \/ stick \/ wait_seconds \/ done \/ NeedsWatcher
       \/ wait_memory \/ StartCounter \/ steer_memory_f32 \/ Look \/ Steer \/ Settle
       \/ tap_until_memory \/ TapAgain \/ Lift \/ LastLook
    /\ UNCHANGED <<script, watching, round, game, outcome>>

\* mutant: steer_memory_f32 without its finally.
RaiseDeflected ==
    /\ at = "raise"
    /\ at' = "close"
    /\ outcome' = "failed"
    /\ UNCHANGED <<script, watching, round, index, wait, then, left, outer, count,
                   values, queue, game, pad, advanced>>

\* An exception leaves run_sequence; only steer_memory_f32 has a finally.  The
\* pipe takes every command: a write that fails, because the game is gone or has
\* stopped reading, is not modelled, and would end the finally as well.
Raise ==
    /\ at = "raise"
    /\ IF step.action = "steer_memory_f32" THEN Stick("neutral") ELSE UNCHANGED pad
    /\ at' = "close"
    /\ outcome' = "failed"
    /\ UNCHANGED <<script, watching, round, index, wait, then, left, outer, count,
                   values, queue, game, advanced>>

\* The finally of main.
Close ==
    /\ at = "close"
    /\ at' = "ended"
    /\ UNCHANGED <<script, watching, round, index, wait, then, left, outer, count,
                   values, queue, game, pad, advanced, outcome>>

Program == \/ OpenPipe \/ Begin \/ StepAction \/ Test \/ wait_counter
           \/ _receive \/ _process_payload \/ Raise \/ Close

Next == Program \/ Tick \/ FrameAdvances \/ FrameResets \/ MemoryChanges

Spec == Init /\ [][Next]_vars

\* The program runs and time passes; the game owes nothing.
FairSpec == Spec /\ WF_vars(Program) /\ WF_vars(Tick)

-----------------------------------------------------------------------------
(* Properties.                                                             *)

\* steer_memory_f32 never leaves the stick deflected, whichever way it ends: at
\* its target, at its deadline, or by the TimeoutError of a pause.
SteeringReleasesStick ==
    at \in {"begin", "close", "ended"} => pad.stick # "steered"

\* A script that passes has let go of every button it tapped: only a press
\* step leaves one down.
PassedReleasesTaps == outcome = "passed" => pad.pressed \subseteq {"press"}

\* wait_counter returns only after the game has counted that many frames since
\* the step began, although datagrams get lost, older ones are still queued,
\* the counter wraps, and a level may reset it.
CounterWaitsLongEnough ==
    at = "done" /\ step.action = "wait_counter" => advanced >= Increments

\* Whatever the game publishes or fails to publish, the program ends.
ScriptEnds == <>(at = "ended")
=============================================================================
