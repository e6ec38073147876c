--------------------------- MODULE PadScriptProofs ---------------------------
(***************************************************************************)
(* Theorems of PadScript, for any scripts, any width of the counters and   *)
(* any deadlines: what a script leaves on the pad, and how long a          *)
(* wait_counter waits.                                                     *)
(***************************************************************************)
EXTENDS PadScript, SequenceTheorems, TLAPS

-----------------------------------------------------------------------------
(* The inductive invariant.                                                *)

\* The sets the variables take their values from, and where the program can stand:
\* waiting in one of the loops, or between the waits of a step.
Frame == 0..(Width - 1)
Memory == [frame : Frame, flag : BOOLEAN, spot : BOOLEAN, events : Nat]
Pad == [stick : {"neutral", "set", "steered"}, pressed : SUBSET Actions]
Datagram == [location : Location, value : Frame \cup BOOLEAN]
Waiting == {"test", "receive", "recv", "count"}
After == {"begin", "act", "release", "done", "settle", "decide", "last", "look", "lift"}
Kinds == {"sleep", "pump_for", "wait_value", "wait_value_not", "wait_current", "wait_f32",
          "wait_counter", "count"}

\* The shape of the variables.  What values and count.previous hold is told
\* apart only while frames are counted, below.
TypeOK ==
    /\ script \in Seq([action : Actions, delay : BOOLEAN])
    /\ watching \in BOOLEAN
    /\ round \in Nat /\ index \in Nat \ {0}
    /\ at \in Waiting \cup After \cup {"open", "raise", "close", "ended"}
    /\ wait \in Kinds /\ then \in After
    /\ left \in Nat /\ outer \in Nat
    /\ count = [previous |-> count.previous, remaining |-> count.remaining]
    /\ values = [l \in Location |-> values[l]]
    /\ queue \in Seq(Datagram)
    /\ game \in Memory
    /\ pad \in Pad
    /\ advanced \in Nat
    /\ outcome \in {"none", "passed", "failed"}

\* steer_memory_f32 deflects the stick for one pause, whose only ways out are
\* the line that centres it and the finally.
StickHeld ==
    pad.stick = "steered" =>
        /\ step.action = "steer_memory_f32"
        /\ \/ at \in {"settle", "raise"}
           \/ at \in {"test", "receive", "recv"} /\ then = "settle" /\ wait \in {"sleep", "pump_for"}

\* A tapped button is down for one pause, whose only ways out are its release
\* and an exception.
TapsHeld ==
    /\ \/ pad.pressed \subseteq {"press"}
       \/ at \in {"release", "lift", "raise"}
       \/ at \in Waiting /\ then \in {"release", "lift"}
       \/ at \in {"close", "ended"} /\ outcome = "failed"
    /\ outcome = "passed" => at \in {"close", "ended"}

\* Frame v may be seen n frames after frame u: the difference of the two was
\* counted, or v is below u in the lower half, as only a reset leaves it.
Counted(u, n, v) == (v - u) % Width <= n \/ (u <= Half /\ v < u)

\* The loop of wait_counter is under way; the queued datagrams of its counter; and
\* the last value it received is one of this wait.
Counting == at \in Waiting /\ wait \in {"wait_counter", "count"}
Frames == {i \in DOMAIN queue : queue[i].location = "frame"}
Fresh == wait = "count" \/ values.frame # count.previous

\* When each queued datagram was published, and the last frame received: how
\* many frames the game had then counted since the step began.
Stamped(stamp, seen) ==
    /\ stamp \in [DOMAIN queue -> 0..advanced] /\ seen \in 0..advanced
    /\ \A j \in Frames : /\ queue[j].value \in Frame
                         /\ Counted(queue[j].value, advanced - stamp[j], game.frame)
    /\ \A i, j \in Frames : i < j =>
          stamp[i] <= stamp[j] /\ Counted(queue[i].value, stamp[j] - stamp[i], queue[j].value)
    /\ Fresh => /\ values.frame \in Frame
                /\ Counted(values.frame, advanced - seen, game.frame)
                /\ \A j \in Frames : seen <= stamp[j]
                       /\ Counted(values.frame, stamp[j] - seen, queue[j].value)

\* What wait_counter has taken off remaining was counted by the game before
\* the frame it last took for previous.
Budgeted(seen) ==
    wait = "count" =>
        \E base \in 0..seen :
            /\ count.previous \in Frame /\ count.remaining \in 0..Increments
            /\ Increments - count.remaining <= base
            /\ Counted(count.previous, seen - base, values.frame)
            /\ at # "count" => count.previous = values.frame

\* While wait_counter is under way, such stamps exist.
CountIsSound ==
    Counting => \E stamp \in [DOMAIN queue -> 0..advanced], seen \in 0..advanced :
                    Stamped(stamp, seen) /\ Budgeted(seen)

\* A wait_counter step is done only when its count is: the loop that counts has
\* no test that could end it before.
CounterStep ==
    /\ at = "count" => wait = "count"
    /\ at = "test" => wait # "count"
    /\ at \in Waiting /\ then = "done" /\ step.action = "wait_counter" =>
          wait \in {"wait_counter", "count"}

\* The inductive invariant.
PadInv == TypeOK /\ StickHeld /\ TapsHeld /\ CountIsSound /\ CounterStep
                 /\ CounterWaitsLongEnough

-----------------------------------------------------------------------------
(* Types.                                                                  *)

\* What a datagram of the game is.
LEMMA PublishType ==
    ASSUME TypeOK, NEW l \in Location, NEW v \in Frame \cup BOOLEAN, Publish(l, v)
    PROVE  queue' \in Seq(Datagram)
  <1> DEFINE d == [location |-> l, value |-> v]
  <1>1. d \in Datagram
    BY DEF Datagram
  <1>2. queue' = queue \/ queue' = Append(queue, d)
    BY DEF Publish
  <1> HIDE DEF d
  <1>3. queue \in Seq(Datagram)
    BY DEF TypeOK
  <1>. QED
    BY <1>1, <1>2, <1>3, AppendProperties

\* The game keeps the types,
LEMMA GameTypes ==
    ASSUME TypeOK, FrameAdvances \/ FrameResets \/ MemoryChanges
    PROVE  TypeOK'
  <1>1. ASSUME NEW l \in Location, NEW v, GameStep(l, v),
               l = "frame" => v \in Frame, l # "frame" => v \in BOOLEAN
        PROVE  /\ game' \in Memory
               /\ queue' \in Seq(Datagram)
    <2>1. queue' \in Seq(Datagram)
      BY <1>1, PublishType DEF GameStep
    <2>2. game' = [game EXCEPT ![l] = v, !.events = @ - 1]
      BY <1>1 DEF GameStep
    <2>3. game \in Memory /\ game.events - 1 \in Nat
      <3>1. game \in Memory /\ game.events > 0
        BY <1>1 DEF TypeOK, GameStep
      <3>2. game.events \in Nat
        BY <3>1 DEF Memory
      <3>. QED
        BY <3>1, <3>2
    <2>4. CASE l = "frame"
      BY <1>1, <2>1, <2>2, <2>3, <2>4 DEF Memory
    <2>5. CASE l = "flag"
      BY <1>1, <2>1, <2>2, <2>3, <2>5 DEF Memory
    <2>6. CASE l = "spot"
      BY <1>1, <2>1, <2>2, <2>3, <2>6 DEF Memory
    <2>. QED
      BY <2>4, <2>5, <2>6 DEF Location
  <1>2. CASE FrameAdvances
    <2>1. game.frame \in Int /\ Width \in Nat \ {0}
      BY PadAssumption DEF TypeOK, Memory, Frame
    <2>2. (game.frame + 1) % Width \in Frame
      BY <2>1 DEF Frame
    <2>3. /\ game' \in Memory
          /\ queue' \in Seq(Datagram)
      BY <1>1, <1>2, <2>2 DEF FrameAdvances, Location
    <2>4. advanced' = advanced + 1 /\ advanced' \in Nat
      BY <1>2 DEF FrameAdvances, TypeOK
    <2>. QED
      BY <1>2, <2>3, <2>4 DEF FrameAdvances, GameStep, TypeOK
  <1>3. CASE FrameResets
    <2>1. 0 \in Frame
      BY PadAssumption DEF Frame
    <2>. QED
      BY <1>1, <1>3, <2>1 DEF FrameResets, GameStep, TypeOK, Location
  <1>4. CASE MemoryChanges
    <2>1. PICK l \in {"flag", "spot"} : GameStep(l, ~game[l]) /\ UNCHANGED advanced
      BY <1>4 DEF MemoryChanges
    <2>2. game["flag"] \in BOOLEAN /\ game["spot"] \in BOOLEAN
      BY DEF TypeOK, Memory
    <2>3. (~game[l]) \in BOOLEAN
      BY <2>2
    <2>4. /\ game' \in Memory
          /\ queue' \in Seq(Datagram)
      BY <1>1, <2>1, <2>3 DEF Location
    <2>. QED
      BY <2>1, <2>4 DEF GameStep, TypeOK
  <1>. QED
    BY <1>2, <1>3, <1>4

\* and so does time.
LEMMA TickTypes == TypeOK /\ Tick => TypeOK'
  <1> SUFFICES ASSUME TypeOK, Tick PROVE TypeOK'
    OBVIOUS
  <1>1. \A t \in Nat : Elapsed(t) \in Nat
    BY DEF Elapsed
  <1>2. at' \in Waiting \cup After \cup {"open", "raise", "close", "ended"}
    BY DEF TypeOK, Tick, Resume, Waiting
  <1>. QED
    BY <1>1, <1>2 DEF TypeOK, Tick

\* A wait and a pause, as the steps start them.
LEMMA PauseTypes ==
    ASSUME TypeOK, NEW ticks \in Nat, NEW next \in After, pause(ticks, next)
    PROVE  /\ at' = "test" /\ wait' \in {"sleep", "pump_for"} /\ wait' \in Kinds
           /\ left' \in Nat /\ then' = next /\ then' \in After
  BY DEF pause, Await, Kinds

\* The deadlines that are set.
LEMMA Ticks == Pause \in Nat /\ Timeout \in Nat /\ (TypeOK => Within \in Nat)
  BY PadAssumption DEF TypeOK, Within

\* The loops of MemoryWatcherClient.
LEMMA LoopTypes ==
    ASSUME TypeOK, Test \/ wait_counter \/ _receive \/ _process_payload
    PROVE  TypeOK'
  <1>1. CASE Test
    <2>1. CASE count' = count
      BY <1>1, <2>1 DEF Test, TypeOK, Waiting, Kinds
    <2>2. CASE count' = [previous |-> values.frame, remaining |-> Increments]
      <3>1. count' = [previous |-> count'.previous, remaining |-> count'.remaining]
        BY <2>2
      <3>. QED
        BY <1>1, <3>1 DEF Test, TypeOK, Waiting, Kinds
    <2>. QED
      BY <1>1, <2>1, <2>2 DEF Test
  <1>2. CASE wait_counter
    <2>1. count' = [previous |-> count'.previous, remaining |-> count'.remaining]
      <3>1. CASE count' = count
        BY <3>1 DEF TypeOK
      <3>2. CASE count' = [count EXCEPT !.previous = values.frame]
        BY <3>2 DEF TypeOK
      <3>3. CASE count' # count /\ count' # [count EXCEPT !.previous = values.frame]
        <4> DEFINE delta == (values.frame - count.previous) % Width
        <4>1. count' = [previous |-> values.frame, remaining |-> count.remaining - delta]
          BY <1>2, <3>3 DEF wait_counter
        <4>. QED
          BY <4>1
      <3>. QED
        BY <3>1, <3>2, <3>3
    <2>2. at' \in {"receive"} \cup After
      BY <1>2 DEF wait_counter, TypeOK
    <2>. QED
      BY <1>2, <2>1, <2>2 DEF wait_counter, TypeOK, Waiting
  <1>3. CASE _receive
    BY <1>3 DEF _receive, TypeOK, Waiting
  <1>4. CASE _process_payload
    <2>1. queue' \in Seq(Datagram)
      BY <1>4, HeadTailProperties DEF _process_payload, TypeOK
    <2>2. values' = [l \in Location |-> values'[l]]
      BY <1>4 DEF _process_payload, TypeOK
    <2>. QED
      BY <1>4, <2>1, <2>2 DEF _process_payload, TypeOK, Waiting, Resume
  <1>. QED
    BY <1>1, <1>2, <1>3, <1>4

\* The three commands on the pipe.
LEMMA Commands ==
    ASSUME TypeOK
    PROVE  /\ Press /\ step.action \in Actions =>
                pad' \in Pad /\ pad'.stick = pad.stick
                /\ pad'.pressed = pad.pressed \cup {step.action}
           /\ Release => pad' \in Pad /\ pad'.stick = pad.stick /\ pad'.pressed = {}
           /\ \A where \in {"neutral", "set", "steered"} :
                Stick(where) => pad' \in Pad /\ pad'.stick = where /\ pad'.pressed = pad.pressed
  <1>1. pad \in Pad
    BY DEF TypeOK
  <1>2. ASSUME Press, step.action \in Actions
        PROVE  pad' \in Pad /\ pad'.stick = pad.stick
               /\ pad'.pressed = pad.pressed \cup {step.action}
    BY <1>1, <1>2 DEF Press, Pad
  <1>3. Release => pad' \in Pad /\ pad'.stick = pad.stick /\ pad'.pressed = {}
    BY <1>1 DEF Release, Pad
  <1>4. \A where \in {"neutral", "set", "steered"} :
           Stick(where) => pad' \in Pad /\ pad'.stick = where /\ pad'.pressed = pad.pressed
    BY <1>1 DEF Stick, Pad
  <1>. QED
    BY <1>2, <1>3, <1>4

\* Each step of a script.
LEMMA PlainStepTypes ==
    ASSUME TypeOK, tap \/ release \/ press \/ stick \/ wait_seconds \/ done \/ NeedsWatcher,
           UNCHANGED <<script, watching, round, game, outcome>>
    PROVE  TypeOK'
  <1>1. pad' \in Pad
    <2>1. pad \in Pad
      BY DEF TypeOK
    <2>. QED
      BY <2>1, Commands DEF tap, release, press, stick, wait_seconds, done, NeedsWatcher, Actions
  <1>2. CASE tap \/ wait_seconds
    BY <1>1, <1>2, Ticks, PauseTypes DEF tap, wait_seconds, TypeOK, Waiting, After
  <1>3. CASE release \/ press \/ stick \/ done \/ NeedsWatcher
    BY <1>1, <1>3 DEF release, press, stick, done, NeedsWatcher, NextStep, TypeOK, After
  <1>. QED
    BY <1>2, <1>3

\* The steps that watch the memory of the game.
LEMMA MemoryStepTypes ==
    ASSUME TypeOK,
           \/ wait_memory \/ StartCounter \/ steer_memory_f32 \/ Look \/ Steer \/ Settle
           \/ tap_until_memory \/ TapAgain \/ Lift \/ LastLook,
           UNCHANGED <<script, watching, round, game, outcome>>
    PROVE  TypeOK'
  <1>1. pad' \in Pad
    <2>1. pad \in Pad
      BY DEF TypeOK
    <2>. QED
      BY <2>1, Commands
         DEF wait_memory, StartCounter, steer_memory_f32, Look, Steer, Settle, tap_until_memory,
             TapAgain, Lift, LastLook, Actions
  <1>2. CASE wait_memory
    BY <1>1, <1>2, Ticks DEF wait_memory, Await, TypeOK, Waiting, After, Kinds
  <1>3. CASE StartCounter
    <2>1. << >> \in Seq(Datagram)
      BY EmptySeq
    <2>2. values' = [l \in Location |-> values'[l]]
      BY <1>3 DEF StartCounter, Drained
    <2>. QED
      BY <1>1, <1>3, <2>1, <2>2, Ticks DEF StartCounter, Await, TypeOK, Waiting, After, Kinds
  <1>4. CASE steer_memory_f32 \/ tap_until_memory
    BY <1>1, <1>4, Ticks DEF steer_memory_f32, tap_until_memory, TypeOK, After
  <1>5. CASE Look
    BY <1>1, <1>5 DEF Look, Await, TypeOK, Waiting, After, Kinds
  <1>6. CASE Steer \/ TapAgain
    BY <1>1, <1>6, Ticks, PauseTypes DEF Steer, TapAgain, NextStep, TypeOK, Waiting, After
  <1>7. CASE Settle \/ Lift
    BY <1>1, <1>7, Ticks, PauseTypes DEF Settle, Lift, TypeOK, Waiting, After
  <1>8. CASE LastLook
    BY <1>1, <1>8 DEF LastLook, NextStep, TypeOK, After
  <1>. QED
    BY <1>2, <1>3, <1>4, <1>5, <1>6, <1>7, <1>8

\* Every step keeps the types.
LEMMA NextTypes == TypeOK /\ [Next]_vars => TypeOK'
  <1> SUFFICES ASSUME TypeOK, [Next]_vars PROVE TypeOK'
    OBVIOUS
  <1>1. CASE OpenPipe
    BY <1>1 DEF OpenPipe, TypeOK, After
  <1>2. CASE Begin
    BY <1>2, Ticks, PauseTypes DEF Begin, TypeOK, Waiting, After
  <1>3. CASE Raise
    BY <1>3, Commands DEF Raise, TypeOK
  <1>4. CASE Close
    BY <1>4 DEF Close, TypeOK
  <1>5. CASE UNCHANGED vars
    BY <1>5 DEF TypeOK, vars
  <1>. QED
    BY <1>1, <1>2, <1>3, <1>4, <1>5, GameTypes, TickTypes, LoopTypes, PlainStepTypes, MemoryStepTypes
       DEF Next, Program, StepAction

-----------------------------------------------------------------------------
(* What a script leaves on the pad.                                        *)

\* Whatever moves time or the game leaves the program where it stands, or ends
\* a receive.
LEMMA Outside ==
    ASSUME TypeOK, Tick \/ FrameAdvances \/ FrameResets \/ MemoryChanges
    PROVE  /\ UNCHANGED <<script, watching, round, index, wait, then, count, values, pad, outcome>>
           /\ at' = at \/ (at = "recv" /\ at' = Resume)
  BY DEF Tick, FrameAdvances, FrameResets, MemoryChanges, GameStep

\* No step but a deflecting pulse leaves the stick deflected.
LEMMA StickNext == TypeOK /\ StickHeld /\ [Next]_vars => StickHeld'
  <1> SUFFICES ASSUME TypeOK, StickHeld, [Next]_vars, pad'.stick = "steered"
               PROVE  /\ script'[index'].action = "steer_memory_f32"
                      /\ \/ at' \in {"settle", "raise"}
                         \/ /\ at' \in {"test", "receive", "recv"} /\ then' = "settle"
                            /\ wait' \in {"sleep", "pump_for"}
    BY DEF StickHeld, step
  <1>1. CASE Tick \/ FrameAdvances \/ FrameResets \/ MemoryChanges
    BY <1>1, Outside DEF StickHeld, step, Resume
  <1>2. CASE Test \/ wait_counter \/ _receive \/ _process_payload
    BY <1>2 DEF StickHeld, step, Resume, Test, wait_counter, _receive, _process_payload
  <1>3. CASE tap \/ release \/ press \/ stick \/ wait_seconds \/ done \/ NeedsWatcher
    BY <1>3, Commands DEF tap, release, press, stick, wait_seconds, done, NeedsWatcher, StickHeld,
                          Actions
  <1>4. CASE wait_memory \/ StartCounter \/ Look \/ tap_until_memory \/ LastLook
    BY <1>4 DEF wait_memory, StartCounter, Look, tap_until_memory, LastLook, StickHeld
  <1>5. CASE TapAgain \/ Lift
    BY <1>5, Commands DEF TapAgain, Lift, StickHeld, Actions
  <1>6. CASE steer_memory_f32 \/ Settle
    BY <1>6, Commands DEF steer_memory_f32, Settle
  <1>7. CASE Steer /\ UNCHANGED script
    BY <1>7, Commands, Ticks, PauseTypes DEF Steer, step, After
  <1>8. CASE OpenPipe \/ Begin \/ Close
    BY <1>8 DEF OpenPipe, Begin, Close, StickHeld
  <1>9. CASE Raise
    BY <1>9, Commands DEF Raise, StickHeld
  <1>10. CASE UNCHANGED vars
    BY <1>10 DEF vars, StickHeld, step
  <1>. QED
    BY <1>1, <1>2, <1>3, <1>4, <1>5, <1>6, <1>7, <1>8, <1>9, <1>10 DEF Next, Program, StepAction

\* No step leaves a tapped button down on its way to the end of a script.
LEMMA TapsNext == TypeOK /\ TapsHeld /\ [Next]_vars => TapsHeld'
  <1> SUFFICES ASSUME TypeOK, TapsHeld, [Next]_vars PROVE TapsHeld'
    OBVIOUS
  <1>1. CASE Tick \/ FrameAdvances \/ FrameResets \/ MemoryChanges
    BY <1>1, Outside DEF TapsHeld, Resume, Waiting
  <1>2. CASE Test \/ wait_counter \/ _receive \/ _process_payload
    BY <1>2 DEF TapsHeld, Resume, Waiting, Test, wait_counter, _receive, _process_payload
  <1>3. CASE OpenPipe \/ Begin \/ Close \/ Raise
    BY <1>3, Commands, Ticks, PauseTypes
       DEF OpenPipe, Begin, Close, Raise, TapsHeld, Waiting, After
  <1>4. CASE StepAction
    <2>1. outcome' = outcome /\ outcome # "passed"
      BY <1>4
         DEF TapsHeld, StepAction, tap, release, press, stick, wait_seconds, done, NeedsWatcher,
             wait_memory, StartCounter, steer_memory_f32, Look, Steer, Settle,
             tap_until_memory, TapAgain, Lift, LastLook
    <2>2. CASE tap \/ wait_seconds
      BY <2>1, <2>2, Commands, Ticks, PauseTypes
         DEF tap, wait_seconds, TapsHeld, Waiting, After, Actions
    <2>3. CASE release
      BY <2>1, <2>3, Commands DEF release, TapsHeld
    <2>4. CASE press \/ stick \/ done \/ NeedsWatcher
      BY <2>1, <2>4, Commands DEF press, stick, done, NeedsWatcher, TapsHeld, Actions, Waiting
    <2>5. CASE wait_memory \/ StartCounter \/ Look \/ tap_until_memory \/ LastLook
      BY <2>1, <2>5
         DEF wait_memory, StartCounter, Look, tap_until_memory, LastLook, TapsHeld, Waiting
    <2>6. CASE steer_memory_f32 \/ Steer
      BY <2>1, <2>6, Commands DEF steer_memory_f32, Steer, TapsHeld, Waiting
    <2>7. CASE Settle \/ Lift
      BY <2>1, <2>7, Commands DEF Settle, Lift, TapsHeld, Waiting
    <2>8. CASE TapAgain
      BY <2>1, <2>8, Commands, Ticks, PauseTypes DEF TapAgain, TapsHeld, Waiting, After, Actions
    <2>. QED
      BY <1>4, <2>2, <2>3, <2>4, <2>5, <2>6, <2>7, <2>8 DEF StepAction
  <1>5. CASE UNCHANGED vars
    BY <1>5 DEF vars, TapsHeld
  <1>. QED
    BY <1>1, <1>2, <1>3, <1>4, <1>5 DEF Next, Program

-----------------------------------------------------------------------------
(* Differences of two frames, as the width wraps them.                     *)

\* Half is what a counter of an even width can go forward or back.
LEMMA Widths == Width \in Nat \ {0} /\ Half \in Nat /\ 2 * Half + 2 = Width
  <1>1. Width \in Nat \ {0} /\ Width % 2 = 0
    BY PadAssumption
  <1>. QED
    BY <1>1, SMT DEF Half

\* The difference of two frames, without its remainder.
LEMMA Difference ==
    ASSUME NEW u \in Frame, NEW v \in Frame
    PROVE  (v - u) % Width = IF v >= u THEN v - u ELSE v - u + Width
  <1>1. Width \in Nat \ {0}
    BY Widths
  <1>2. v >= u => (v - u) % Width = v - u
    BY <1>1, SMT DEF Frame
  <1>3. v < u => (v - u) % Width = v - u + Width
    BY <1>1, SMT DEF Frame
  <1>. QED
    BY <1>1, <1>2, <1>3 DEF Frame

\* Counted without its remainder.
LEMMA CountedForm ==
    ASSUME NEW u \in Frame, NEW v \in Frame, NEW n \in Nat
    PROVE  Counted(u, n, v) <=> \/ v >= u /\ v - u <= n
                                \/ v < u /\ (u <= Half \/ v - u + Width <= n)
  <1>1. u \in Int /\ v \in Int /\ u >= 0 /\ v >= 0 /\ u < Width /\ v < Width
    BY Widths DEF Frame
  <1>2. CASE v >= u
    BY <1>1, <1>2, Difference DEF Counted
  <1>3. CASE v < u
    BY <1>1, <1>3, Difference DEF Counted
  <1>. QED
    BY <1>1, <1>2, <1>3

\* A frame may be seen again, whatever was counted in between.
LEMMA CountedSame == \A u \in Frame, n \in Nat : Counted(u, n, u)
  <1> SUFFICES ASSUME NEW u \in Frame, NEW n \in Nat PROVE Counted(u, n, u)
    OBVIOUS
  <1>1. u >= u /\ u - u <= n
    BY Widths DEF Frame
  <1>. QED
    BY <1>1, CountedForm

\* One frame more, and a reset of a low counter.
LEMMA CountedAdvance ==
    ASSUME NEW u \in Frame, NEW v \in Frame, NEW n \in Nat, Counted(u, n, v)
    PROVE  (v + 1) % Width \in Frame /\ Counted(u, n + 1, (v + 1) % Width)
  <1>1. /\ u \in Int /\ v \in Int /\ u >= 0 /\ v >= 0 /\ u < Width /\ v < Width
        /\ Width \in Nat \ {0} /\ n + 1 \in Nat
    BY Widths DEF Frame
  <1>2. (v + 1) % Width = IF v = Width - 1 THEN 0 ELSE v + 1
    BY <1>1, SMT
  <1>3. (v + 1) % Width \in Frame
    BY <1>1, <1>2 DEF Frame
  <1>4. PICK w \in Frame : w = (v + 1) % Width
    BY <1>3
  <1>5. \/ w >= u /\ w - u <= n + 1
        \/ w < u /\ (u <= Half \/ w - u + Width <= n + 1)
    BY <1>1, <1>2, <1>4, CountedForm
  <1>6. Counted(u, n + 1, w)
    BY <1>1, <1>5, CountedForm
  <1>. QED
    BY <1>3, <1>4, <1>6

\* A reset of a low counter looks like one to every frame before it.
LEMMA CountedReset ==
    ASSUME NEW u \in Frame, NEW v \in Frame, NEW n \in Nat, Counted(u, n, v), v > 0, v <= Half
    PROVE  0 \in Frame /\ Counted(u, n, 0)
  <1>1. /\ u \in Int /\ v \in Int /\ u >= 0 /\ u < Width /\ v < Width
        /\ Width \in Nat \ {0} /\ Half \in Nat /\ 0 \in Frame
    BY Widths DEF Frame
  <1>2. \/ 0 >= u /\ 0 - u <= n
        \/ 0 < u /\ (u <= Half \/ 0 - u + Width <= n)
    BY <1>1, CountedForm
  <1>. QED
    BY <1>1, <1>2, CountedForm

\* What wait_counter reads off the difference: a delta it takes for progress is
\* one, and a delta of zero is none.
LEMMA CountedDelta ==
    ASSUME NEW u \in Frame, NEW v \in Frame, NEW n \in Nat, Counted(u, n, v)
    PROVE  /\ (v - u) % Width \in Nat
           /\ (v - u) % Width <= Half => (v - u) % Width <= n
           /\ (v - u) % Width = 0 => u = v
  <1>1. /\ u \in Int /\ v \in Int /\ u >= 0 /\ v >= 0 /\ u < Width /\ v < Width
        /\ Half \in Nat /\ 2 * Half + 2 = Width
    BY Widths DEF Frame
  <1>2. CASE v >= u
    BY <1>1, <1>2, Difference, CountedForm
  <1>3. CASE v < u
    BY <1>1, <1>3, Difference, CountedForm
  <1>. QED
    BY <1>1, <1>2, <1>3

-----------------------------------------------------------------------------
(* How long a wait_counter waits.                                          *)

\* What the game publishes, or loses, is stamped with the frames it has counted.
LEMMA GameKeepsCount ==
    ASSUME TypeOK, TypeOK', NEW l \in Location, NEW v, GameStep(l, v),
           NEW k \in Nat, advanced' = advanced + k,
           l = "frame" => v \in Frame /\ game'.frame = v,
           l # "frame" => game'.frame = game.frame,
           \A u \in Frame, n \in Nat : Counted(u, n, game.frame) => Counted(u, n + k, game'.frame),
           CountIsSound
    PROVE  CountIsSound'
  <1> SUFFICES ASSUME Counting'
               PROVE  \E stamp \in [DOMAIN queue' -> 0..advanced'], seen \in 0..advanced' :
                          Stamped(stamp, seen)' /\ Budgeted(seen)'
    BY DEF CountIsSound
  <1>1. UNCHANGED <<at, wait, count, values>>
    BY DEF GameStep
  <1>2. PICK stamp \in [DOMAIN queue -> 0..advanced], seen \in 0..advanced :
            Stamped(stamp, seen) /\ Budgeted(seen)
    BY <1>1 DEF CountIsSound, Counting
  <1>3. queue' = queue \/ queue' = Append(queue, [location |-> l, value |-> v])
    BY DEF GameStep, Publish
  <1>4. /\ advanced \in Nat /\ advanced' \in Nat /\ advanced <= advanced'
        /\ queue \in Seq(Datagram)
        /\ game.frame \in Frame /\ game'.frame \in Frame
    BY DEF TypeOK, Memory
  <1>5. seen \in 0..advanced' /\ Budgeted(seen)'
    BY <1>1, <1>2, <1>4 DEF Budgeted
  <1>6. ASSUME NEW u \in Frame, NEW t \in 0..advanced, Counted(u, advanced - t, game.frame)
        PROVE  Counted(u, advanced' - t, game'.frame)
    <2>1. advanced - t \in Nat /\ advanced' - t = (advanced - t) + k
      BY <1>4
    <2>. QED
      BY <1>6, <2>1
  <1>7. CASE queue' = queue
    <2>1. stamp \in [DOMAIN queue' -> 0..advanced']
      BY <1>2, <1>4, <1>7
    <2>2. Stamped(stamp, seen)'
      BY <1>1, <1>2, <1>4, <1>5, <1>6, <1>7, <2>1 DEF Stamped, Frames, Fresh
    <2>. QED
      BY <1>5, <2>1, <2>2
  <1>8. CASE queue' = Append(queue, [location |-> l, value |-> v])
    <2> DEFINE last == Len(queue) + 1
    <2>1. /\ DOMAIN queue' = DOMAIN queue \cup {last} /\ last \notin DOMAIN queue
          /\ last \in Nat /\ DOMAIN queue \subseteq Nat
          /\ \A j \in DOMAIN queue : queue'[j] = queue[j] /\ j < last
          /\ queue'[last] = [location |-> l, value |-> v]
      <3>1. /\ queue \in Seq(Datagram) /\ Len(queue) \in Nat /\ DOMAIN queue = 1..Len(queue)
        BY <1>4, LenProperties
      <3>. QED
        BY <1>8, <3>1, SMT
    <2>2. [j \in DOMAIN queue' |-> IF j = last THEN advanced' ELSE stamp[j]]
             \in [DOMAIN queue' -> 0..advanced']
      <3>1. ASSUME NEW j \in DOMAIN queue'
            PROVE  (IF j = last THEN advanced' ELSE stamp[j]) \in 0..advanced'
        BY <1>2, <1>4, <2>1
      <3>. QED
        BY <3>1
    <2>3. PICK later \in [DOMAIN queue' -> 0..advanced'] :
             /\ \A j \in DOMAIN queue : later[j] = stamp[j] /\ stamp[j] \in 0..advanced
             /\ later[last] = advanced'
      BY <1>2, <2>1, <2>2
    <2> HIDE DEF last
    <2>4. Frames' = Frames \cup (IF l = "frame" THEN {last} ELSE {})
      BY <2>1 DEF Frames
    <2>5. Frames \subseteq DOMAIN queue
      BY DEF Frames
    <2>6. ASSUME NEW j \in Frames'
          PROVE  /\ queue'[j].value \in Frame
                 /\ Counted(queue'[j].value, advanced' - later[j], game'.frame)
      <3>1. CASE j \in Frames
        BY <1>2, <1>6, <2>1, <2>3, <2>5, <3>1 DEF Stamped
      <3>2. CASE j = last /\ l = "frame"
        <4>1. queue'[j].value = v /\ v \in Frame /\ game'.frame = v /\ advanced' - later[j] = 0
          BY <1>4, <2>1, <2>3, <3>2
        <4>. QED
          BY <4>1, CountedSame
      <3>. QED
        BY <2>4, <2>6, <3>1, <3>2
    <2>7. ASSUME NEW i \in Frames', NEW j \in Frames', i < j
          PROVE  later[i] <= later[j] /\ Counted(queue'[i].value, later[j] - later[i], queue'[j].value)
      <3>1. CASE j \in Frames
        <4>1. i \in Frames
          BY <2>1, <2>4, <2>5, <2>7, <3>1
        <4>. QED
          BY <1>2, <2>1, <2>3, <2>5, <2>7, <3>1, <4>1 DEF Stamped
      <3>2. CASE j = last /\ l = "frame"
        <4>1. i \in Frames
          BY <2>1, <2>4, <2>7, <3>2
        <4>2. queue'[j].value = game'.frame /\ later[j] = advanced'
          BY <2>1, <2>3, <3>2
        <4>3. later[i] <= advanced'
          BY <1>4, <2>3, <2>5, <4>1
        <4>. QED
          BY <2>6, <4>2, <4>3
      <3>. QED
        BY <2>4, <2>7, <3>1, <3>2
    <2>8. ASSUME Fresh'
          PROVE  /\ values'.frame \in Frame
                 /\ Counted(values'.frame, advanced' - seen, game'.frame)
                 /\ \A j \in Frames' : seen <= later[j]
                        /\ Counted(values'.frame, later[j] - seen, queue'[j].value)
      <3>1. Fresh /\ values'.frame = values.frame
        BY <1>1, <2>8 DEF Fresh
      <3>2. values'.frame \in Frame /\ Counted(values'.frame, advanced' - seen, game'.frame)
        BY <1>2, <1>6, <3>1 DEF Stamped
      <3>3. ASSUME NEW j \in Frames'
            PROVE  seen <= later[j] /\ Counted(values'.frame, later[j] - seen, queue'[j].value)
        <4>1. CASE j \in Frames
          BY <1>2, <2>1, <2>3, <2>5, <3>1, <4>1 DEF Stamped
        <4>2. CASE j = last /\ l = "frame"
          BY <1>5, <2>1, <2>3, <3>2, <4>2
        <4>. QED
          BY <2>4, <3>3, <4>1, <4>2
      <3>. QED
        BY <3>2, <3>3
    <2>9. Stamped(later, seen)'
      BY <1>5, <2>3, <2>6, <2>7, <2>8 DEF Stamped
    <2>. QED
      BY <1>5, <2>3, <2>9
  <1>. QED
    BY <1>3, <1>7, <1>8

\* Every change of the game is of one of these kinds.
LEMMA GameCounts ==
    ASSUME TypeOK, TypeOK', CountIsSound, FrameAdvances \/ FrameResets \/ MemoryChanges
    PROVE  CountIsSound'
  <1>1. game \in Memory /\ game.frame \in Frame /\ advanced \in Nat
    BY DEF TypeOK, Memory
  <1>2. CASE FrameAdvances
    <2>1. PICK w : w = (game.frame + 1) % Width
      OBVIOUS
    <2>2. GameStep("frame", w) /\ advanced' = advanced + 1 /\ "frame" \in Location
      BY <1>2, <2>1 DEF FrameAdvances, Location
    <2>3. w \in Frame
      BY <1>1, <2>1, CountedSame, CountedAdvance
    <2>4. game'.frame = w
      BY <1>1, <2>2 DEF GameStep, Memory
    <2>5. \A u \in Frame, n \in Nat : Counted(u, n, game.frame) => Counted(u, n + 1, game'.frame)
      BY <1>1, <2>1, <2>4, CountedAdvance
    <2>. QED
      BY <2>2, <2>3, <2>4, <2>5, GameKeepsCount
  <1>3. CASE FrameResets
    <2>1. /\ GameStep("frame", 0) /\ advanced' = advanced + 0 /\ "frame" \in Location
          /\ game.frame > 0 /\ game.frame <= Half
      BY <1>1, <1>3 DEF FrameResets, Location
    <2>2. 0 \in Frame
      BY <1>1, <2>1, CountedSame, CountedReset
    <2>3. game'.frame = 0
      BY <1>1, <2>1 DEF GameStep, Memory
    <2>4. \A u \in Frame, n \in Nat : Counted(u, n, game.frame) => Counted(u, n + 0, game'.frame)
      BY <1>1, <2>1, <2>3, CountedReset
    <2>. QED
      BY <2>1, <2>2, <2>3, <2>4, GameKeepsCount
  <1>4. CASE MemoryChanges
    <2>1. PICK l \in {"flag", "spot"} : GameStep(l, ~game[l]) /\ UNCHANGED advanced
      BY <1>4 DEF MemoryChanges
    <2>2. l \in Location /\ l # "frame" /\ advanced' = advanced + 0
      BY <1>1, <2>1 DEF Location
    <2>3. game'.frame = game.frame
      BY <1>1, <2>1 DEF GameStep, Memory
    <2>4. \A u \in Frame, n \in Nat : Counted(u, n, game.frame) => Counted(u, n + 0, game'.frame)
      BY <2>3
    <2>. QED
      BY <2>1, <2>2, <2>3, <2>4, GameKeepsCount
  <1>. QED
    BY <1>2, <1>3, <1>4

\* The frame received becomes the last one seen, and all that wait_counter took
\* off was counted before the one it replaces.
LEMMA PayloadCounts ==
    ASSUME TypeOK, CountIsSound, _process_payload
    PROVE  CountIsSound'
  <1> SUFFICES ASSUME Counting'
               PROVE  \E stamp \in [DOMAIN queue' -> 0..advanced'], seen \in 0..advanced' :
                          Stamped(stamp, seen)' /\ Budgeted(seen)'
    BY DEF CountIsSound
  <1>1. /\ UNCHANGED <<wait, count, game, advanced>> /\ at = "recv" /\ at' = Resume
        /\ queue # <<>> /\ queue' = Tail(queue)
        /\ values' = [values EXCEPT ![Head(queue).location] = Head(queue).value]
    BY DEF _process_payload
  <1>2. PICK stamp \in [DOMAIN queue -> 0..advanced], seen \in 0..advanced :
            Stamped(stamp, seen) /\ Budgeted(seen)
    BY <1>1 DEF CountIsSound, Counting, Waiting
  <1>3. /\ advanced \in Nat /\ queue \in Seq(Datagram)
        /\ values = [l \in Location |-> values[l]]
    BY DEF TypeOK
  <1>4. /\ DOMAIN queue \subseteq Nat /\ 1 \in DOMAIN queue /\ Head(queue) = queue[1]
        /\ DOMAIN queue' \subseteq Nat \ {0}
        /\ \A j \in DOMAIN queue' : j + 1 \in DOMAIN queue /\ queue'[j] = queue[j + 1] /\ 1 < j + 1
    <2>1. /\ Len(queue) \in Nat /\ Len(queue) # 0 /\ DOMAIN queue = 1..Len(queue)
      BY <1>1, <1>3, LenProperties, EmptySeq
    <2>2. /\ queue' \in Seq(Datagram) /\ Len(queue') = Len(queue) - 1
          /\ \A j \in 1..Len(queue') : queue'[j] = queue[j + 1]
      BY <1>1, <1>3, HeadTailProperties
    <2>3. DOMAIN queue' = 1..Len(queue')
      BY <2>2, LenProperties
    <2>4. Head(queue) = queue[1]
      BY <1>1, <1>3, HeadTailProperties
    <2>. QED
      BY <2>1, <2>2, <2>3, <2>4
  <1>5. PICK later \in [DOMAIN queue' -> 0..advanced'] :
            \A j \in DOMAIN queue' : later[j] = stamp[j + 1]
    <2>1. [j \in DOMAIN queue' |-> stamp[j + 1]] \in [DOMAIN queue' -> 0..advanced']
      BY <1>1, <1>2, <1>4
    <2>. QED
      BY <2>1
  <1>6. ASSUME NEW j \in Frames' PROVE j + 1 \in Frames /\ j \in DOMAIN queue'
    BY <1>4, <1>6 DEF Frames
  <1>7. /\ \A j \in Frames' : /\ queue'[j].value \in Frame
                              /\ Counted(queue'[j].value, advanced' - later[j], game'.frame)
        /\ \A i, j \in Frames' : i < j =>
              /\ later[i] <= later[j]
              /\ Counted(queue'[i].value, later[j] - later[i], queue'[j].value)
    <2>1. ASSUME NEW j \in Frames'
          PROVE  /\ queue'[j].value \in Frame
                 /\ Counted(queue'[j].value, advanced' - later[j], game'.frame)
      BY <1>1, <1>2, <1>4, <1>5, <1>6, <2>1 DEF Stamped
    <2>2. ASSUME NEW i \in Frames', NEW j \in Frames', i < j
          PROVE  /\ later[i] <= later[j]
                 /\ Counted(queue'[i].value, later[j] - later[i], queue'[j].value)
      <3>1. i + 1 < j + 1
        BY <1>4, <1>6, <2>2
      <3>. QED
        BY <1>2, <1>4, <1>5, <1>6, <2>2, <3>1 DEF Stamped
    <2>. QED
      BY <2>1, <2>2
  <1>8. CASE queue[1].location = "frame"
    <2>1. values'.frame = queue[1].value
      BY <1>1, <1>3, <1>4, <1>8 DEF Location
    <2>2. 1 \in Frames /\ stamp[1] \in 0..advanced' /\ values'.frame \in Frame
      BY <1>1, <1>2, <1>4, <1>8, <2>1 DEF Frames, Stamped
    <2>3. Counted(values'.frame, advanced' - stamp[1], game'.frame)
      BY <1>1, <1>2, <2>1, <2>2 DEF Stamped
    <2>4. ASSUME NEW j \in Frames'
          PROVE  /\ stamp[1] <= later[j]
                 /\ Counted(values'.frame, later[j] - stamp[1], queue'[j].value)
      BY <1>2, <1>4, <1>5, <1>6, <2>1, <2>2, <2>4 DEF Stamped
    <2>5. Stamped(later, stamp[1])'
      BY <1>5, <1>7, <2>2, <2>3, <2>4 DEF Stamped
    <2>6. Budgeted(stamp[1])'
      <3> SUFFICES ASSUME wait = "count"
                   PROVE  \E base \in 0..stamp[1] :
                            /\ count'.previous \in Frame /\ count'.remaining \in 0..Increments
                            /\ Increments - count'.remaining <= base
                            /\ Counted(count'.previous, stamp[1] - base, values'.frame)
                            /\ at' # "count" => count'.previous = values'.frame
        BY <1>1 DEF Budgeted
      <3>1. at' = "count"
        BY <1>1 DEF Resume
      <3>2. PICK base \in 0..seen :
              /\ count.previous \in Frame /\ count.remaining \in 0..Increments
              /\ Increments - count.remaining <= base
              /\ count.previous = values.frame
        BY <1>1, <1>2 DEF Budgeted
      <3>3. seen <= stamp[1] /\ Counted(values.frame, stamp[1] - seen, queue[1].value)
        BY <1>2, <2>2 DEF Stamped, Fresh
      <3>4. seen \in 0..stamp[1] /\ Increments - count.remaining <= seen
        BY <1>2, <2>2, <3>2, <3>3, PadAssumption
      <3>. QED
        BY <1>1, <2>1, <3>1, <3>2, <3>3, <3>4
    <2>. QED
      BY <1>5, <2>2, <2>5, <2>6
  <1>9. CASE queue[1].location # "frame"
    <2>1. values'.frame = values.frame
      BY <1>1, <1>3, <1>4, <1>9 DEF Location
    <2>2. ASSUME Fresh'
          PROVE  /\ values'.frame \in Frame
                 /\ Counted(values'.frame, advanced' - seen, game'.frame)
                 /\ \A j \in Frames' : seen <= later[j]
                        /\ Counted(values'.frame, later[j] - seen, queue'[j].value)
      <3>1. Fresh
        BY <1>1, <2>1, <2>2 DEF Fresh
      <3>. QED
        BY <1>1, <1>2, <1>4, <1>5, <1>6, <2>1, <3>1 DEF Stamped
    <2>3. seen \in 0..advanced'
      BY <1>1, <1>2
    <2>4. Stamped(later, seen)'
      BY <1>5, <1>7, <2>2, <2>3 DEF Stamped
    <2>5. Budgeted(seen)'
      BY <1>1, <1>2, <2>1 DEF Budgeted, Resume
    <2>. QED
      BY <1>5, <2>3, <2>4, <2>5
  <1>. QED
    BY <1>8, <1>9

\* Time, and a receive, move nothing that is counted.
LEMMA WaitingCounts ==
    ASSUME TypeOK, CountIsSound, Tick \/ _receive \/ UNCHANGED vars
    PROVE  CountIsSound'
  <1> SUFFICES ASSUME Counting'
               PROVE  \E stamp \in [DOMAIN queue' -> 0..advanced'], seen \in 0..advanced' :
                          Stamped(stamp, seen)' /\ Budgeted(seen)'
    BY DEF CountIsSound
  <1>1. /\ UNCHANGED <<wait, count, values, queue, game, advanced>>
        /\ \/ at' = at
           \/ at = "recv" /\ at' = Resume
           \/ at = "receive" /\ at' \in {"recv", "raise"}
    BY DEF Tick, _receive, vars
  <1>2. PICK stamp \in [DOMAIN queue -> 0..advanced], seen \in 0..advanced :
            Stamped(stamp, seen) /\ Budgeted(seen)
    BY <1>1 DEF CountIsSound, Counting, Waiting
  <1>3. Stamped(stamp, seen)'
    BY <1>1, <1>2 DEF Stamped, Frames, Fresh
  <1>4. Budgeted(seen)'
    BY <1>1, <1>2 DEF Budgeted, Resume
  <1>. QED
    BY <1>1, <1>2, <1>3, <1>4

\* The first change seen is what wait_counter counts from.
LEMMA TestCounts ==
    ASSUME TypeOK, CountIsSound, CounterStep, Test
    PROVE  CountIsSound'
  <1> SUFFICES ASSUME Counting'
               PROVE  \E stamp \in [DOMAIN queue' -> 0..advanced'], seen \in 0..advanced' :
                          Stamped(stamp, seen)' /\ Budgeted(seen)'
    BY DEF CountIsSound
  <1>1. /\ UNCHANGED <<values, queue, game, advanced>> /\ at = "test" /\ wait # "count"
    BY DEF Test, CounterStep
  <1>2. at' = "receive"
    BY DEF Test, Counting, TypeOK, Waiting, After
  <1>3. CASE UNCHANGED <<wait, count>>
    <2>1. PICK stamp \in [DOMAIN queue -> 0..advanced], seen \in 0..advanced :
              Stamped(stamp, seen) /\ Budgeted(seen)
      BY <1>1, <1>3 DEF CountIsSound, Counting, Waiting
    <2>2. Stamped(stamp, seen)' /\ Budgeted(seen)'
      BY <1>1, <1>3, <2>1 DEF Stamped, Frames, Fresh, Budgeted
    <2>. QED
      BY <1>1, <2>1, <2>2
  <1>4. CASE /\ wait = "wait_counter" /\ Satisfied /\ wait' = "count"
             /\ count' = [previous |-> values.frame, remaining |-> Increments]
    <2>1. PICK stamp \in [DOMAIN queue -> 0..advanced], seen \in 0..advanced :
              Stamped(stamp, seen) /\ Budgeted(seen)
      BY <1>1, <1>4 DEF CountIsSound, Counting, Waiting
    <2>2. Fresh
      BY <1>4 DEF Satisfied, Fresh
    <2>3. Stamped(stamp, seen)'
      BY <1>1, <2>1, <2>2 DEF Stamped, Frames
    <2>4. /\ count'.previous = values'.frame /\ values.frame \in Frame
          /\ count'.remaining = Increments /\ Increments \in Nat
      BY <1>1, <1>4, <2>1, <2>2, PadAssumption DEF Stamped
    <2>5. 0 \in 0..seen /\ seen - 0 \in Nat
      BY <2>1, <1>1 DEF TypeOK
    <2>6. Counted(count'.previous, seen - 0, values'.frame)
      BY <1>1, <2>4, <2>5, CountedSame
    <2>7. Budgeted(seen)'
      BY <1>1, <2>4, <2>5, <2>6 DEF Budgeted
    <2>. QED
      BY <1>1, <2>1, <2>3, <2>7
  <1>. QED
    BY <1>1, <1>2, <1>3, <1>4 DEF Test

\* One round of the loop: what it takes off remaining lies between the frame it
\* last took for previous and the last one seen.
LEMMA LoopCounts ==
    ASSUME TypeOK, CountIsSound, CounterStep, wait_counter
    PROVE  /\ CountIsSound'
           /\ at' = then => advanced >= Increments
  <1> DEFINE delta == (values.frame - count.previous) % Width
  <1>1. /\ UNCHANGED <<wait, values, queue, game, advanced, then>> /\ at = "count" /\ wait = "count"
        /\ Counting /\ Fresh /\ then # "receive" /\ then \notin Waiting
        /\ advanced \in Nat
    BY DEF wait_counter, CounterStep, Counting, Fresh, TypeOK, Waiting, After
  <1>2. PICK stamp \in [DOMAIN queue -> 0..advanced], seen \in 0..advanced :
            Stamped(stamp, seen) /\ Budgeted(seen)
    BY <1>1 DEF CountIsSound
  <1>3. PICK base \in 0..seen :
            /\ count.previous \in Frame /\ count.remaining \in 0..Increments
            /\ Increments - count.remaining <= base
            /\ Counted(count.previous, seen - base, values.frame)
    BY <1>1, <1>2 DEF Budgeted
  <1>4. /\ values.frame \in Frame /\ Increments \in Nat /\ seen \in Nat /\ base \in Nat
        /\ seen - base \in Nat /\ seen <= advanced /\ count.remaining \in Nat
    BY <1>1, <1>2, <1>3, PadAssumption DEF Stamped
  <1>5. /\ delta \in Nat
        /\ delta <= Half => delta <= seen - base
        /\ delta = 0 => count.previous = values.frame
    BY <1>3, <1>4, CountedDelta
  <1>6. Half \in Nat
    BY Widths
  <1>7. \/ /\ delta = 0 /\ at' = "receive" /\ count' = count
        \/ /\ delta > Half /\ at' = "receive" /\ count' = [count EXCEPT !.previous = values.frame]
        \/ /\ delta # 0 /\ delta <= Half /\ delta >= count.remaining
           /\ at' = then /\ count' = count
        \/ /\ delta # 0 /\ delta <= Half /\ delta < count.remaining /\ at' = "receive"
           /\ count' = [previous |-> values.frame, remaining |-> count.remaining - delta]
    BY <1>4, <1>5, <1>6 DEF wait_counter
  <1> HIDE DEF delta
  <1>8. at' = then => advanced >= Increments
    BY <1>1, <1>3, <1>4, <1>5, <1>7
  <1>9. ASSUME at' = "receive" PROVE CountIsSound'
    <2>1. Stamped(stamp, seen)'
      BY <1>1, <1>2 DEF Stamped, Frames, Fresh
    <2>2. /\ count'.previous = values.frame /\ count'.remaining \in 0..Increments
          /\ Increments - count'.remaining <= seen
      <3>1. count = [previous |-> count.previous, remaining |-> count.remaining]
        BY DEF TypeOK
      <3>. QED
        BY <1>1, <1>3, <1>4, <1>5, <1>7, <1>9, <3>1
    <2>3. seen \in 0..seen /\ seen - seen \in Nat
      BY <1>4
    <2>4. Counted(count'.previous, seen - seen, values'.frame)
      BY <1>1, <1>4, <2>2, <2>3, CountedSame
    <2>5. Budgeted(seen)'
      BY <1>1, <1>4, <2>2, <2>3, <2>4 DEF Budgeted
    <2>. QED
      BY <1>1, <1>2, <2>1, <2>5 DEF CountIsSound
  <1>10. CASE at' = then
    BY <1>1, <1>8, <1>10 DEF CountIsSound, Counting, Waiting
  <1>. QED
    BY <1>7, <1>8, <1>9, <1>10

\* Every other step starts a wait that counts nothing, or none; StartCounter
\* starts one with nothing queued and nothing seen.
LEMMA StepCounts ==
    ASSUME TypeOK, CountIsSound, StepAction \/ OpenPipe \/ Begin \/ Raise \/ Close
    PROVE  CountIsSound'
  <1>1. CASE StartCounter
    <2>1. /\ queue' = <<>> /\ wait' = "wait_counter" /\ advanced' = 0
          /\ values'.frame = count'.previous
      BY <1>1 DEF StartCounter, Await
    <2>2. PICK stamp \in [DOMAIN queue' -> 0..advanced'] : TRUE
      <3>1. [j \in DOMAIN queue' |-> 0] \in [DOMAIN queue' -> 0..advanced']
        BY <2>1
      <3>. QED
        BY <3>1
    <2>3. Frames' = {} /\ 0 \in 0..advanced'
      BY <2>1 DEF Frames
    <2>4. Stamped(stamp, 0)'
      BY <2>1, <2>2, <2>3 DEF Stamped, Fresh
    <2>5. Budgeted(0)'
      BY <2>1 DEF Budgeted
    <2>. QED
      BY <2>2, <2>3, <2>4, <2>5 DEF CountIsSound
  <1>2. CASE ~StartCounter
    <2>1. CASE OpenPipe \/ Begin \/ Raise \/ Close
      BY <2>1 DEF OpenPipe, Begin, pause, Await, Raise, Close, CountIsSound, Counting, Waiting
    <2>2. CASE tap \/ release \/ press \/ stick \/ wait_seconds \/ done \/ NeedsWatcher \/ wait_memory
      BY <2>2 DEF tap, release, press, stick, wait_seconds, done, NeedsWatcher, wait_memory,
                  NextStep, pause, Await, CountIsSound, Counting, Waiting
    <2>3. CASE steer_memory_f32 \/ Look \/ Steer \/ Settle \/ tap_until_memory \/ TapAgain \/ Lift
                  \/ LastLook
      BY <2>3 DEF steer_memory_f32, Look, Steer, Settle, tap_until_memory, TapAgain, Lift, LastLook,
                  NextStep, pause, Await, CountIsSound, Counting, Waiting
    <2>. QED
      BY <1>2, <2>1, <2>2, <2>3 DEF StepAction
  <1>. QED
    BY <1>1, <1>2

\* Every step keeps the count sound.
LEMMA CountNext == TypeOK /\ TypeOK' /\ CountIsSound /\ CounterStep /\ [Next]_vars => CountIsSound'
  BY GameCounts, PayloadCounts, WaitingCounts, TestCounts, LoopCounts, StepCounts DEF Next, Program

\* Every step keeps the loop of wait_counter the only way out of it.
LEMMA CounterStepNext == TypeOK /\ CounterStep /\ [Next]_vars => CounterStep'
  <1> SUFFICES ASSUME TypeOK, CounterStep, [Next]_vars PROVE CounterStep'
    OBVIOUS
  <1>1. CASE Tick \/ FrameAdvances \/ FrameResets \/ MemoryChanges
    BY <1>1, Outside DEF CounterStep, step, Resume, Waiting
  <1>2. CASE Test \/ wait_counter \/ _receive \/ _process_payload
    BY <1>2 DEF CounterStep, step, Resume, Waiting, TypeOK, After,
                Test, wait_counter, _receive, _process_payload
  <1>3. CASE OpenPipe \/ Begin \/ Raise \/ Close
    BY <1>3 DEF OpenPipe, Begin, pause, Await, Raise, Close, CounterStep, Waiting
  <1>4. CASE StepAction
    <2>1. CASE tap \/ release \/ press \/ stick \/ wait_seconds \/ done \/ NeedsWatcher \/ wait_memory
      BY <1>4, <2>1
         DEF StepAction, tap, release, press, stick, wait_seconds, done, NeedsWatcher, wait_memory,
             NextStep, pause, Await, CounterStep, step, Waiting
    <2>2. CASE StartCounter
      BY <2>2 DEF StartCounter, Await, CounterStep, Waiting
    <2>3. CASE steer_memory_f32 \/ Look \/ Steer \/ Settle \/ tap_until_memory \/ TapAgain \/ Lift
                  \/ LastLook
      BY <2>3 DEF steer_memory_f32, Look, Steer, Settle, tap_until_memory, TapAgain, Lift, LastLook,
                  NextStep, pause, Await, CounterStep, Waiting
    <2>. QED
      BY <1>4, <2>1, <2>2, <2>3 DEF StepAction
  <1>5. CASE UNCHANGED vars
    BY <1>5 DEF vars, CounterStep, step
  <1>. QED
    BY <1>1, <1>2, <1>3, <1>4, <1>5 DEF Next, Program

\* A wait_counter step is done by its loop only.
LEMMA WaitsNext ==
    TypeOK /\ CountIsSound /\ CounterStep /\ CounterWaitsLongEnough /\ [Next]_vars
        => CounterWaitsLongEnough'
  <1> SUFFICES ASSUME TypeOK, CountIsSound, CounterStep, CounterWaitsLongEnough, [Next]_vars,
                      at' = "done", script'[index'].action = "wait_counter"
               PROVE  advanced' >= Increments
    BY DEF CounterWaitsLongEnough, step
  <1>1. CASE FrameAdvances \/ FrameResets \/ MemoryChanges
    <2>1. at = "done" /\ step.action = "wait_counter" /\ advanced \in Nat
      BY <1>1, Outside DEF Resume, step, TypeOK, FrameAdvances, FrameResets, MemoryChanges, GameStep
    <2>2. advanced' = advanced \/ advanced' = advanced + 1
      BY <1>1 DEF FrameAdvances, FrameResets, MemoryChanges
    <2>3. Increments \in Nat
      BY PadAssumption
    <2>. QED
      BY <2>1, <2>2, <2>3 DEF CounterWaitsLongEnough
  <1>2. CASE Tick \/ UNCHANGED vars
    BY <1>2 DEF Tick, vars, Resume, step, CounterWaitsLongEnough
  <1>3. CASE wait_counter
    <2>1. at' = then /\ advanced' = advanced
      BY <1>3 DEF wait_counter
    <2>. QED
      BY <1>3, <2>1, LoopCounts
  <1>4. CASE Test \/ _receive \/ _process_payload
    BY <1>4 DEF Test, _receive, _process_payload, Resume, CounterStep, Waiting, step
  <1>5. CASE OpenPipe \/ Begin \/ Raise \/ Close
    BY <1>5 DEF OpenPipe, Begin, pause, Await, Raise, Close
  <1>6. CASE StepAction
    BY <1>6
       DEF StepAction, tap, release, press, stick, wait_seconds, done, NeedsWatcher, wait_memory,
           StartCounter, steer_memory_f32, Look, Steer, Settle, tap_until_memory, TapAgain, Lift,
           LastLook, NextStep, pause, Await
  <1>. QED
    BY <1>1, <1>2, <1>3, <1>4, <1>5, <1>6 DEF Next, Program

-----------------------------------------------------------------------------
(* The theorems.                                                           *)

\* The invariant holds at the start,
LEMMA PadInitInv == Init => PadInv
  <1> SUFFICES ASSUME Init PROVE PadInv
    OBVIOUS
  <1>1. Scripts \subseteq Seq([action : Actions, delay : BOOLEAN])
    BY ScriptAssumption
  <1>2. PICK n \in 0..(Width - 1) :
           game = [frame |-> n, flag |-> FALSE, spot |-> FALSE, events |-> MaxEvents]
    BY DEF Init
  <1>3. game \in Memory
    BY <1>2, PadAssumption DEF Memory, Frame
  <1>4. pad \in Pad /\ pad.stick = "neutral" /\ pad.pressed = {}
    BY DEF Init, Pad
  <1>5. << >> \in Seq(Datagram)
    BY EmptySeq
  <1>6. /\ script \in Seq([action : Actions, delay : BOOLEAN])
        /\ round \in Nat /\ left \in Nat
    BY <1>1, PadAssumption DEF Init
  <1>7. TypeOK
    BY <1>3, <1>4, <1>5, <1>6 DEF Init, TypeOK, Waiting, After, Kinds
  <1>8. at = "open" /\ outcome = "none"
    BY DEF Init
  <1>. QED
    BY <1>4, <1>7, <1>8
       DEF PadInv, StickHeld, TapsHeld, CountIsSound, Counting, CounterStep,
           CounterWaitsLongEnough, Waiting

\* after every step,
LEMMA PadNextInv == PadInv /\ [Next]_vars => PadInv'
  <1> SUFFICES ASSUME PadInv, [Next]_vars PROVE PadInv'
    OBVIOUS
  <1>1. TypeOK'
    BY NextTypes DEF PadInv
  <1>2. StickHeld'
    BY StickNext DEF PadInv
  <1>3. TapsHeld'
    BY TapsNext DEF PadInv
  <1>4. CountIsSound'
    BY <1>1, CountNext DEF PadInv
  <1>5. CounterStep'
    BY CounterStepNext DEF PadInv
  <1>6. CounterWaitsLongEnough'
    BY WaitsNext DEF PadInv
  <1>. QED
    BY <1>1, <1>2, <1>3, <1>4, <1>5, <1>6 DEF PadInv

\* and so in every state.
LEMMA PadInvariant == Spec => []PadInv
  <1>. QED
    BY PadInitInv, PadNextInv, PTL DEF Spec

\* steer_memory_f32 (gcpipe.py:240-320) never leaves the stick deflected, on
\* any of its ways out, for any deadline and any pause.
THEOREM SteeringNeverDeflects == Spec => []SteeringReleasesStick
  <1>1. PadInv => SteeringReleasesStick
    BY DEF PadInv, StickHeld, SteeringReleasesStick
  <1>. QED
    BY <1>1, PadInvariant, PTL

\* A script that passes holds no button that it tapped.
THEOREM PassedScriptsReleaseTaps == Spec => []PassedReleasesTaps
  <1>1. PadInv => PassedReleasesTaps
    BY DEF PadInv, TapsHeld, Waiting, PassedReleasesTaps
  <1>. QED
    BY <1>1, PadInvariant, PTL

\* wait_counter (gcpipe.py:144-175) never returns before the game has counted the
\* increments asked for, for any width, any loss of datagrams and any reset of
\* the counter in its lower half.
THEOREM CounterNeverReturnsEarly == Spec => []CounterWaitsLongEnough
  <1>1. PadInv => CounterWaitsLongEnough
    BY DEF PadInv
  <1>. QED
    BY <1>1, PadInvariant, PTL
=============================================================================
