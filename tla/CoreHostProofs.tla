---------------------------- MODULE CoreHostProofs ----------------------------
(***************************************************************************)
(* Theorems of CoreHost, for any number of matches and polls: no handle    *)
(* outlives the runtime, and netplay never runs local codes.               *)
(***************************************************************************)
EXTENDS CoreHost, SequenceTheorems, TLAPS

-----------------------------------------------------------------------------
(* The inductive invariant.                                                *)

\* The records the state is made of.
Flags == [stopRequested : BOOLEAN, starting : BOOLEAN, running : BOOLEAN, cheats : BOOLEAN,
          bootInstalled : BOOLEAN, services : BOOLEAN, callbacks : BOOLEAN]
Sessions == [state : {"none", "lobby", "starting", "running"},
             boot : BOOLEAN, attached : BOOLEAN]
Screens == [screen : {"none", "setup", "connecting", "lobby", "inMatch"},
            polling : BOOLEAN, requested : BOOLEAN,
            host : {"new", "held", "leaving", "dropped", "freed"}]
Threads == [pc : GameSteps \cup {"none", "done"}, cheats : BOOLEAN]
Jobs == {"begin", "poll", "attach", "finish", "end"}
Blocks == {"began", "boot", "showLobby", "showMatch", "ended", "endDone"}

\* The types of the variables.
TypeOK ==
    /\ flags \in Flags
    /\ game \in Threads
    /\ runtime \in [pointer : BOOLEAN, stop : BOOLEAN]
    /\ session \in Sessions
    /\ netplay \in Seq(Jobs)
    /\ mainq \in Seq(Blocks)
    /\ main \in {"free", "begin", "end", "drop"}
    /\ ui \in Screens
    /\ matches \in 0..MaxMatches

\* A job waits in the netplay queue.
Queued(job) == \E i \in DOMAIN netplay : netplay[i] = job

\* Where the game thread is while each of the two pointers is set.
Publishing == {"checking", "attaching", "waitAttach", "booting", "run", "finishing",
               "waitFinish", "notifying", "clearing"}
PointerFollowsThread == runtime.pointer => game.pc \in Publishing

\* A session is attached only while the game thread is in its match.
AttachedFollowsThread ==
    session.attached => HasSession /\ game.pc \in {"booting", "run", "finishing", "waitFinish"}

\* The game thread waits for the one block it has handed to the netplay queue.
Handed == {"attach", "finish"}
OneBlockHanded ==
    /\ Queued("attach") => game.pc = "waitAttach"
    /\ Queued("finish") => game.pc = "waitFinish"
    /\ \A i, j \in DOMAIN netplay : netplay[i] \in Handed /\ netplay[j] \in Handed => i = j

\* A host that has asked to leave begins nothing any more, so that an end is
\* the last thing the queue does with the session.
Left == {"leaving", "dropped", "freed"}
EndIsLast ==
    /\ Queued("end") \/ main = "end" => ui.host \in Left
    /\ main = "begin" => ui.host = "held"
    /\ \A i, j \in DOMAIN netplay : netplay[i] = "end" /\ netplay[j] = "begin" => j < i

\* Local codes are forbidden from the moment a session is asked for, and the
\* thread that could have read the flag before was joined.
CodesForbidden ==
    /\ main = "begin" => ~flags.cheats
    /\ HasSession \/ Queued("begin") =>
          ~flags.cheats /\ (game.pc # "none" => ~game.cheats)

\* The inductive invariant.
HostInv == /\ TypeOK /\ PointerFollowsThread /\ AttachedFollowsThread
           /\ OneBlockHanded /\ EndIsLast /\ CodesForbidden

-----------------------------------------------------------------------------
(* The netplay queue.                                                      *)

\* The block taken is the first, and the others stay in their order.
LEMMA TakenJob ==
    ASSUME TypeOK, NEW job, NetplayJob(job)
    PROVE  /\ Queued(job) /\ 1 \in DOMAIN netplay /\ netplay[1] = job
           /\ netplay' \in Seq(Jobs)
           /\ \A i \in DOMAIN netplay' :
                 i + 1 \in DOMAIN netplay /\ netplay'[i] = netplay[i + 1] /\ i \in Nat /\ i > 0
  <1>1. netplay \in Seq(Jobs) /\ netplay # << >> /\ Head(netplay) = job /\ netplay' = Tail(netplay)
    BY DEF NetplayJob, TypeOK
  <1>2. /\ Len(netplay) \in Nat \ {0} /\ DOMAIN netplay = 1..Len(netplay)
        /\ netplay[1] = job
    BY <1>1, EmptySeq, LenProperties
  <1>3. /\ netplay' \in Seq(Jobs) /\ Len(netplay') = Len(netplay) - 1
        /\ \A i \in 1..Len(netplay') : netplay'[i] = netplay[i + 1]
    BY <1>1, HeadTailProperties
  <1>4. DOMAIN netplay' = 1..Len(netplay')
    BY <1>3, LenProperties
  <1>. QED
    BY <1>2, <1>3, <1>4 DEF Queued

\* A block added is the last.
LEMMA AddedJob ==
    ASSUME TypeOK, NEW job \in Jobs, netplay' = Append(netplay, job)
    PROVE  /\ netplay' \in Seq(Jobs)
           /\ \E n \in DOMAIN netplay' :
                 /\ n \in Nat /\ netplay'[n] = job
                 /\ \A i \in DOMAIN netplay' :
                       \/ i = n
                       \/ i \in DOMAIN netplay /\ netplay'[i] = netplay[i] /\ i \in Nat /\ i < n
  <1>1. netplay \in Seq(Jobs)
    BY DEF TypeOK
  <1>2. /\ netplay' \in Seq(Jobs) /\ Len(netplay') = Len(netplay) + 1
        /\ \A i \in 1..Len(netplay) : netplay'[i] = netplay[i]
        /\ netplay'[Len(netplay) + 1] = job
    BY <1>1, AppendProperties
  <1>3. /\ Len(netplay) \in Nat
        /\ DOMAIN netplay = 1..Len(netplay) /\ DOMAIN netplay' = 1..Len(netplay')
    BY <1>1, <1>2, LenProperties
  <1>. QED
    BY <1>2, <1>3

-----------------------------------------------------------------------------
(* Types.                                                                  *)

\* What the main thread's own operations leave behind.
LEMMA StartTypes ==
    ASSUME TypeOK, StartWithGameRoot
    PROVE  /\ flags' \in Flags
           /\ game' \in Threads
  <1>1. CASE StartIgnored
    BY <1>1 DEF TypeOK, StartWithGameRoot
  <1>2. CASE ~StartIgnored
    <2>1. flags' \in Flags
      BY <1>2 DEF TypeOK, StartWithGameRoot, Flags
    <2>2. game' = [pc |-> "reading", cheats |-> FALSE]
      BY <1>2 DEF StartWithGameRoot
    <2>3. "reading" \in GameSteps
      BY DEF GameSteps
    <2>. QED
      BY <2>1, <2>2, <2>3 DEF Threads
  <1>. QED
    BY <1>1, <1>2

\* A step of the game thread within runGameWithGameRoot.
LEMMA ToType ==
    ASSUME TypeOK, NEW pc \in GameSteps \cup {"none", "done"}, To(pc)
    PROVE  game' \in Threads /\ game'.pc = pc /\ game'.cheats = game.cheats
  BY DEF TypeOK, To, Threads

\* stop writes a flag of the runtime only.
LEMMA StopTypes ==
    ASSUME TypeOK, NEW then \in {"begin", "end", "drop"}, NEW f \in Flags, Stop(then, f)
    PROVE  /\ flags' \in Flags
           /\ runtime' \in [pointer : BOOLEAN, stop : BOOLEAN]
           /\ main' \in {"free", "begin", "end", "drop"}
           /\ UNCHANGED <<game, session, netplay, mainq, matches>>
  BY DEF TypeOK, Stop, Flags

\* The game thread keeps the types.
LEMMA GameThreadTypes == TypeOK /\ GameThread => TypeOK'
  <1> SUFFICES ASSUME TypeOK, GameThread PROVE TypeOK'
    OBVIOUS
  <1>1. game' \in Threads
    <2>1. CASE ReadCheats
      BY <2>1 DEF TypeOK, Flags, Threads, GameSteps, ReadCheats
    <2>2. CASE ~ReadCheats
      BY <2>2, ToType DEF GameThread, GameSteps, CreateRuntime, PublishRuntime, CheckStop, HandAttach,
                    HandFinish, Hand, OpenPipes, NotifyEnded, ClearRuntime, ThreadEnds
    <2>. QED
      BY <2>1, <2>2
  <1>2. runtime' \in [pointer : BOOLEAN, stop : BOOLEAN]
    BY DEF TypeOK, GameThread, ReadCheats, CreateRuntime, PublishRuntime, CheckStop, HandAttach,
           HandFinish, Hand, OpenPipes, NotifyEnded, ClearRuntime, PointerCleared, ThreadEnds
  <1>3. flags' \in Flags
    BY DEF TypeOK, Flags, GameThread, ReadCheats, CreateRuntime, PublishRuntime, CheckStop,
           HandAttach, HandFinish, Hand, OpenPipes, NotifyEnded, ClearRuntime, ThreadEnds
  <1>4. netplay' \in Seq(Jobs)
    BY AddedJob DEF TypeOK, Jobs, GameThread, ReadCheats, CreateRuntime, PublishRuntime, CheckStop,
                    HandAttach, HandFinish, Hand, OpenPipes, NotifyEnded, ClearRuntime, ThreadEnds
  <1>5. mainq' \in Seq(Blocks)
    BY AppendProperties
       DEF TypeOK, Blocks, GameThread, ReadCheats, CreateRuntime, PublishRuntime, CheckStop,
           HandAttach, HandFinish, Hand, OpenPipes, NotifyEnded, ClearRuntime, ThreadEnds
  <1>6. UNCHANGED <<session, main, ui, matches>>
    BY DEF GameThread, ReadCheats, CreateRuntime, PublishRuntime, CheckStop, HandAttach,
           HandFinish, Hand, OpenPipes, NotifyEnded, ClearRuntime, ThreadEnds
  <1>. QED
    BY <1>1, <1>2, <1>3, <1>4, <1>5, <1>6 DEF TypeOK

\* So does every block of the netplay queue,
LEMMA NetplayQueueTypes == TypeOK /\ NetplayQueue => TypeOK'
  <1> SUFFICES ASSUME TypeOK, NetplayQueue PROVE TypeOK'
    OBVIOUS
  <1>1. netplay' \in Seq(Jobs)
    BY TakenJob DEF NetplayQueue, BeginNetplay, PollNetplay, AttachRuntime, FinishRuntime,
                    EndNetplay
  <1>2. \A b \in Blocks : Append(mainq, b) \in Seq(Blocks)
    BY AppendProperties DEF TypeOK
  <1>3. CASE BeginNetplay
    BY <1>1, <1>2, <1>3 DEF TypeOK, Flags, Sessions, Blocks, BeginNetplay, NewSession, NoSession
  <1>4. CASE PollNetplay
    <2>1. mainq' \in Seq(Blocks)
      <3>1. \A a, b \in Seq(Blocks) : mainq \o a \o b \in Seq(Blocks)
        BY ConcatProperties DEF TypeOK
      <3>2. << >> \in Seq(Blocks) /\ \A b \in Blocks : <<b>> \in Seq(Blocks)
        BY EmptySeq, SequenceEmptyOrAppend
      <3>. QED
        BY <1>4, <3>1, <3>2 DEF PollNetplay, Blocks
    <2>. QED
      BY <1>1, <1>4, <2>1 DEF TypeOK, Flags, Sessions, PollNetplay, TakesBoot, HasSession
  <1>5. CASE AttachRuntime
    BY <1>1, <1>5 DEF TypeOK, Sessions, GameSteps, Threads, To, AttachRuntime
  <1>6. CASE FinishRuntime
    <2>1. flags' \in Flags
      BY <1>6 DEF TypeOK, Flags, FinishRuntime
    <2>2. session' \in Sessions
      BY <1>6 DEF TypeOK, Sessions, FinishRuntime, Detached
    <2>. QED
      BY <1>1, <1>6, <2>1, <2>2 DEF TypeOK, GameSteps, Threads, To, FinishRuntime
  <1>7. CASE EndNetplay
    <2>1. flags' \in Flags
      BY <1>7 DEF TypeOK, Flags, EndNetplay
    <2>2. mainq' \in Seq(Blocks)
      BY <1>2, <1>7 DEF Blocks, EndNetplay
    <2>. QED
      BY <1>1, <1>7, <2>1, <2>2 DEF TypeOK, Sessions, EndNetplay, NoSession
  <1>. QED
    BY <1>3, <1>4, <1>5, <1>6, <1>7 DEF NetplayQueue

\* every block of the main queue,
LEMMA MainQueueTypes == TypeOK /\ MainQueue => TypeOK'
  <1> SUFFICES ASSUME TypeOK, MainQueue PROVE TypeOK'
    OBVIOUS
  <1>1. ASSUME NEW b, MainJob(b) PROVE mainq' \in Seq(Blocks)
    BY <1>1, HeadTailProperties DEF TypeOK, MainJob
  <1>2. CASE Began
    BY <1>1, <1>2 DEF TypeOK, Screens, Began
  <1>3. CASE BootMatch
    <2>1. ui' \in Screens
      BY <1>3 DEF TypeOK, Screens, BootMatch
    <2>. QED
      BY <1>1, <1>3, <2>1, StartTypes DEF TypeOK, BootMatch
  <1>4. CASE ShowSnapshot
    <2>1. ui' \in Screens
      BY <1>4 DEF TypeOK, Screens, ShowSnapshot
    <2>. QED
      BY <1>1, <1>4, <2>1 DEF TypeOK, ShowSnapshot
  <1>5. CASE MatchEnded
    <2>1. ui' \in Screens
      BY <1>5 DEF TypeOK, Screens, MatchEnded
    <2>2. flags' \in Flags
      BY <1>5 DEF TypeOK, Flags, MatchEnded
    <2>. QED
      BY <1>1, <1>5, <2>1, <2>2 DEF TypeOK, MatchEnded
  <1>6. CASE EndDone
    <2>1. ui' \in Screens /\ flags' \in Flags
      BY <1>6 DEF TypeOK, Screens, Flags, EndDone
    <2>. QED
      BY <1>1, <1>6, <2>1 DEF TypeOK, EndDone
  <1>. QED
    BY <1>2, <1>3, <1>4, <1>5, <1>6 DEF MainQueue

\* and everything the user does.
LEMMA UserTypes == TypeOK /\ User => TypeOK'
  <1> SUFFICES ASSUME TypeOK, User PROVE TypeOK'
    OBVIOUS
  <1>1. CASE OpenOnlinePlay \/ ReturnToGame
    BY <1>1 DEF TypeOK, Flags, Screens, OpenOnlinePlay, ReturnToGame
  <1>2. CASE HostOrJoin
    <2>1. ForbidsCodes(flags) \in Flags
      BY DEF TypeOK, Flags, ForbidsCodes
    <2>2. ui' \in Screens
      BY <1>2 DEF TypeOK, Screens, HostOrJoin
    <2>. QED
      BY <1>2, <2>1, <2>2, StopTypes DEF TypeOK, HostOrJoin
  <1>3. CASE PollTimer
    <2>1. netplay' \in Seq(Jobs)
      BY <1>3, AddedJob DEF Jobs, PollTimer
    <2>. QED
      BY <1>3, <2>1 DEF TypeOK, PollTimer
  <1>4. CASE Cancel
    <2>1. ui' \in Screens
      BY <1>4 DEF TypeOK, Screens, Cancel
    <2>2. CASE ui.requested
      BY <1>4, <2>1, <2>2, StopTypes DEF TypeOK, Cancel
    <2>3. CASE ~ui.requested
      BY <1>4, <2>1, <2>3 DEF TypeOK, Cancel
    <2>. QED
      BY <2>2, <2>3
  <1>5. CASE ExitToHome
    <2>1. ui' \in Screens
      BY <1>5 DEF TypeOK, Screens, ExitToHome
    <2>. QED
      BY <1>5, <2>1, StopTypes DEF TypeOK, ExitToHome
  <1>. QED
    BY <1>1, <1>2, <1>3, <1>4, <1>5 DEF User

LEMMA NextTypes == TypeOK /\ [Next]_vars => TypeOK'
  <1> SUFFICES ASSUME TypeOK, [Next]_vars PROVE TypeOK'
    OBVIOUS
  <1>1. CASE StartSolo
    BY <1>1, StartTypes DEF TypeOK, Screens, StartSolo
  <1>2. CASE Join
    <2>1. main = "drop" \/ main \in Jobs
      BY <1>2 DEF TypeOK, Join, Free, Jobs
    <2>2. netplay' \in Seq(Jobs)
      BY <1>2, <2>1, AddedJob DEF TypeOK, Join
    <2>3. flags' \in Flags /\ ui' \in Screens
      BY <1>2 DEF TypeOK, Flags, Screens, Join
    <2>. QED
      BY <1>2, <2>2, <2>3 DEF TypeOK, Threads, To, Join
  <1>3. CASE RunReturns
    BY <1>3 DEF TypeOK, GameSteps, Threads, To, RunReturns
  <1>4. CASE PeerStops
    BY <1>4 DEF TypeOK, PeerStops
  <1>5. CASE BootArrives
    <2>1. matches' \in 0..MaxMatches
      BY <1>5, HostAssumption DEF TypeOK, BootArrives
    <2>. QED
      BY <1>5, <2>1 DEF TypeOK, Sessions, BootArrives
  <1>6. CASE Dealloc
    <2>1. flags' \in Flags /\ ui' \in Screens
      BY <1>6 DEF TypeOK, Flags, Screens, Dealloc
    <2>. QED
      BY <1>6, <2>1 DEF TypeOK, Sessions, Threads, To, NoSession, Dealloc
  <1>7. CASE UNCHANGED vars
    BY <1>7 DEF TypeOK, vars
  <1>. QED
    BY <1>1, <1>2, <1>3, <1>4, <1>5, <1>6, <1>7, GameThreadTypes, NetplayQueueTypes, MainQueueTypes, UserTypes
       DEF Next

-----------------------------------------------------------------------------
(* The game thread and the pointers to its runtime.                        *)

\* Only the game thread publishes and takes back the pointer.
LEMMA PointerNext == TypeOK /\ PointerFollowsThread /\ [Next]_vars => PointerFollowsThread'
  <1> SUFFICES ASSUME TypeOK, PointerFollowsThread, [Next]_vars, runtime'.pointer
               PROVE  game'.pc \in Publishing
    BY DEF PointerFollowsThread, Publishing
  <1> USE DEF TypeOK, Threads, PointerFollowsThread, Publishing
  <1>1. CASE StartSolo \/ MainQueue
    BY <1>1 DEF StartSolo, MainQueue, Began, BootMatch, ShowSnapshot, MatchEnded, EndDone,
                StartWithGameRoot, StartIgnored, Joinable
  <1>2. CASE Join \/ Dealloc
    BY <1>2 DEF Join, Dealloc, Alive, GameSteps
  <1>3. CASE ReadCheats \/ CreateRuntime \/ PublishRuntime \/ CheckStop
    BY <1>3 DEF ReadCheats, CreateRuntime, PublishRuntime, CheckStop, To
  <1>4. CASE HandAttach \/ OpenPipes \/ HandFinish \/ RunReturns
    BY <1>4 DEF HandAttach, HandFinish, Hand, OpenPipes, RunReturns, To
  <1>5. CASE NotifyEnded \/ ClearRuntime \/ ThreadEnds
    BY <1>5 DEF NotifyEnded, ClearRuntime, PointerCleared, ThreadEnds, To
  <1>6. CASE NetplayQueue
    BY <1>6 DEF NetplayQueue, BeginNetplay, PollNetplay, AttachRuntime, FinishRuntime,
                EndNetplay, To
  <1>7. CASE User
    BY <1>7 DEF User, OpenOnlinePlay, HostOrJoin, PollTimer, ReturnToGame, Cancel, ExitToHome, Stop
  <1>8. CASE BootArrives \/ PeerStops \/ UNCHANGED vars
    BY <1>8 DEF BootArrives, PeerStops, vars
  <1>. QED
    BY <1>1, <1>2, <1>3, <1>4, <1>5, <1>6, <1>7, <1>8 DEF Next, GameThread

\* Only attach_runtime sets the session's pointer, and the block that takes it
\* back runs before the thread goes on.
LEMMA AttachedNext == TypeOK /\ AttachedFollowsThread /\ [Next]_vars => AttachedFollowsThread'
  <1> SUFFICES ASSUME TypeOK, AttachedFollowsThread, [Next]_vars, session'.attached
               PROVE  /\ session'.state # "none"
                      /\ game'.pc \in {"booting", "run", "finishing", "waitFinish"}
    BY DEF AttachedFollowsThread, HasSession
  <1> USE DEF TypeOK, Threads, Sessions, AttachedFollowsThread, HasSession
  <1>1. CASE StartSolo \/ MainQueue
    BY <1>1 DEF StartSolo, MainQueue, Began, BootMatch, ShowSnapshot, MatchEnded, EndDone,
                StartWithGameRoot, StartIgnored, Joinable
  <1>2. CASE Join \/ Dealloc
    BY <1>2 DEF Join, Dealloc, NoSession, Alive, GameSteps
  <1>3. CASE ReadCheats \/ CreateRuntime \/ PublishRuntime \/ CheckStop
    BY <1>3 DEF ReadCheats, CreateRuntime, PublishRuntime, CheckStop, To
  <1>4. CASE HandAttach \/ OpenPipes \/ HandFinish \/ RunReturns
    BY <1>4 DEF HandAttach, HandFinish, Hand, OpenPipes, RunReturns, To
  <1>5. CASE NotifyEnded \/ ClearRuntime \/ ThreadEnds
    BY <1>5 DEF NotifyEnded, ClearRuntime, ThreadEnds, To
  <1>6. CASE BeginNetplay \/ PollNetplay \/ EndNetplay
    <2>1. NewSession.attached = FALSE
      BY DEF NewSession, NoSession
    <2>2. CASE BeginNetplay
      BY <2>1, <2>2 DEF BeginNetplay
    <2>3. CASE PollNetplay
      BY <2>3 DEF PollNetplay
    <2>4. CASE EndNetplay
      BY <2>4 DEF EndNetplay, NoSession
    <2>. QED
      BY <1>6, <2>2, <2>3, <2>4
  <1>7. CASE AttachRuntime \/ FinishRuntime
    BY <1>7 DEF AttachRuntime, FinishRuntime, Detached, To
  <1>8. CASE User
    BY <1>8 DEF User, OpenOnlinePlay, HostOrJoin, PollTimer, ReturnToGame, Cancel, ExitToHome, Stop
  <1>9. CASE BootArrives \/ PeerStops \/ UNCHANGED vars
    BY <1>9 DEF BootArrives, PeerStops, vars
  <1>. QED
    BY <1>1, <1>2, <1>3, <1>4, <1>5, <1>6, <1>7, <1>8, <1>9 DEF Next, GameThread, NetplayQueue

-----------------------------------------------------------------------------
(* What a step makes of the netplay queue.                                 *)

\* What a step makes of the netplay queue.
Taken(job) ==
    /\ Queued(job) /\ 1 \in DOMAIN netplay /\ netplay[1] = job
    /\ \A i \in DOMAIN netplay' :
          i + 1 \in DOMAIN netplay /\ netplay'[i] = netplay[i + 1] /\ i \in Nat /\ i > 0
Added(job) ==
    \E n \in DOMAIN netplay' :
        /\ n \in Nat /\ netplay'[n] = job
        /\ \A i \in DOMAIN netplay' :
              \/ i = n
              \/ i \in DOMAIN netplay /\ netplay'[i] = netplay[i] /\ i \in Nat /\ i < n
QueueStays == netplay' = netplay

\* The steps that add to the queue or take from it; no other step does.
LEMMA QueueSteps ==
    ASSUME TypeOK, [Next]_vars
    PROVE  \/ QueueStays /\ ~NetplayQueue
           \/ Added("attach") /\ HandAttach
           \/ Added("finish") /\ HandFinish
           \/ Added("poll") /\ PollTimer
           \/ main \in {"begin", "end"} /\ Added(main) /\ Join
           \/ Taken("begin") /\ BeginNetplay
           \/ Taken("poll") /\ PollNetplay
           \/ Taken("attach") /\ AttachRuntime
           \/ Taken("finish") /\ FinishRuntime
           \/ Taken("end") /\ EndNetplay
  <1>1. \A job : NetplayJob(job) => Taken(job)
    BY TakenJob DEF Taken
  <1>2. \A job \in Jobs : netplay' = Append(netplay, job) => Added(job)
    BY AddedJob DEF Added
  <1>3. CASE NetplayQueue
    BY <1>1, <1>3 DEF NetplayQueue, BeginNetplay, PollNetplay, AttachRuntime, FinishRuntime,
                      EndNetplay
  <1>4. CASE HandAttach \/ HandFinish \/ PollTimer
    BY <1>2, <1>4 DEF HandAttach, HandFinish, Hand, PollTimer, Jobs
  <1>5. CASE Join
    BY <1>2, <1>3, <1>5 DEF Join, Jobs, TypeOK, Free, QueueStays
  <1>6. CASE QueueStays
    BY <1>3, <1>6
  <1>7. \/ NetplayQueue \/ HandAttach \/ HandFinish \/ PollTimer \/ Join
        \/ QueueStays
    BY DEF Next, vars, StartSolo, MainQueue, Began, BootMatch, ShowSnapshot, MatchEnded, EndDone,
           Dealloc, GameThread, ReadCheats, CreateRuntime, PublishRuntime, CheckStop, OpenPipes,
           RunReturns, NotifyEnded, ClearRuntime, ThreadEnds, User, OpenOnlinePlay, HostOrJoin,
           ReturnToGame, Cancel, ExitToHome, Stop, BootArrives, PeerStops, QueueStays
  <1>. QED
    BY <1>3, <1>4, <1>5, <1>6, <1>7

\* A thread that waits for its block is moved by nothing else.
LEMMA WaitingThread ==
    ASSUME TypeOK, [Next]_vars, ~NetplayQueue, game.pc \in {"waitAttach", "waitFinish"}
    PROVE  game' = game
  <1>1. Joinable /\ Alive
    BY DEF Joinable, Alive, GameSteps
  <1>2. CASE StartSolo \/ MainQueue
    BY <1>1, <1>2 DEF StartSolo, MainQueue, Began, BootMatch, ShowSnapshot, MatchEnded, EndDone,
                      StartWithGameRoot, StartIgnored
  <1>3. CASE GameThread \/ RunReturns
    BY <1>3 DEF GameThread, ReadCheats, CreateRuntime, PublishRuntime, CheckStop, HandAttach,
                HandFinish, Hand, OpenPipes, RunReturns, NotifyEnded, ClearRuntime, ThreadEnds
  <1>4. CASE User
    BY <1>4 DEF User, OpenOnlinePlay, HostOrJoin, PollTimer, ReturnToGame, Cancel, ExitToHome, Stop
  <1>. QED
    BY <1>1, <1>2, <1>3, <1>4 DEF Next, Join, Dealloc, BootArrives, PeerStops, vars

\* attach and finish are handed over by the thread that then waits for them.
LEMMA HandedNext == TypeOK /\ OneBlockHanded /\ [Next]_vars => OneBlockHanded'
  <1> DEFINE queued(job) == \E i \in DOMAIN netplay' : netplay'[i] = job
             after == /\ queued("attach") => game'.pc = "waitAttach"
                      /\ queued("finish") => game'.pc = "waitFinish"
                      /\ \A i, j \in DOMAIN netplay' :
                            netplay'[i] \in Handed /\ netplay'[j] \in Handed => i = j
  <1> SUFFICES ASSUME TypeOK, OneBlockHanded, [Next]_vars PROVE after
    BY DEF OneBlockHanded, Queued
  <1>1. ASSUME NEW job \in {"begin", "poll", "end"},
               Added(job) \/ Taken(job) \/ QueueStays,
               game.pc \in {"waitAttach", "waitFinish"} => game' = game
        PROVE  after
    <2>1. \A h \in Handed : queued(h) => Queued(h)
      BY <1>1 DEF Added, Taken, QueueStays, Queued, Handed
    <2>2. \A i, j \in DOMAIN netplay' :
             netplay'[i] \in Handed /\ netplay'[j] \in Handed => i = j
      <3>1. CASE Added(job) \/ QueueStays
        BY <1>1, <3>1 DEF Added, QueueStays, Handed, OneBlockHanded
      <3>2. CASE Taken(job)
        BY <3>2 DEF Taken, OneBlockHanded
      <3>. QED
        BY <1>1, <3>1, <3>2
    <2>. QED
      BY <1>1, <2>1, <2>2 DEF OneBlockHanded, Handed
  <1>2. ASSUME NEW job \in Handed, Added(job),
               ~Queued("attach") /\ ~Queued("finish"),
               game'.pc = IF job = "attach" THEN "waitAttach" ELSE "waitFinish"
        PROVE  after
    BY <1>2 DEF Added, Queued, Handed
  <1>3. ASSUME NEW job \in Handed, Taken(job) PROVE after
    BY <1>3 DEF Taken, Queued, OneBlockHanded, Handed
  <1>4. CASE QueueStays /\ ~NetplayQueue
    BY <1>1, <1>4, WaitingThread
  <1>5. CASE \/ Added("attach") /\ HandAttach
             \/ Added("finish") /\ HandFinish
    BY <1>2, <1>5 DEF HandAttach, HandFinish, Hand, To, OneBlockHanded, Handed, TypeOK, Threads
  <1>6. CASE Added("poll") /\ PollTimer
    BY <1>1, <1>6 DEF PollTimer
  <1>7. CASE main \in {"begin", "end"} /\ Added(main) /\ Join
    BY <1>1, <1>7 DEF Join, Alive, GameSteps
  <1>8. CASE \/ Taken("begin") /\ BeginNetplay
             \/ Taken("poll") /\ PollNetplay
             \/ Taken("end") /\ EndNetplay
    BY <1>1, <1>8 DEF BeginNetplay, PollNetplay, EndNetplay
  <1>9. CASE Taken("attach") \/ Taken("finish")
    BY <1>3, <1>9 DEF Handed
  <1> HIDE DEF after
  <1>. QED
    BY <1>4, <1>5, <1>6, <1>7, <1>8, <1>9, QueueSteps

-----------------------------------------------------------------------------
(* Sessions begin and end.                                                 *)

\* leave is the last thing a host asks of the queue.
LEMMA EndNext == TypeOK /\ EndIsLast /\ [Next]_vars => EndIsLast'
  <1> DEFINE queued(job) == \E i \in DOMAIN netplay' : netplay'[i] = job
             inOrder == \A i, j \in DOMAIN netplay' :
                           netplay'[i] = "end" /\ netplay'[j] = "begin" => j < i
  <1> SUFFICES ASSUME TypeOK, EndIsLast, [Next]_vars
               PROVE  /\ queued("end") \/ main' = "end" => ui'.host \in Left
                      /\ main' = "begin" => ui'.host = "held"
                      /\ inOrder
    BY DEF EndIsLast, Queued
  \* A host that has left stays so.
  <1>1. ui.host \in Left => ui'.host \in Left
    <2>1. CASE StartSolo \/ MainQueue
      BY <2>1 DEF TypeOK, Screens, Left, StartSolo, MainQueue, Began, BootMatch, ShowSnapshot,
                  MatchEnded, EndDone
    <2>2. CASE User
      BY <2>2 DEF TypeOK, Screens, Left, User, OpenOnlinePlay, HostOrJoin, PollTimer, ReturnToGame,
                  Cancel, ExitToHome, Held
    <2>3. CASE Join \/ Dealloc
      BY <2>3 DEF TypeOK, Screens, Left, Join, Dealloc
    <2>4. CASE ui' = ui
      BY <2>4
    <2>5. StartSolo \/ MainQueue \/ User \/ Join \/ Dealloc \/ ui' = ui
      BY DEF Next, vars, GameThread, ReadCheats, CreateRuntime, PublishRuntime, CheckStop,
             HandAttach, HandFinish, Hand, OpenPipes, RunReturns, NotifyEnded, ClearRuntime,
             ThreadEnds, NetplayQueue, BeginNetplay, PollNetplay, AttachRuntime, FinishRuntime,
             EndNetplay, BootArrives, PeerStops
    <2>. QED
      BY <2>1, <2>2, <2>3, <2>4, <2>5
  \* What main may be waiting for after the step.
  <1>2. \/ main' = "free" \/ main' = main
        \/ main' = "begin" /\ HostOrJoin
        \/ main' = "end" /\ Cancel /\ ui.requested
        \/ main' = "drop"
    BY DEF Next, vars, StartSolo, Join, MainQueue, Began, BootMatch, ShowSnapshot, MatchEnded,
           EndDone, Dealloc, GameThread, ReadCheats, CreateRuntime, PublishRuntime, CheckStop,
           HandAttach, HandFinish, Hand, OpenPipes, RunReturns, NotifyEnded, ClearRuntime,
           ThreadEnds, NetplayQueue, BeginNetplay, PollNetplay, AttachRuntime, FinishRuntime,
           EndNetplay, User, OpenOnlinePlay, HostOrJoin, PollTimer, ReturnToGame, Cancel,
           ExitToHome, Stop, BootArrives, PeerStops
  <1>3. main = "begin" => main' = "free" \/ ui' = ui
    BY DEF Next, vars, StartSolo, Join, MainQueue, Began, BootMatch, ShowSnapshot, MatchEnded,
           EndDone, Dealloc, GameThread, ReadCheats, CreateRuntime, PublishRuntime, CheckStop,
           HandAttach, HandFinish, Hand, OpenPipes, RunReturns, NotifyEnded, ClearRuntime,
           ThreadEnds, NetplayQueue, BeginNetplay, PollNetplay, AttachRuntime, FinishRuntime,
           EndNetplay, User, OpenOnlinePlay, HostOrJoin, PollTimer, ReturnToGame, Cancel,
           ExitToHome, Held, MainJob, Free, BootArrives, PeerStops
  <1>4. main' = "begin" => ui'.host = "held"
    <2>1. HostOrJoin => ui'.host = "held"
      BY DEF HostOrJoin, Held, TypeOK, Screens
    <2>. QED
      BY <1>2, <1>3, <2>1 DEF EndIsLast
  <1>5. main' = "end" => ui'.host \in Left
    <2>1. Cancel /\ ui.requested => ui'.host \in Left
      BY DEF Cancel, Left, TypeOK, Screens
    <2>. QED
      BY <1>1, <1>2, <2>1 DEF EndIsLast
  \* A block other than begin and end, and a block taken, keep the order.
  <1>6. ASSUME NEW job \in {"poll", "attach", "finish"}, Added(job)
        PROVE  (queued("end") => Queued("end")) /\ inOrder
    BY <1>6 DEF Added, Queued, EndIsLast
  <1>7. ASSUME NEW job \in Jobs, Taken(job)
        PROVE  (queued("end") => Queued("end")) /\ inOrder
    <2>1. queued("end") => Queued("end")
      BY <1>7 DEF Taken, Queued
    <2>2. ASSUME NEW i \in DOMAIN netplay', NEW j \in DOMAIN netplay',
                 netplay'[i] = "end", netplay'[j] = "begin"
          PROVE  j < i
      <3>1. /\ i + 1 \in DOMAIN netplay /\ netplay[i + 1] = "end" /\ i \in Nat
            /\ j + 1 \in DOMAIN netplay /\ netplay[j + 1] = "begin" /\ j \in Nat
        BY <1>7, <2>2 DEF Taken
      <3>2. j + 1 < i + 1
        BY <3>1 DEF EndIsLast
      <3>. QED
        BY <3>1, <3>2
    <2>. QED
      BY <2>1, <2>2
  <1>8. ASSUME main = "begin", Added("begin")
        PROVE  (queued("end") => Queued("end")) /\ inOrder
    <2>1. ~Queued("end")
      BY <1>8 DEF EndIsLast, Left
    <2>2. ~queued("end")
      BY <1>8, <2>1 DEF Added, Queued
    <2>. QED
      BY <2>2
  <1>9. ASSUME main = "end", Added("end")
        PROVE  ui.host \in Left /\ inOrder
    BY <1>9 DEF Added, EndIsLast
  <1>10. (queued("end") => ui.host \in Left) /\ inOrder
    <2>1. CASE QueueStays
      BY <2>1 DEF QueueStays, EndIsLast, Queued
    <2>2. CASE \/ \E job \in {"poll", "attach", "finish"} : Added(job)
               \/ \E job \in Jobs : Taken(job)
               \/ main = "begin" /\ Added("begin")
      BY <1>6, <1>7, <1>8, <2>2 DEF EndIsLast
    <2>3. CASE main = "end" /\ Added("end")
      BY <1>9, <2>3
    <2> HIDE DEF queued, inOrder
    <2>. QED
      BY <2>1, <2>2, <2>3, QueueSteps DEF Jobs
  <1>. QED
    BY <1>1, <1>4, <1>5, <1>10

-----------------------------------------------------------------------------
(* Local codes.                                                            *)

\* Only end_netplay allows them again.
LEMMA CodesAllowed ==
    ASSUME TypeOK, [Next]_vars, flags'.cheats
    PROVE  flags.cheats \/ EndNetplay
  <1> USE DEF TypeOK, Flags
  <1>1. CASE StartSolo \/ MainQueue
    BY <1>1 DEF StartSolo, MainQueue, Began, BootMatch, ShowSnapshot, MatchEnded, EndDone,
                StartWithGameRoot
  <1>2. CASE Join \/ Dealloc
    BY <1>2 DEF Join, Dealloc
  <1>3. CASE GameThread \/ RunReturns
    BY <1>3 DEF GameThread, ReadCheats, CreateRuntime, PublishRuntime, CheckStop, HandAttach,
                HandFinish, Hand, OpenPipes, RunReturns, NotifyEnded, ClearRuntime, ThreadEnds
  <1>4. CASE NetplayQueue
    BY <1>4 DEF NetplayQueue, BeginNetplay, PollNetplay, AttachRuntime, FinishRuntime
  <1>5. CASE User
    BY <1>5 DEF User, OpenOnlinePlay, HostOrJoin, PollTimer, ReturnToGame, Cancel, ExitToHome, Stop,
                ForbidsCodes
  <1>6. CASE BootArrives \/ PeerStops \/ UNCHANGED vars
    BY <1>6 DEF BootArrives, PeerStops, vars
  <1>. QED
    BY <1>1, <1>2, <1>3, <1>4, <1>5, <1>6 DEF Next

\* A thread has the flag it read, or has not read it yet.
LEMMA CodesRead ==
    ASSUME TypeOK, OneBlockHanded, [Next]_vars
    PROVE  \/ game'.pc = "none" \/ ~game'.cheats
           \/ game.pc # "none" /\ game'.cheats = game.cheats
           \/ game' = game
           \/ game'.cheats = flags.cheats
  <1> USE DEF TypeOK, Threads
  <1>1. CASE StartSolo \/ MainQueue
    BY <1>1 DEF StartSolo, MainQueue, Began, BootMatch, ShowSnapshot, MatchEnded, EndDone,
                StartWithGameRoot
  <1>2. CASE Join \/ Dealloc
    BY <1>2 DEF Join, Dealloc, To
  <1>3. CASE GameThread \/ RunReturns
    BY <1>3 DEF GameThread, ReadCheats, CreateRuntime, PublishRuntime, CheckStop, HandAttach,
                HandFinish, Hand, OpenPipes, RunReturns, NotifyEnded, ClearRuntime, ThreadEnds, To
  <1>4. CASE BeginNetplay \/ PollNetplay \/ EndNetplay
    BY <1>4 DEF BeginNetplay, PollNetplay, EndNetplay
  <1>5. CASE AttachRuntime \/ FinishRuntime
    <2>1. game.pc \in {"waitAttach", "waitFinish"}
      BY <1>5, TakenJob DEF AttachRuntime, FinishRuntime, OneBlockHanded
    <2>. QED
      BY <1>5, <2>1 DEF AttachRuntime, FinishRuntime, To
  <1>6. CASE User
    BY <1>6 DEF User, OpenOnlinePlay, HostOrJoin, PollTimer, ReturnToGame, Cancel, ExitToHome, Stop
  <1>7. CASE BootArrives \/ PeerStops \/ UNCHANGED vars
    BY <1>7 DEF BootArrives, PeerStops, vars
  <1>. QED
    BY <1>1, <1>2, <1>3, <1>4, <1>5, <1>6, <1>7 DEF Next, NetplayQueue

\* A session is made of a begin that was queued.
LEMMA SessionBegins ==
    ASSUME TypeOK, [Next]_vars, session'.state # "none"
    PROVE  HasSession \/ BeginNetplay
  <1> USE DEF TypeOK, Sessions, HasSession
  <1>1. CASE NetplayQueue
    <2>1. CASE PollNetplay
      BY <2>1 DEF PollNetplay
    <2>2. CASE AttachRuntime \/ FinishRuntime
      BY <2>2 DEF AttachRuntime, FinishRuntime
    <2>3. CASE EndNetplay
      BY <2>3 DEF EndNetplay, NoSession
    <2>. QED
      BY <1>1, <2>1, <2>2, <2>3 DEF NetplayQueue
  <1>2. CASE BootArrives \/ Dealloc
    BY <1>2 DEF BootArrives, Dealloc, NoSession
  <1>3. CASE session' = session
    BY <1>3
  <1>. QED
    BY <1>1, <1>2, <1>3
       DEF Next, vars, StartSolo, Join, MainQueue, Began, BootMatch, ShowSnapshot, MatchEnded,
           EndDone, GameThread, ReadCheats, CreateRuntime, PublishRuntime, CheckStop,
           HandAttach, HandFinish, Hand, OpenPipes, RunReturns, NotifyEnded, ClearRuntime,
           ThreadEnds, User, OpenOnlinePlay, HostOrJoin, PollTimer, ReturnToGame, Cancel,
           ExitToHome, Stop, PeerStops

\* Codes come back only when no session is left or asked for.
LEMMA CodesNext == TypeOK /\ OneBlockHanded /\ EndIsLast /\ CodesForbidden /\ [Next]_vars
                      => CodesForbidden'
  <1> DEFINE queued == \E i \in DOMAIN netplay' : netplay'[i] = "begin"
  <1> SUFFICES ASSUME TypeOK, OneBlockHanded, EndIsLast, CodesForbidden, [Next]_vars
               PROVE  /\ main' = "begin" => ~flags'.cheats
                      /\ session'.state # "none" \/ queued =>
                            ~flags'.cheats /\ (game'.pc # "none" => ~game'.cheats)
    BY DEF CodesForbidden, HasSession, Queued
  <1>1. EndNetplay => Taken("end")
    BY TakenJob DEF EndNetplay, Taken
  <1>2. ASSUME main' = "begin" PROVE ~flags'.cheats
    <2>1. main = "begin" \/ (HostOrJoin /\ ~flags'.cheats)
      <3>1. HostOrJoin => ~flags'.cheats
        BY DEF HostOrJoin, Stop, ForbidsCodes, TypeOK, Flags
      <3>. QED
        BY <1>2, <3>1
           DEF Next, vars, StartSolo, Join, MainQueue, Began, BootMatch, ShowSnapshot, MatchEnded,
               EndDone, Dealloc, GameThread, ReadCheats, CreateRuntime, PublishRuntime, CheckStop,
               HandAttach, HandFinish, Hand, OpenPipes, RunReturns, NotifyEnded, ClearRuntime,
               ThreadEnds, NetplayQueue, BeginNetplay, PollNetplay, AttachRuntime, FinishRuntime,
               EndNetplay, User, OpenOnlinePlay, PollTimer, ReturnToGame, Cancel, ExitToHome, Stop,
               BootArrives, PeerStops
    <2>2. main = "begin" => ~EndNetplay
      BY <1>1 DEF Taken, EndIsLast, Left
    <2>. QED
      BY <2>1, <2>2, CodesAllowed DEF CodesForbidden
  <1>3. ASSUME session'.state # "none" \/ queued
        PROVE  ~flags'.cheats /\ (game'.pc # "none" => ~game'.cheats)
    <2>1. ~EndNetplay
      <3>1. ASSUME EndNetplay PROVE FALSE
        <4>1. session'.state = "none" /\ Taken("end")
          BY <1>1, <3>1 DEF EndNetplay, NoSession
        <4>2. PICK i \in DOMAIN netplay' : netplay'[i] = "begin"
          BY <1>3, <4>1
        <4>3. /\ i + 1 \in DOMAIN netplay /\ netplay[i + 1] = "begin" /\ i \in Nat /\ i > 0
              /\ 1 \in DOMAIN netplay /\ netplay[1] = "end"
          BY <4>1, <4>2 DEF Taken
        <4>. QED
          BY <4>3 DEF EndIsLast
      <3>. QED
        BY <3>1
    <2>2. CASE Join /\ main = "begin"
      BY <2>1, <2>2, CodesAllowed DEF CodesForbidden, Join, To, TypeOK, Threads
    <2>3. CASE ~(Join /\ main = "begin")
      <3>1. queued => Queued("begin")
        <4>1. \A job : Taken(job) => (queued => Queued("begin"))
          BY DEF Taken, Queued
        <4>2. \A job \in {"attach", "finish", "poll", "end"} :
                 Added(job) => (queued => Queued("begin"))
          BY DEF Added, Queued
        <4>3. QueueStays => (queued => Queued("begin"))
          BY DEF QueueStays, Queued
        <4> HIDE DEF queued
        <4>. QED
          BY <2>3, <4>1, <4>2, <4>3, QueueSteps
      <3>2. BeginNetplay => Queued("begin")
        BY TakenJob DEF BeginNetplay
      <3>3. HasSession \/ Queued("begin")
        BY <1>3, <3>1, <3>2, SessionBegins
      <3>4. ~flags.cheats /\ (game.pc # "none" => ~game.cheats)
        BY <3>3 DEF CodesForbidden
      <3>. QED
        BY <2>1, <3>4, CodesAllowed, CodesRead
    <2>. QED
      BY <2>2, <2>3
  <1>. QED
    BY <1>2, <1>3

-----------------------------------------------------------------------------
(* The theorems.                                                           *)

\* The invariant holds in every state.
LEMMA HostInvAlways == Spec => []HostInv
  <1>1. Init => HostInv
    <2> SUFFICES ASSUME Init PROVE HostInv
      OBVIOUS
    <2>1. << >> \in Seq(Jobs) /\ << >> \in Seq(Blocks) /\ DOMAIN << >> = {}
      BY EmptySeq
    <2>2. TypeOK
      BY <2>1, HostAssumption DEF Init, TypeOK, Flags, Threads, Sessions, Screens, NoSession
    <2>. QED
      BY <2>1, <2>2 DEF Init, HostInv, PointerFollowsThread, AttachedFollowsThread, OneBlockHanded,
                        EndIsLast, CodesForbidden, NoSession, HasSession, Queued
  <1>2. HostInv /\ [Next]_vars => HostInv'
    BY NextTypes, PointerNext, AttachedNext, HandedNext, EndNext, CodesNext DEF HostInv
  <1>. QED
    BY <1>1, <1>2, PTL DEF Spec

\* Neither stop, on the main thread, nor a peer's message ever reaches a
\* runtime that is gone, whenever in its life the game is stopped, ends by
\* itself, or is started again.
THEOREM HandlesNeverOutliveRuntime == Spec => []RuntimeHandlesLive
  <1>1. HostInv => RuntimeHandlesLive
    BY DEF HostInv, PointerFollowsThread, Publishing, AttachedFollowsThread, RuntimeHandlesLive,
           RuntimeExists, Alive, GameSteps
  <1>. QED
    BY <1>1, HostInvAlways, PTL

\* However an offline game, a session and its matches follow one another on one
\* host, the runtime a session is attached to read its flag after the join that
\* made the session.
THEOREM NetplayNeverRunsCodes == Spec => []NetplayWithoutCodes
  <1>1. HostInv => NetplayWithoutCodes
    BY DEF HostInv, AttachedFollowsThread, CodesForbidden, NetplayWithoutCodes
  <1>. QED
    BY <1>1, HostInvAlways, PTL
=============================================================================
