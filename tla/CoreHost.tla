------------------------------- MODULE CoreHost -------------------------------
(***************************************************************************)
(* One MeleePadCoreHost (apple/ios/MeleePadCoreHost.mm): the game thread   *)
(* with its ModernGekko runtime, the serial netplay queue with its         *)
(* NetplaySession, and the main thread, which runs the user's commands and *)
(* the blocks of the main queue, as MeleePadGameViewController.mm drives   *)
(* them.                                                                   *)
(*                                                                         *)
(* The main thread blocks only in stop, on the game thread's join; the     *)
(* game thread blocks only on blocks it hands to the netplay queue.  The   *)
(* runtime and the session are external: Create may fail, the game may end *)
(* by itself, the peers decide when boot data arrives.  RequestStop is     *)
(* taken to make Run return even when it comes before Run, as stop assumes *)
(* when it joins.                                                          *)
(***************************************************************************)
EXTENDS Naturals, Sequences

CONSTANTS
    MaxMatches,  \* bound: boot data the peers send
    MaxPolls     \* bound: polls whose completion has not run

ASSUME HostAssumption == MaxMatches \in Nat /\ MaxPolls \in Nat

VARIABLES
    flags,    \* _stopRequested, _starting, _running, _allowOfflineCheats,
              \* _netplayBootInstalled, _netplayServicesActive, callbacks set
    game,     \* the game thread: where it is, and the cheats flag it has read
    runtime,  \* whether _runtime points to the runtime, and whether it is asked to stop
    session,  \* _netplaySession: its state, its boot data and its runtime pointer
    netplay,  \* _netplayQueue
    mainq,    \* the main queue's blocks of this host
    main,     \* the main thread: free, or what follows the join it waits for in stop
    ui,       \* the view controller: screen, poll timer, session requested, the host itself
    matches   \* boot data the peers have sent

vars == <<flags, game, runtime, session, netplay, mainq, main, ui, matches>>

NoSession == [state |-> "none", boot |-> FALSE, attached |-> FALSE]
NewSession == [NoSession EXCEPT !.state = "lobby"]
HasSession == session.state # "none"

GameSteps == {"reading", "creating", "created", "checking", "attaching", "waitAttach",
              "booting", "run", "finishing", "waitFinish", "notifying", "clearing", "exiting"}

\* joinable(): a thread is until stop joins it, also when it has ended.
Joinable == game.pc # "none"
Alive == game.pc \in GameSteps

\* created.runtime, the object, lives from Create until the end of the thread's scope.
RuntimeExists == Alive /\ game.pc \notin {"reading", "creating", "exiting"}

Free == main = "free"

Init ==
    /\ flags = [stopRequested |-> FALSE, starting |-> FALSE, running |-> FALSE, cheats |-> TRUE,
                bootInstalled |-> FALSE, services |-> FALSE, callbacks |-> FALSE]
    /\ game = [pc |-> "none", cheats |-> FALSE]
    /\ runtime = [pointer |-> FALSE, stop |-> FALSE]
    /\ session = NoSession
    /\ netplay = <<>> /\ mainq = <<>> /\ main = "free"
    /\ ui = [screen |-> "none", polling |-> FALSE, requested |-> FALSE, host |-> "new"]
    /\ matches = 0

To(pc) == game' = [game EXCEPT !.pc = pc]

-----------------------------------------------------------------------------
(* The main thread: startWithGameRoot and stop.                            *)

StartIgnored == flags.running \/ flags.starting \/ Joinable

\* Nothing happens when a thread was not joined yet.
StartWithGameRoot ==
    IF StartIgnored
      THEN UNCHANGED <<flags, game>>
      ELSE /\ flags' = [flags EXCEPT !.stopRequested = FALSE, !.starting = TRUE]
           /\ game' = [pc |-> "reading", cheats |-> FALSE]

\* startGameIfProvisioned, once for a new host.
StartSolo ==
    /\ Free /\ ui.host = "new"
    /\ StartWithGameRoot
    /\ ui' = [ui EXCEPT !.host = "held"]
    /\ UNCHANGED <<runtime, session, netplay, mainq, main, matches>>

\* stop up to its join; what its caller does after it is kept in main.
Stop(then, f) ==
    /\ flags' = [f EXCEPT !.stopRequested = TRUE]
    /\ runtime' = [runtime EXCEPT !.stop = @ \/ runtime.pointer]
    /\ main' = then
    /\ UNCHANGED <<game, session, netplay, mainq, matches>>

\* The join returns; the caller queues its block or drops the host.
Join ==
    /\ ~Free /\ ~Alive
    /\ To("none")
    /\ flags' = [flags EXCEPT !.starting = FALSE, !.running = FALSE]
    /\ netplay' = IF main = "drop" THEN netplay ELSE Append(netplay, main)
    /\ ui' = IF main = "drop" THEN [ui EXCEPT !.host = "dropped"] ELSE ui
    /\ main' = "free"
    /\ UNCHANGED <<runtime, session, mainq, matches>>

-----------------------------------------------------------------------------
(* runGameWithGameRoot, on the game thread.                                *)

ReadCheats ==
    /\ game.pc = "reading"
    /\ game' = [pc |-> "creating", cheats |-> flags.cheats]
    /\ UNCHANGED <<flags, runtime, session, netplay, mainq, main, ui, matches>>

CreateRuntime ==
    /\ game.pc = "creating"
    /\ \/ To("created") /\ runtime' = [runtime EXCEPT !.stop = FALSE] /\ UNCHANGED flags
       \/ To("done") /\ flags' = [flags EXCEPT !.starting = FALSE] /\ UNCHANGED runtime
    /\ UNCHANGED <<session, netplay, mainq, main, ui, matches>>

PublishRuntime ==
    /\ game.pc = "created"
    /\ To("checking")
    /\ runtime' = [runtime EXCEPT !.pointer = TRUE]
    /\ UNCHANGED <<flags, session, netplay, mainq, main, ui, matches>>

NeverStops == FALSE            \* mutant: a stop during Create is not looked for
StopsEarly == flags.stopRequested

CheckStop ==
    /\ game.pc = "checking"
    /\ IF StopsEarly
         THEN /\ To("done")
              /\ runtime' = [runtime EXCEPT !.pointer = FALSE]
              /\ flags' = [flags EXCEPT !.starting = FALSE]
         ELSE /\ To("attaching")
              /\ flags' = [flags EXCEPT !.starting = FALSE, !.running = TRUE]
              /\ UNCHANGED runtime
    /\ UNCHANGED <<session, netplay, mainq, main, ui, matches>>

\* dispatch_sync: the thread waits until the queue has run its block.
Hand(from, to, job) ==
    /\ game.pc = from
    /\ To(to)
    /\ netplay' = Append(netplay, job)
    /\ UNCHANGED <<flags, runtime, session, mainq, main, ui, matches>>

HandAttach == Hand("attaching", "waitAttach", "attach")
HandFinish == Hand("finishing", "waitFinish", "finish")

\* The input pipes are opened, or given up when stop was requested.
OpenPipes ==
    /\ game.pc = "booting"
    /\ To("run")
    /\ UNCHANGED <<flags, runtime, session, netplay, mainq, main, ui, matches>>

\* Run returns because it was asked to, or because the game ended by itself.
RunReturns ==
    /\ game.pc = "run"
    /\ To("finishing")
    /\ UNCHANGED <<flags, runtime, session, netplay, mainq, main, ui, matches>>

EndsQuietly == FALSE           \* mutant: the end of a match is not reported
ReportsEnd == HasSession /\ flags.callbacks

NotifyEnded ==
    /\ game.pc = "notifying"
    /\ To("clearing")
    /\ mainq' = IF ReportsEnd THEN Append(mainq, "ended") ELSE mainq
    /\ UNCHANGED <<flags, runtime, session, netplay, main, ui, matches>>

PointerCleared == [runtime EXCEPT !.pointer = FALSE]

ClearRuntime ==
    /\ game.pc = "clearing"
    /\ To("exiting")
    /\ runtime' = PointerCleared
    /\ UNCHANGED <<flags, session, netplay, mainq, main, ui, matches>>

ThreadEnds ==
    /\ game.pc = "exiting"
    /\ To("done")
    /\ flags' = [flags EXCEPT !.running = FALSE, !.starting = FALSE]
    /\ UNCHANGED <<runtime, session, netplay, mainq, main, ui, matches>>

GameThread ==
    \/ ReadCheats \/ CreateRuntime \/ PublishRuntime \/ CheckStop \/ HandAttach
    \/ OpenPipes \/ HandFinish \/ NotifyEnded \/ ClearRuntime \/ ThreadEnds

-----------------------------------------------------------------------------
(* The netplay queue: one block at a time.                                 *)

NetplayJob(job) == netplay # <<>> /\ Head(netplay) = job /\ netplay' = Tail(netplay)

\* A session that exists is not replaced; Create may fail.  The completion that
\* these two get only shows its message on the connecting screen, which the user
\* can then only leave: it changes no state that is kept here.
BeginNetplay ==
    /\ NetplayJob("begin")
    /\ IF HasSession
         THEN UNCHANGED <<flags, session, mainq>>
         ELSE \/ /\ session' = NewSession
                 /\ flags' = [flags EXCEPT !.services = TRUE]
                 /\ mainq' = Append(mainq, "began")
              \/ /\ flags' = [flags EXCEPT !.services = FALSE]
                 /\ UNCHANGED <<session, mainq>>
    /\ UNCHANGED <<game, runtime, main, ui, matches>>

TakesBoot == HasSession /\ ~flags.bootInstalled /\ session.boot

\* The snapshot is what the session was before its boot data is taken.
PollNetplay ==
    /\ NetplayJob("poll")
    /\ session' = IF TakesBoot THEN [session EXCEPT !.boot = FALSE] ELSE session
    /\ flags' = [flags EXCEPT !.bootInstalled = @ \/ TakesBoot]
    /\ mainq' = mainq \o (IF TakesBoot THEN <<"boot">> ELSE <<>>)
                      \o (CASE session.state = "none" -> <<>>
                            [] session.state = "running" -> <<"showMatch">>
                            [] OTHER -> <<"showLobby">>)
    /\ UNCHANGED <<game, runtime, main, ui, matches>>

AttachRuntime ==
    /\ NetplayJob("attach")
    /\ session' = IF HasSession THEN [session EXCEPT !.attached = TRUE, !.state = "running"]
                                ELSE session
    /\ To("booting")
    /\ UNCHANGED <<flags, runtime, mainq, main, ui, matches>>

StillAttached == [session EXCEPT !.state = "lobby"]  \* mutant: FinishRuntime keeps the runtime
Detached == [session EXCEPT !.state = "lobby", !.attached = FALSE]

FinishRuntime ==
    /\ NetplayJob("finish")
    /\ IF HasSession
         THEN session' = Detached /\ flags' = [flags EXCEPT !.bootInstalled = FALSE]
         ELSE UNCHANGED <<session, flags>>
    /\ To("notifying")
    /\ UNCHANGED <<runtime, mainq, main, ui, matches>>

\* NetplaySession's Stop forgets the runtime and does not ask it to stop.
EndNetplay ==
    /\ NetplayJob("end")
    /\ session' = NoSession
    /\ flags' = [flags EXCEPT !.bootInstalled = FALSE, !.callbacks = FALSE,
                              !.services = FALSE, !.cheats = TRUE]
    /\ mainq' = Append(mainq, "endDone")
    /\ UNCHANGED <<game, runtime, main, ui, matches>>

NetplayQueue == BeginNetplay \/ PollNetplay \/ AttachRuntime \/ FinishRuntime \/ EndNetplay

-----------------------------------------------------------------------------
(* The main queue's blocks.                                                *)

MainJob(job) == Free /\ mainq # <<>> /\ Head(mainq) = job /\ mainq' = Tail(mainq)

Began ==
    /\ MainJob("began")
    /\ ui' = [ui EXCEPT !.polling = TRUE]
    /\ UNCHANGED <<flags, game, runtime, session, netplay, main, matches>>

\* startWithGameRoot, then onNetplayMatchStarted, whether or not a thread was started.
BootMatch ==
    /\ MainJob("boot")
    /\ StartWithGameRoot
    /\ ui' = IF flags.callbacks THEN [ui EXCEPT !.polling = FALSE, !.screen = "none"] ELSE ui
    /\ UNCHANGED <<runtime, session, netplay, main, matches>>

ShowSnapshot ==
    \E s \in {"showLobby", "showMatch"} :
        /\ MainJob(s)
        /\ ui' = IF ui.screen = "none" THEN ui
                 ELSE [ui EXCEPT !.screen = IF s = "showLobby" THEN "lobby" ELSE "inMatch"]
        /\ UNCHANGED <<flags, game, runtime, session, netplay, main, matches>>

\* onNetplayMatchEnded presents Online Play again and polls.
MatchEnded ==
    /\ MainJob("ended")
    /\ IF ui.requested /\ ui.screen = "none"
         THEN /\ ui' = [ui EXCEPT !.screen = "setup", !.polling = TRUE]
              /\ flags' = [flags EXCEPT !.callbacks = TRUE]
         ELSE UNCHANGED <<ui, flags>>
    /\ UNCHANGED <<game, runtime, session, netplay, main, matches>>

EndDone ==
    /\ MainJob("endDone")
    /\ ui' = [ui EXCEPT !.host = "dropped"]
    /\ flags' = [flags EXCEPT !.callbacks = FALSE]
    /\ UNCHANGED <<game, runtime, session, netplay, main, matches>>

MainQueue == Began \/ BootMatch \/ ShowSnapshot \/ MatchEnded \/ EndDone

-----------------------------------------------------------------------------
(* The user and the poll timer, on the main thread.                        *)

Held == Free /\ ui.host = "held"

OpenOnlinePlay ==
    /\ Held /\ ui.screen = "none"
    /\ ui' = [ui EXCEPT !.screen = "setup", !.polling = @ \/ ui.requested]
    /\ flags' = [flags EXCEPT !.callbacks = TRUE]
    /\ UNCHANGED <<game, runtime, session, netplay, mainq, main, matches>>

KeepsCodes(f) == f             \* mutant: local codes are left allowed
ForbidsCodes(f) == [f EXCEPT !.cheats = FALSE]

HostOrJoin ==
    /\ Held /\ ui.screen = "setup"
    /\ Stop("begin", ForbidsCodes(flags))
    /\ ui' = [ui EXCEPT !.requested = TRUE, !.screen = "connecting"]

OfPoll(job) == job \in {"poll", "showLobby", "showMatch"}

PollTimer ==
    /\ Held /\ ui.polling /\ ui.screen # "none"
    /\ Len(SelectSeq(netplay \o mainq, OfPoll)) < MaxPolls
    /\ netplay' = Append(netplay, "poll")
    /\ UNCHANGED <<flags, game, runtime, session, mainq, main, ui, matches>>

ReturnToGame ==
    /\ Held /\ ui.screen = "inMatch"
    /\ ui' = [ui EXCEPT !.polling = FALSE, !.screen = "none"]
    /\ UNCHANGED <<flags, game, runtime, session, netplay, mainq, main, matches>>

\* endNetplay follows only when a session was asked for.
Cancel ==
    /\ Held /\ ui.screen # "none"
    /\ ui' = [ui EXCEPT !.polling = FALSE, !.screen = "none", !.requested = FALSE,
                        !.host = IF ui.requested THEN "leaving" ELSE @]
    /\ IF ui.requested
         THEN Stop("end", flags)
         ELSE UNCHANGED <<flags, game, runtime, session, netplay, mainq, main, matches>>

ExitToHome ==
    /\ Held /\ ui.screen = "none"
    /\ ui' = [ui EXCEPT !.polling = FALSE, !.requested = FALSE]
    /\ Stop("drop", flags)

\* The last reference is gone: no block and no thread holds the host.
Dealloc ==
    /\ ui.host = "dropped" /\ Free /\ ~Alive /\ netplay = <<>> /\ mainq = <<>>
    /\ ui' = [ui EXCEPT !.host = "freed"]
    /\ session' = NoSession
    /\ flags' = [flags EXCEPT !.services = FALSE]
    /\ To("none")
    /\ UNCHANGED <<runtime, netplay, mainq, main, matches>>

User ==
    \/ OpenOnlinePlay \/ HostOrJoin \/ PollTimer \/ ReturnToGame \/ Cancel \/ ExitToHome

-----------------------------------------------------------------------------
(* The peers, through the session's own threads: the host starts a match   *)
(* (requestNetplayStart, here or on a peer), and a peer ends it.           *)

BootArrives ==
    /\ session.state = "lobby" /\ matches < MaxMatches
    /\ session' = [session EXCEPT !.state = "starting", !.boot = TRUE]
    /\ matches' = matches + 1
    /\ UNCHANGED <<flags, game, runtime, netplay, mainq, main, ui>>

PeerStops ==
    /\ session.attached /\ ~runtime.stop
    /\ runtime' = [runtime EXCEPT !.stop = TRUE]
    /\ UNCHANGED <<flags, game, session, netplay, mainq, main, ui, matches>>

Next ==
    \/ StartSolo \/ Join \/ GameThread \/ RunReturns \/ NetplayQueue \/ MainQueue
    \/ User \/ Dealloc \/ BootArrives \/ PeerStops

Spec == Init /\ [][Next]_vars

\* Threads and queues run; Run returns once it is asked to; the user and the peers
\* owe nothing.
Fairness ==
    /\ WF_vars(Join) /\ WF_vars(GameThread) /\ WF_vars(runtime.stop /\ RunReturns)
    /\ WF_vars(NetplayQueue) /\ WF_vars(MainQueue)

FairSpec == Spec /\ Fairness

-----------------------------------------------------------------------------
(* Properties.                                                             *)

\* Neither _runtime, which stop uses from the main thread, nor the session's runtime
\* pointer, which peers' messages use, outlives the runtime object.
RuntimeHandlesLive == runtime.pointer \/ session.attached => RuntimeExists

\* "Netplay never runs local codes": a runtime the session is attached to was configured
\* from a cheats flag read as false, whatever offline game ran or ended before.
NetplayWithoutCodes == session.attached => ~game.cheats

\* stop, which blocks the main thread on the game thread's join, always returns: a
\* stop is seen at whatever point of its start the thread is.
StopReturns == ~Free ~> Free

\* "If the runtime itself exits, MeleePad reopens the room": a match's end brings the
\* connected screen back, unless the user has left.
EndReopensRoom ==
    (game.pc = "notifying" /\ HasSession /\ ui.requested) ~> (ui.screen # "none" \/ ~ui.requested)

\* "The match callback fires only after ... the netplay runtime has started"
\* (MeleePadCoreHost.h): the block that fires it leaves a game thread at work.
MatchCallbackHasRuntime == [][BootMatch /\ flags.callbacks => Alive']_vars

=============================================================================
