------------------------------ MODULE SlippiLab ------------------------------
(***************************************************************************)
(* The scripts of the Slippi laboratory (scripts/*slippi*.py).  Each is    *)
(* run by hand, one at a time.  It admits its inputs by their hashes and   *)
(* by what the results.json of earlier scripts recorded, copies and        *)
(* compiles sources, runs children with a time limit, hashes inputs again  *)
(* and writes its own results.json.  The next script rests on that.        *)
(*                                                                         *)
(* What the scripts check is a table, one row per script; the steps they   *)
(* share follow it.  A file stands for a group of files that every script  *)
(* treats alike, and its version for their hashes: 0 is the version that   *)
(* the repository's locks pin.  Files change between any two steps, but    *)
(* go back to the pinned version only while no script runs.                *)
(***************************************************************************)
EXTENDS Integers, Sequences

CONSTANTS
    Plans  \* bounds: the scripts the operator runs, how many of them once more,
           \* which files change how often, and the ticks of every time limit

ASSUME LabAssumption ==
    \A p \in Plans : {p.reruns, p.edits} \subseteq Nat /\ p.slices \in Nat \ {0}

-----------------------------------------------------------------------------
(* The rows.  Admission, before the output directory is made:              *)
(*   evidence   the scripts whose results.json is read                     *)
(*   first      those of them of which only the first run must have passed *)
(*   unchanged  those of them that must also have found inputs unchanged   *)
(*   chain      <<a, b>>: the result of a must name the result of b        *)
(*   locks      <<s, f>>: what s recorded of f must be the pinned version  *)
(*   pinned     files that must have the pinned version                    *)
(*   equal      <<f, s, g>>: f must be what s recorded of g                *)
(*   hashes     files whose hash is kept                                   *)

Open == [evidence |-> {}, first |-> {}, unchanged |-> {}, chain |-> {},
         locks |-> {}, pinned |-> {}, equal |-> {}, hashes |-> {}]

\* Preparation and build:
\*   copies  what goes into the overlay; locked says that it is then compared
\*           with the lock
\*   hashes  files whose hash is kept after that
\*   reads   what compilers and the linker read
\*   fresh   products made anew, carries <<p, f>>: p is a copy of f
Plain == [copies |-> {}, locked |-> FALSE, hashes |-> {}, reads |-> {},
          fresh |-> {}, carries |-> {}]

\* The runs: steps that start children and wait, what the children read,
\* whether a child that fails ends the script, and how it cleans up.  holds says
\* from when on the cleanup knows a child: "run" from its start, by
\* subprocess.run; "each" once it is appended to a list; "all" when the list of
\* a step is complete.
NoRuns == [steps |-> <<>>, reads |-> {}, strict |-> TRUE, holds |-> "run", cleanup |-> "kill"]

\* The end: again are the pairs <<f, g>> where f must be what was kept of g,
\* last the files that are hashed only now.  The script gives no verdict of its
\* runs, and succeeds when it gets here, or one, or one of each step.
Silent == [again |-> {}, last |-> {}, verdict |-> "none"]

Start(children, until) == [start |-> children, until |-> until]
Recorded(files, s) == {<<f, s, f>> : f \in files}
Same(files) == {<<f, f>> : f \in files}

\* probe-slippi-peer.py: three cycles of two peers, which are started by a
\* comprehension before the try.
peerAdmits == [Open EXCEPT !.pinned = {"upstream"}]
peerBuilds == [Plain EXCEPT !.copies = {"upstream", "adapter"}, !.hashes = {"libs"},
                            !.reads = {"libs", "harness"}]
peerRuns == LET cycle == Start({"player 0", "player 1"}, "all")
            IN [NoRuns EXCEPT !.steps = <<cycle, cycle, cycle>>, !.strict = FALSE,
                              !.holds = "all"]
peerConcludes == [again |-> Same({"libs"}), last |-> {"adapter", "harness"}, verdict |-> "one"]

\* probe-slippi-resources.py
resourcesAdmits == [Open EXCEPT !.pinned = {"upstream", "core"}]
resourcesBuilds == [Plain EXCEPT !.copies = {"upstream", "core", "adapter"}, !.hashes = {"libs"},
                                 !.reads = {"upstream", "libs", "harness"}]
resourcesRuns == [NoRuns EXCEPT !.steps = <<Start({"probe"}, "all")>>]
resourcesConcludes == [again |-> Same({"libs"}), last |-> {"adapter", "harness"}, verdict |-> "one"]

\* probe-slippi-exi.py.  Of the Rust checkout only HEAD is compared.
exiAdmits == [Open EXCEPT !.pinned = {"upstream", "core", "rustHead"}, !.hashes = {"rustlib"}]
exiBuilds == [Plain EXCEPT !.copies = {"upstream", "core", "adapter"}, !.locked = TRUE,
                           !.hashes = {"libs"}, !.fresh = {"overlay", "deps"},
                           !.reads = {"upstream", "rust", "rustlib", "libs", "harness"}]
exiRuns == [NoRuns EXCEPT !.steps = <<Start({"probe"}, "all")>>]
exiConcludes == [again |-> Same({"libs"}), last |-> {"adapter", "harness", "rust"}, verdict |-> "one"]

\* probe-slippi-boot.py, with game restoration and two modes, the first of them
\* "required".
bootAdmits == [Open EXCEPT !.evidence = {"exi"}, !.unchanged = {"exi"}, !.locks = {<<"exi", "adapter">>},
                           !.pinned = {"overlay", "core", "upstream"},
                           !.equal = Recorded({"rustlib", "rust"}, "exi"),
                           !.hashes = {"dol", "iso", "module", "rustlib"}]
bootBuilds == [Plain EXCEPT !.copies = {"overlay", "core", "bootPatch"}, !.locked = TRUE,
                            !.hashes = {"libs", "deps"}, !.fresh = {"bootOverlay"},
                            !.reads = {"core", "upstream", "rust", "rustlib", "libs", "deps", "harness"}]
bootRuns == LET mode == Start({"game"}, "all")
            IN [NoRuns EXCEPT !.steps = <<mode, mode>>, !.strict = FALSE,
                              !.reads = {"dol", "iso", "module", "input"}]

\* mutant: the inputs are hashed only once.
bootConcludesAtOnce == [again |-> Same({"libs"}), last |-> {"input", "harness", "bootPatch"},
                        verdict |-> "each"]

bootConcludes == [again |-> Same({"dol", "iso", "module", "rustlib", "libs"}),
                  last |-> {"input", "harness", "bootPatch"}, verdict |-> "each"]

\* probe-slippi-local-game.py: a fixture and two games.
localAdmits == [Open EXCEPT !.evidence = {"boot"}, !.first = {"boot"},
                            !.equal = Recorded({"harness", "dol", "iso", "module", "libs",
                                                "deps", "rustlib"}, "boot"),
                            !.hashes = {"input"}]
localPatches == {"bootOverlay"}
localMain == {"harness"}
localBuilds == [Plain EXCEPT !.copies = localPatches \cup localMain, !.fresh = {"online"},
                             !.reads = {"libs", "deps", "rustlib"}]
\* mutant: the children are started as those of the peer probe are.
localRunsTogether == [NoRuns EXCEPT !.steps = <<Start({"fixture"}, "ready"), Start({"player 0", "player 1"}, "all")>>,
                            !.strict = FALSE, !.reads = {"dol", "iso", "module", "input"},
                            !.holds = "all"]

localRuns == [NoRuns EXCEPT !.steps = <<Start({"fixture"}, "ready"), Start({"player 0", "player 1"}, "all")>>,
                            !.strict = FALSE, !.reads = {"dol", "iso", "module", "input"},
                            !.holds = "each"]
localConcludes == [again |-> Same({"input"}), last |-> {"online"}, verdict |-> "one"]

\* probe-slippi-ios-link.py
linkAdmits == [Open EXCEPT !.evidence = {"boot"}, !.pinned = {"bootOverlay"},
                           !.equal = Recorded({"harness"}, "boot"), !.hashes = {"ioslibs"}]
linkBuilds == [Plain EXCEPT !.fresh = {"objects"},
                            !.reads = {"bootOverlay", "core", "upstream", "rust", "harness", "ioslibs"}]
linkConcludes == [Silent EXCEPT !.again = Same({"ioslibs"}),
                                !.last = {"objects", "bootOverlay", "core", "harness"}]

\* build-slippi-ios-probe.py.  The iOS module is compared with the result of
\* its own build.
packageAdmits == [Open EXCEPT !.evidence = {"link", "boot"}, !.unchanged = {"link"},
                              !.chain = {<<"link", "boot">>}, !.pinned = {"iosmodule"},
                              !.equal = Recorded({"ioslibs", "objects"}, "link")
                                        \cup Recorded({"iso", "dol", "harness"}, "boot")]
packageBundle == {<<"bundle iso", "iso">>, <<"bundle dol", "dol">>, <<"bundle module", "iosmodule">>}
packageBuilds == [Plain EXCEPT !.copies = {"harness"}, !.carries = packageBundle,
                               !.reads = {"ioslibs", "objects", "bootOverlay", "iso", "dol", "iosmodule"}]
packageConcludes == [Silent EXCEPT !.again = {<<"bundle iso", "iso">>}, !.last = {"bundle module"}]

\* The same with --local-online.
onlineAdmits == [packageAdmits EXCEPT !.evidence = @ \cup {"local"},
                                      !.equal = @ \cup Recorded({"online"}, "local")]
onlineBuilds == [packageBuilds EXCEPT !.reads = @ \cup {"online"}]
onlineConcludes == [packageConcludes EXCEPT !.last = @ \cup {"online"}]

\* mutant: the base app need not rest on the link that is named.
directAdmitsAnyBase ==
    [Open EXCEPT !.evidence = {"link", "online", "boot"}, !.unchanged = {"link"},
                 !.chain = {<<"link", "boot">>},
                 !.equal = Recorded({"ioslibs", "bootOverlay", "core", "harness"}, "link")
                           \cup Recorded({"bundle module", "online"}, "online")
                           \cup {<<"bundle iso", "boot", "iso">>, <<"bundle dol", "boot", "dol">>}]

\* build-slippi-direct-probe.py
directAdmits ==
    [Open EXCEPT !.evidence = {"link", "online", "boot"}, !.unchanged = {"link"},
                 !.chain = {<<"link", "boot">>, <<"online", "link">>},
                 !.equal = Recorded({"ioslibs", "bootOverlay", "core", "harness"}, "link")
                           \cup Recorded({"bundle module", "online"}, "online")
                           \cup {<<"bundle iso", "boot", "iso">>, <<"bundle dol", "boot", "dol">>}]
directPatches == {"bootOverlay"}
directBuilds == [Plain EXCEPT !.copies = directPatches,
                              !.reads = {"core", "online", "ioslibs", "bundle iso", "bundle dol",
                                         "bundle module"}]
directConcludes == [Silent EXCEPT !.again = Same({"ioslibs"})]

\* build-slippi-snapshot-module.py.  The captured memory is read at once and
\* hashed at the end.
snapshotAdmits == [Open EXCEPT !.evidence = {"boot"}, !.first = {"boot"}, !.pinned = {"dol", "ini"},
                               !.equal = Recorded({"dol"}, "boot")]
snapshotCapture == {"ram", "dol", "ini"}
snapshotBuilds == [Plain EXCEPT !.copies = snapshotCapture, !.reads = {"compiler"}]
snapshotConcludes == [Silent EXCEPT !.again = Same({"dol"}), !.last = {"ram", "compiler"}]

\* probe-slippi-hook-compilation.py: failures of compilers are its verdict.
hooksAdmits == [Open EXCEPT !.pinned = {"ini"}]
hooksBuilds == [Plain EXCEPT !.hashes = {"compiler"}, !.reads = {"ini", "compiler"}]
hooksConcludes == [Silent EXCEPT !.verdict = "one"]

\* build-slippi-unfused-module.py
unfusedBuilds == [Plain EXCEPT !.copies = {"core"}, !.reads = {"core"}]
unfusedConcludes == [Silent EXCEPT !.last = {"core"}]

\* run-slippi-reference-lab.py
labBuilds == [Plain EXCEPT !.copies = {"reference"}, !.reads = {"harness", "libs"},
                           !.hashes = {"module", "reference"}]
labRuns == [NoRuns EXCEPT !.steps = <<Start({"fixture"}, "settle"), Start({"controller"}, "ready"),
                                      Start({"native", "reference"}, "any")>>,
                          !.reads = {"module", "reference", "iso"},
                          !.strict = FALSE, !.holds = "each", !.cleanup = "terminate"]

-----------------------------------------------------------------------------
Script == {"peer", "resources", "exi", "boot", "local", "link", "package", "online",
           "direct", "snapshot", "hooks", "unfused", "lab"}

Admits == [peer |-> peerAdmits, resources |-> resourcesAdmits, exi |-> exiAdmits,
           boot |-> bootAdmits, local |-> localAdmits, link |-> linkAdmits,
           package |-> packageAdmits, online |-> onlineAdmits, direct |-> directAdmits,
           snapshot |-> snapshotAdmits, hooks |-> hooksAdmits, unfused |-> Open, lab |-> Open]
Builds == [peer |-> peerBuilds, resources |-> resourcesBuilds, exi |-> exiBuilds,
           boot |-> bootBuilds, local |-> localBuilds, link |-> linkBuilds,
           package |-> packageBuilds, online |-> onlineBuilds, direct |-> directBuilds,
           snapshot |-> snapshotBuilds, hooks |-> hooksBuilds, unfused |-> unfusedBuilds,
           lab |-> labBuilds]
Runs == [s \in Script |->
           CASE s = "peer" -> peerRuns [] s = "resources" -> resourcesRuns
             [] s = "exi" -> exiRuns [] s = "boot" -> bootRuns
             [] s = "local" -> localRuns [] s = "lab" -> labRuns [] OTHER -> NoRuns]
Concludes == [peer |-> peerConcludes, resources |-> resourcesConcludes, exi |-> exiConcludes,
              boot |-> bootConcludes, local |-> localConcludes, link |-> linkConcludes,
              package |-> packageConcludes, online |-> onlineConcludes,
              direct |-> directConcludes, snapshot |-> snapshotConcludes,
              hooks |-> hooksConcludes, unfused |-> unfusedConcludes, lab |-> Silent]

VARIABLES
    plan,     \* of the operator, with the reruns and edits still to come
    version,  \* the files
    script,   \* the script that runs, or "none"
    phase,    \* where it stands
    kept,     \* what it has hashed
    used,     \* the versions that its tools and children have read
    step,     \* the step of its runs
    pending,  \* the children of that step that are not started yet
    alive,    \* its children
    signalled,\* those of the step that gave their signal
    failed,   \* the steps in which one exited with an error
    left,     \* ticks until the limit of the wait
    orphans,  \* the scripts that left a child behind; interrupted: the operator did it
    results   \* every results.json, in order

vars == <<plan, version, script, phase, kept, used, step, pending, alive, signalled, failed,
          left, orphans, results>>
children == <<step, pending, alive, signalled, failed, left, orphans>>

File == {"upstream", "core", "rustHead", "rust", "rustlib", "libs", "ioslibs", "adapter",
         "bootPatch", "harness", "input", "dol", "iso", "module", "iosmodule", "ini",
         "compiler", "reference", "overlay", "deps", "bootOverlay", "ram", "objects",
         "online", "bundle iso", "bundle dol", "bundle module"}

Unhashed == -1

MadeBy(s) == Builds[s].fresh \cup {c[1] : c \in Builds[s].carries}
             \cup (IF s = "boot" THEN {"ram"} ELSE {})

\* A product exists once it is made.
Existing == (File \ UNION {MadeBy(s) : s \in Script})
            \cup UNION {MadeBy(results[i].script) : i \in DOMAIN results}
            \cup (IF phase \in {"built", "launching", "running"} THEN MadeBy(script) ELSE {})
Editable == Existing \cap plan.files

\* The newest result of a script; 0 when it has none.
Latest(s) == LET of == {i \in DOMAIN results : results[i].script = s}
             IN IF of = {} THEN 0 ELSE CHOOSE i \in of : \A j \in of : j <= i

-----------------------------------------------------------------------------
(* The operator and the files.                                             *)

Edit(f) ==
    /\ plan.edits > 0 /\ f \in Editable
    /\ version' = [version EXCEPT ![f] = @ + 1]
    /\ plan' = [plan EXCEPT !.edits = @ - 1]
    /\ used' = IF phase \in {"launching", "running"} /\ alive # {} /\ f \in Runs[script].reads
               THEN [used EXCEPT ![f] = @ \cup {version[f] + 1}] ELSE used
    /\ UNCHANGED <<script, phase, kept, children, results>>

Restore(f) ==
    /\ plan.edits > 0 /\ f \in Editable /\ script = "none" /\ version[f] # 0
    /\ version' = [version EXCEPT ![f] = 0]
    /\ plan' = [plan EXCEPT !.edits = @ - 1]
    /\ UNCHANGED <<script, phase, kept, used, children, results>>

-----------------------------------------------------------------------------
(* One run of a script.                                                    *)

Kept(files) == [f \in File |-> IF f \in files THEN version[f] ELSE kept[f]]
Reading(files) == [f \in File |-> IF f \in files THEN used[f] \cup {version[f]} ELSE used[f]]

\* mutant: files are not compared with what earlier scripts recorded.
AdmissibleByResults(s) ==
    LET A == Admits[s]
        R(e) == results[Latest(e)]
    IN /\ \A e \in A.evidence : Latest(e) # 0 /\ IF e \in A.first THEN R(e).first ELSE R(e).ok
       /\ \A e \in A.unchanged : R(e).unchanged
       /\ \A c \in A.chain : R(c[1]).bases[c[2]] = Latest(c[2])
       /\ \A f \in A.pinned : version[f] = 0

\* A script that refuses its inputs changes nothing.
Admissible(s) ==
    LET A == Admits[s]
        R(e) == results[Latest(e)]
    IN /\ \A e \in A.evidence : Latest(e) # 0 /\ IF e \in A.first THEN R(e).first ELSE R(e).ok
       /\ \A e \in A.unchanged : R(e).unchanged
       /\ \A c \in A.chain : R(c[1]).bases[c[2]] = Latest(c[2])
       /\ \A l \in A.locks : R(l[1]).hashes[l[2]] = 0
       /\ \A f \in A.pinned : version[f] = 0
       /\ \A e \in A.equal : version[e[1]] = R(e[2]).hashes[e[3]]

Admit(s) ==
    /\ script = "none" /\ s \in plan.scripts
    /\ Latest(s) # 0 => plan.reruns > 0
    /\ Admissible(s)
    /\ script' = s /\ phase' = "admitted"
    /\ kept' = Kept(Admits[s].pinned \cup Admits[s].hashes \cup {e[1] : e \in Admits[s].equal})
    /\ plan' = IF Latest(s) = 0 THEN plan ELSE [plan EXCEPT !.reruns = @ - 1]
    /\ UNCHANGED <<version, used, children, results>>

Prepare ==
    LET B == Builds[script]
    IN /\ phase = "admitted"
       /\ B.locked => \A f \in B.copies : version[f] = 0
       /\ used' = Reading(B.copies)
       /\ kept' = Kept(B.hashes)
       /\ phase' = "prepared"
       /\ UNCHANGED <<plan, version, script, children, results>>

Compile ==
    LET B == Builds[script]
    IN /\ phase = "prepared"
       /\ used' = Reading(B.reads)
       /\ version' = [f \in File |->
            IF f \in B.fresh THEN 0
            ELSE IF \E c \in B.carries : c[1] = f
            THEN version[(CHOOSE c \in B.carries : c[1] = f)[2]]
            ELSE version[f]]
       /\ phase' = "built"
       /\ UNCHANGED <<plan, script, kept, children, results>>

Steps == Runs[script].steps
Until == Steps[step].until

BeginStep ==
    /\ phase \in {"built", "next"} /\ step < Len(Steps)
    /\ step' = step + 1 /\ pending' = Steps[step + 1].start /\ signalled' = {}
    /\ phase' = "launching"
    /\ UNCHANGED <<plan, version, script, kept, used, alive, failed, left, orphans, results>>

\* The children of a step are started one after the other.
Launch ==
    /\ phase = "launching"
    /\ \E c \in pending : alive' = alive \cup {c} /\ pending' = pending \ {c}
    /\ used' = Reading(Runs[script].reads)
    /\ UNCHANGED <<plan, version, script, phase, kept, step, signalled, failed, left, orphans, results>>

Await ==
    /\ phase = "launching" /\ pending = {}
    /\ phase' = "running" /\ left' = plan.slices
    /\ UNCHANGED <<plan, version, script, kept, used, step, pending, alive, signalled, failed,
                   orphans, results>>

\* What children do of their own.  The fixture says that it is ready, and the
\* controller that it is ready and, later, that it has finished.
Signal ==
    /\ phase \in {"launching", "running"}
    /\ \E c \in alive \cap {"fixture", "controller"} : signalled' = signalled \cup {c}
    /\ UNCHANGED <<plan, version, script, phase, kept, used, step, pending, alive, failed, left,
                   orphans, results>>

Exit ==
    /\ \E c \in alive : alive' = alive \ {c}
    /\ failed' \in {failed, failed \cup {step}}
    /\ UNCHANGED <<plan, version, script, phase, kept, used, step, pending, signalled, left,
                   orphans, results>>

Tick ==
    /\ left > 0 /\ phase \in {"running", "cleanup"}
    /\ left' = left - 1
    /\ UNCHANGED <<plan, version, script, phase, kept, used, step, pending, alive, signalled,
                   failed, orphans, results>>

\* The wait of a step fails.
Expires ==
    CASE Until = "all" -> left = 0 /\ alive # {}
      [] Until = "ready" -> signalled = {} /\ (alive = {} \/ left = 0)
      [] Until = "settle" -> left = 0 /\ alive = {}
      [] OTHER -> FALSE

\* mutant: the wait for the last children has no limit.
OverWhenExited ==
    CASE Until = "all" -> alive = {}
      [] Until = "ready" -> signalled # {}
      [] Until = "settle" -> left = 0 /\ alive # {}
      [] OTHER -> \/ "controller" \in signalled
                  \/ ~({"reference", "controller"} \subseteq alive)

\* The wait of a step is over.
Over ==
    CASE Until = "all" -> alive = {}
      [] Until = "ready" -> signalled # {}
      [] Until = "settle" -> left = 0 /\ alive # {}
      [] OTHER -> \/ left = 0 \/ "controller" \in signalled
                  \/ ~({"reference", "controller"} \subseteq alive)
                  \/ left = 1 /\ "native" \notin alive

Proceed ==
    /\ phase = "running" /\ Over
    /\ Runs[script].strict => failed = {}
    /\ phase' = IF step < Len(Steps) THEN "next" ELSE "ran"
    /\ UNCHANGED <<plan, version, script, kept, used, children, results>>

\* The script is gone, with what it knew.
End ==
    /\ script' = "none" /\ phase' = "idle"
    /\ kept' = [f \in File |-> Unhashed] /\ used' = [f \in File |-> {}]
    /\ step' = 0 /\ pending' = {} /\ signalled' = {} /\ failed' = {} /\ left' = 0

\* SIGTERM is sent, and some time allowed for it.
Terminate ==
    /\ phase' = "cleanup" /\ left' = plan.slices
    /\ UNCHANGED <<script, kept, used, step, pending, signalled, failed>>

\* An overlay that is not the locked one, a limit that is reached and a probe
\* that fails.
Raises ==
    CASE phase = "admitted" -> Builds[script].locked /\ \E f \in Builds[script].copies : version[f] # 0
      [] phase = "running" -> Expires \/ (Over /\ Runs[script].strict /\ failed # {})
      [] OTHER -> FALSE

\* What the cleanup may not know of: the children of a list that is not yet
\* complete, or one whose start has returned, if an interrupt comes before it is
\* appended.
Unheld(interrupted) ==
    LET started == Steps[step].start \ pending
        holds == Runs[script].holds
    IN CASE phase = "launching" /\ holds = "all" -> {alive}
         [] phase = "launching" /\ holds = "each" /\ interrupted ->
               {{}} \cup {{c} : c \in alive \cap started}
         [] OTHER -> {{}}

\* Nobody waits for these children any more.
Leave(lost, interrupted) ==
    orphans' = orphans \cup {[script |-> script, interrupted |-> interrupted] : c \in lost}

\* An exception, of those or of any command, an anchor, a child that cannot be
\* started or an interrupt: the children are killed, and there is no result.
Abort(interrupted) ==
    /\ phase \in {"admitted", "prepared", "built", "next", "launching", "running"}
    /\ \E lost \in Unheld(interrupted) :
          /\ Leave(lost, interrupted)
          /\ IF alive \ lost # {} /\ Runs[script].cleanup = "terminate"
             THEN Terminate /\ alive' = alive \ lost
             ELSE End /\ alive' = {}
    /\ UNCHANGED <<plan, version, results>>

\* results.json is written, whatever it says; children of the reference
\* laboratory outlive that until they are terminated.
Conclude ==
    LET C == Concludes[script]
        hashes == Kept(C.last)
    IN /\ phase = "ran" \/ (phase = "built" /\ Steps = <<>>)
       /\ \E ok, first \in BOOLEAN :
             /\ C.verdict = "none" => ok
             /\ C.verdict # "none" /\ ok => failed = {}
             /\ IF C.verdict = "each" THEN (ok => first) /\ (first => 1 \notin failed) ELSE first = ok
             /\ results' = Append(results,
                   [script |-> script, ok |-> ok, first |-> first, hashes |-> hashes, used |-> used,
                    bases |-> [e \in Admits[script].evidence |-> Latest(e)],
                    unchanged |-> \A c \in C.again : version[c[1]] = kept[c[2]]])
       /\ IF alive = {} THEN End ELSE Terminate
       /\ UNCHANGED <<plan, version, alive, orphans>>

\* Those that are left get SIGKILL.
Reap ==
    /\ phase = "cleanup"
    /\ alive = {} \/ left = 0
    /\ alive' = {}
    /\ End
    /\ UNCHANGED <<plan, version, orphans, results>>

\* An interrupt while the children are waited for after SIGTERM is not caught.
InterruptCleanup ==
    /\ phase = "cleanup"
    /\ Leave(alive, TRUE) /\ End /\ alive' = {}
    /\ UNCHANGED <<plan, version, results>>

-----------------------------------------------------------------------------
Init ==
    /\ plan \in Plans
    /\ version = [f \in File |-> 0]
    /\ script = "none" /\ phase = "idle"
    /\ kept = [f \in File |-> Unhashed] /\ used = [f \in File |-> {}]
    /\ step = 0 /\ pending = {} /\ alive = {} /\ signalled = {} /\ failed = {} /\ left = 0
    /\ orphans = {} /\ results = <<>>

Fail == Raises /\ Abort(FALSE)
Break == ~Raises /\ (phase = "launching" => pending # {}) /\ Abort(FALSE)
Interrupt == Abort(TRUE) \/ InterruptCleanup

Work == Prepare \/ Compile \/ BeginStep \/ Launch \/ Await \/ Proceed \/ Conclude \/ Reap \/ Fail

Next == \/ \E s \in Script : Admit(s)
        \/ Work \/ Break \/ Interrupt \/ Signal \/ Exit \/ Tick
        \/ \E f \in File : Edit(f) \/ Restore(f)

Spec == Init /\ [][Next]_vars

\* The script runs and time passes; its children owe nothing.
FairSpec == Spec /\ WF_vars(Work) /\ WF_vars(Tick)

-----------------------------------------------------------------------------
(* Properties.                                                             *)

\* What a result of a script speaks for when it says that inputs are unchanged.
Vouched(s) == CASE s \in {"peer", "resources", "exi"} -> {"libs"}
                [] s = "boot" -> {"dol", "iso", "module", "rustlib", "libs"}
                [] s = "local" -> {"input"}
                [] s \in {"link", "direct"} -> {"ioslibs"}
                [] s = "snapshot" -> {"dol"}
                [] OTHER -> {}

\* What a result says was unchanged is what its tools and children read, and
\* nothing else: the hashes beside it are those of the tested files.
EvidenceIsOfWhatRan ==
    \A i \in DOMAIN results :
        results[i].unchanged =>
            \A f \in Vouched(results[i].script) :
                results[i].used[f] \subseteq {results[i].hashes[f]}

\* A direct candidate is made from a base app that was packaged from the same
\* link, and that from the same boot probe, as are named beside it.
ChainRestsOnOneBoot ==
    \A i \in DOMAIN results : results[i].script = "direct" =>
        LET d == results[i].bases
        IN /\ results[d["online"]].bases["link"] = d["link"]
           /\ results[d["online"]].bases["boot"] = d["boot"]
           /\ results[d["link"]].bases["boot"] = d["boot"]

\* The game inside the base app of a direct candidate is the game that ran in
\* its boot probe, if that probe found its inputs unchanged.
AcceptedGameWasTested ==
    \A i \in DOMAIN results : results[i].script = "direct" =>
        LET boot == results[results[i].bases["boot"]]
        IN boot.unchanged => /\ boot.used["iso"] = {results[i].hashes["bundle iso"]}
                             /\ boot.used["dol"] = {results[i].hashes["bundle dol"]}

\* A script that ends by itself, with a result, at a limit or by any command or
\* child that fails, leaves no child behind; the operator's interrupt may, in the
\* moment of a start or of the cleanup, and the peer probe may by itself.
NoOrphans ==
    /\ script = "none" => alive = {}
    /\ \A o \in orphans : o.interrupted \/ o.script = "peer"

\* Every run of a script ends, although its children may never exit.
ScriptsEnd == script # "none" ~> script = "none"
=============================================================================
