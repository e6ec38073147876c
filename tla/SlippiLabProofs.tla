---------------------------- MODULE SlippiLabProofs ----------------------------
(***************************************************************************)
(* Proofs about SlippiLab, for any plan: any number of changes of any of   *)
(* the files, and of runs of any of the scripts.                           *)
(***************************************************************************)
EXTENDS SlippiLab, SequenceTheorems, WellFoundedInduction, TLAPS

-----------------------------------------------------------------------------
(* Children.                                                               *)

Active == {"admitted", "prepared", "built", "next", "launching", "running", "ran"}

ScriptInv ==
    /\ script \in Script \cup {"none"}
    /\ script = "none" <=> phase = "idle"
    /\ phase \in Active \cup {"idle", "cleanup"}
    /\ script = "none" => alive = {}

\* Everything that ends a script without a result, or after it.
Stopping == (\E i \in BOOLEAN : Abort(i)) \/ Reap \/ InterruptCleanup

LEMMA StoppingEnds ==
    ASSUME Stopping
    PROVE  /\ UNCHANGED <<plan, version, results>>
           /\ \/ /\ script' = "none" /\ phase' = "idle" /\ alive' = {} /\ step' = 0
                 /\ kept' = [f \in File |-> Unhashed] /\ used' = [f \in File |-> {}]
              \/ /\ phase \in Active /\ phase' = "cleanup"
                 /\ UNCHANGED <<script, kept, used, step>>
  <1>1. ASSUME NEW i \in BOOLEAN, Abort(i)
        PROVE  /\ UNCHANGED <<plan, version, results>>
               /\ phase \in Active
               /\ (End /\ alive' = {}) \/ Terminate
    BY <1>1 DEF Abort, Active
  <1>2. CASE Reap \/ InterruptCleanup
    BY <1>2 DEF Reap, InterruptCleanup, End
  <1> QED
    BY <1>1, <1>2 DEF Stopping, End, Terminate

LEMMA NoneIsNoScript == "none" \notin Script
  BY DEF Script

LEMMA NextKeepsScript == ScriptInv /\ [Next]_vars => ScriptInv'
  <1> SUFFICES ASSUME ScriptInv, [Next]_vars PROVE ScriptInv'
    OBVIOUS
  <1> USE DEF ScriptInv, Active
  <1>1. CASE UNCHANGED vars
    BY <1>1 DEF vars
  <1>2. ASSUME NEW s \in Script, Admit(s) PROVE ScriptInv'
    BY <1>2, NoneIsNoScript DEF Admit, children
  <1>3. CASE Prepare
    BY <1>3 DEF Prepare, children
  <1>4. CASE Compile
    BY <1>4 DEF Compile, children
  <1>5. CASE BeginStep \/ Launch \/ Await
    BY <1>5 DEF BeginStep, Launch, Await
  <1>6. CASE Proceed
    BY <1>6 DEF Proceed, children
  <1>7. CASE Conclude
    BY <1>7 DEF Conclude, End, Terminate
  <1>8. CASE Stopping
    BY <1>8, StoppingEnds
  <1>10. CASE Signal \/ Exit \/ Tick
    BY <1>10 DEF Signal, Exit, Tick
  <1>11. ASSUME NEW f \in File, Edit(f) \/ Restore(f) PROVE ScriptInv'
    BY <1>11 DEF Edit, Restore, children
  <1> QED
    BY <1>1, <1>2, <1>3, <1>4, <1>5, <1>6, <1>7, <1>8, <1>10, <1>11
       DEF Next, Work, Fail, Break, Interrupt, Stopping

LEMMA ScriptInvariant == Spec => []ScriptInv
  <1>1. Init => ScriptInv
    BY DEF Init, ScriptInv, Active
  <1> QED
    BY <1>1, NextKeepsScript, PTL DEF Spec

\* Only the peer probe starts children that its cleanup does not know yet.
LEMMA OnlyPeersAreUnheld ==
    ASSUME NEW s \in Script, Runs[s].holds = "all"
    PROVE  s = "peer"
  <1> SUFFICES ASSUME s # "peer" PROVE Runs[s].holds # "all"
    OBVIOUS
  <1> USE DEF NoRuns
  <1>1. CASE s = "resources"
    BY <1>1 DEF Runs, resourcesRuns
  <1>2. CASE s = "exi"
    BY <1>2 DEF Runs, exiRuns
  <1>3. CASE s = "boot"
    BY <1>3 DEF Runs, bootRuns
  <1>4. CASE s = "local"
    BY <1>4 DEF Runs, localRuns
  <1>5. CASE s = "lab"
    BY <1>5 DEF Runs, labRuns
  <1>6. CASE s \notin {"peer", "resources", "exi", "boot", "local", "lab"}
    BY <1>6 DEF Runs
  <1> QED
    BY <1>1, <1>2, <1>3, <1>4, <1>5, <1>6

OrphanInv == \A o \in orphans : o.interrupted \/ o.script = "peer"

LEMMA NextKeepsOrphans == ScriptInv /\ OrphanInv /\ [Next]_vars => OrphanInv'
  <1> SUFFICES ASSUME ScriptInv, OrphanInv, [Next]_vars PROVE OrphanInv'
    OBVIOUS
  <1>1. CASE orphans' = orphans
    BY <1>1 DEF OrphanInv
  <1>2. CASE Abort(FALSE)
    <2>1. PICK lost \in Unheld(FALSE) : Leave(lost, FALSE)
      BY <1>2 DEF Abort
    <2>2. lost = {} \/ Runs[script].holds = "all"
      BY <2>1 DEF Unheld
    <2>3. script \in Script
      BY <1>2 DEF Abort, ScriptInv
    <2>4. lost = {} \/ script = "peer"
      BY <2>2, <2>3, OnlyPeersAreUnheld
    <2> QED
      BY <2>1, <2>4 DEF Leave, OrphanInv
  <1>3. CASE Interrupt
    <2>1. PICK lost : Leave(lost, TRUE)
      BY <1>3 DEF Interrupt, Abort, InterruptCleanup
    <2> QED
      BY <2>1 DEF Leave, OrphanInv
  <1>4. ASSUME ~Abort(FALSE), ~Interrupt PROVE orphans' = orphans
    <2>1. CASE UNCHANGED vars
      BY <2>1 DEF vars
    <2>2. CASE \E s \in Script : Admit(s)
      BY <2>2 DEF Admit, children
    <2>3. CASE Prepare \/ Compile \/ BeginStep \/ Launch \/ Await \/ Proceed
      BY <2>3 DEF Prepare, Compile, BeginStep, Launch, Await, Proceed, children
    <2>4. CASE Conclude \/ Reap
      BY <2>4 DEF Conclude, Reap
    <2>5. CASE Signal \/ Exit \/ Tick
      BY <2>5 DEF Signal, Exit, Tick
    <2>6. CASE \E f \in File : Edit(f) \/ Restore(f)
      BY <2>6 DEF Edit, Restore, children
    <2> QED
      BY <1>4, <2>1, <2>2, <2>3, <2>4, <2>5, <2>6 DEF Next, Work, Fail, Break
  <1> QED
    BY <1>1, <1>2, <1>3, <1>4

\* No script leaves a child behind by itself, on whatever path it ends, but the
\* peer probe while it starts its children: not when a start, a child or any
\* command fails, nor when it reaches a limit or its end.
THEOREM NoChildLeft == Spec => []NoOrphans
  <1>1. Init => OrphanInv
    BY DEF Init, OrphanInv
  <1>2. ScriptInv /\ OrphanInv => NoOrphans
    BY DEF ScriptInv, OrphanInv, NoOrphans
  <1> QED
    BY <1>1, <1>2, NextKeepsOrphans, ScriptInvariant, PTL DEF Spec

-----------------------------------------------------------------------------
(* What the table says of the files that a result vouches for.             *)

AtAdmission(s) == Admits[s].pinned \cup Admits[s].hashes \cup {e[1] : e \in Admits[s].equal}

LEMMA VouchedIsHashed ==
    ASSUME NEW s \in Script, NEW f \in Vouched(s)
    PROVE  /\ f \in File
           /\ <<f, f>> \in Concludes[s].again
           /\ f \in AtAdmission(s) \cup Builds[s].hashes
           /\ f \notin Builds[s].fresh
           /\ \A c \in Builds[s].carries : c[1] # f
  <1> USE DEF Vouched, File, Concludes, AtAdmission, Builds, Admits, Same, Recorded, Plain, Open, Silent
  <1>1. CASE s = "peer"
    BY <1>1 DEF peerAdmits, peerBuilds, peerConcludes
  <1>2. CASE s = "resources"
    BY <1>2 DEF resourcesAdmits, resourcesBuilds, resourcesConcludes
  <1>3. CASE s = "exi"
    BY <1>3 DEF exiAdmits, exiBuilds, exiConcludes
  <1>4. CASE s = "boot"
    BY <1>4 DEF bootAdmits, bootBuilds, bootConcludes
  <1>5. CASE s = "local"
    BY <1>5 DEF localAdmits, localBuilds, localConcludes, localPatches, localMain
  <1>6. CASE s = "link"
    BY <1>6 DEF linkAdmits, linkBuilds, linkConcludes
  <1>7. CASE s = "direct"
    <2>1. <<"ioslibs", "link", "ioslibs">> \in directAdmits.equal
      BY DEF directAdmits
    <2>2. Admits["direct"].equal = directAdmits.equal
      OBVIOUS
    <2>3. f = "ioslibs"
      BY <1>7
    <2>4. f \in {e[1] : e \in Admits["direct"].equal}
      BY <2>1, <2>2, <2>3 DEF AtAdmission
    <2>5. <<f, f>> \in Concludes["direct"].again
      BY <2>3 DEF directConcludes
    <2>6. Builds["direct"].fresh = {} /\ Builds["direct"].carries = {}
      BY DEF directBuilds
    <2> QED
      BY <1>7, <2>3, <2>4, <2>5, <2>6
  <1>8. CASE s = "snapshot"
    BY <1>8 DEF snapshotAdmits, snapshotBuilds, snapshotConcludes, snapshotCapture
  <1> QED
    BY <1>1, <1>2, <1>3, <1>4, <1>5, <1>6, <1>7, <1>8 DEF Script

-----------------------------------------------------------------------------
(* Types, and the newest result of a script.                               *)

Result == [script : Script, ok : BOOLEAN, first : BOOLEAN, hashes : [File -> Int],
           used : [File -> SUBSET Nat], bases : UNION {[E -> Nat] : E \in SUBSET Script},
           unchanged : BOOLEAN]

LabTypes ==
    /\ version \in [File -> Nat]
    /\ kept \in [File -> Int]
    /\ used \in [File -> SUBSET Nat]
    /\ step \in Nat
    /\ results \in Seq(Result)

LEMMA LessThan == OpToRel(<, Nat) = {p \in Nat \X Nat : p[1] < p[2]}
  BY DEF OpToRel

LEMMA Smallest ==
    ASSUME NEW T \in SUBSET Nat, T # {}
    PROVE  \E m \in T : \A i \in T : m <= i
  <1>1. PICK m \in T : \A i \in T : ~(<<i, m>> \in OpToRel(<, Nat))
    BY NatLessThanWellFounded, WFMin
  <1>2. \A i \in T : ~(i < m)
    BY <1>1, LessThan
  <1> QED
    BY <1>2

LEMMA Largest ==
    ASSUME NEW n \in Nat, NEW T \in SUBSET (1..n), T # {}
    PROVE  \E m \in T : \A i \in T : i <= m
  <1> DEFINE U == {k \in 0..n : n - k \in T}
  <1>1. U # {}
    <2>1. PICK i \in T : TRUE
      OBVIOUS
    <2>2. n - i \in 0..n /\ n - (n - i) = i
      OBVIOUS
    <2> QED
      BY <2>1, <2>2
  <1>2. PICK k \in U : \A j \in U : k <= j
    <2>1. U \in SUBSET Nat
      OBVIOUS
    <2> HIDE DEF U
    <2> QED
      BY <1>1, <2>1, Smallest
  <1>3. ASSUME NEW i \in T PROVE i <= n - k
    <2>1. n - i \in 0..n /\ n - (n - i) = i
      OBVIOUS
    <2>2. n - i \in U
      BY <2>1
    <2>3. k <= n - i
      <3> HIDE DEF U
      <3> QED
        BY <1>2, <2>2
    <2>4. k \in Nat /\ i \in Nat
      OBVIOUS
    <2> QED
      BY <2>3, <2>4
  <1> QED
    BY <1>2, <1>3

\* Latest finds the last result of a script, if there is one.
LEMMA LatestIsNewest ==
    ASSUME results \in Seq(Result), NEW s
    PROVE  /\ Latest(s) \in 0..Len(results)
           /\ Latest(s) # 0 => results[Latest(s)].script = s
           /\ \A i \in 1..Len(results) : results[i].script = s => i <= Latest(s)
  <1> DEFINE of == {i \in DOMAIN results : results[i].script = s}
  <1>1. Len(results) \in Nat /\ DOMAIN results = 1..Len(results)
    BY LenProperties
  <1>2. CASE of = {}
    <2>1. Latest(s) = 0
      BY <1>2 DEF Latest
    <2> QED
      BY <1>1, <1>2, <2>1
  <1>3. CASE of # {}
    <2>1. \E m \in of : \A j \in of : j <= m
      <3>1. of \in SUBSET (1..Len(results))
        BY <1>1
      <3> HIDE DEF of
      <3> QED
        BY <1>1, <1>3, <3>1, Largest
    <2>2. Latest(s) = CHOOSE i \in of : \A j \in of : j <= i
      BY <1>3 DEF Latest
    <2>3. Latest(s) \in of /\ \A j \in of : j <= Latest(s)
      <3> HIDE DEF of
      <3> QED
        BY <2>1, <2>2
    <2> QED
      BY <1>1, <2>3
  <1> QED
    BY <1>2, <1>3

\* Only the two packaging scripts copy files under another name.
LEMMA CarriedAreFiles == \A s \in Script : Builds[s].carries \subseteq File \X File
  <1> SUFFICES ASSUME NEW s \in Script PROVE Builds[s].carries \subseteq File \X File
    OBVIOUS
  <1>1. packageBundle \subseteq File \X File
    <2> SUFFICES ASSUME NEW c \in packageBundle PROVE c \in File \X File
      OBVIOUS
    <2>1. CASE c = <<"bundle iso", "iso">>
      BY <2>1 DEF File
    <2>2. CASE c = <<"bundle dol", "dol">>
      BY <2>2 DEF File
    <2>3. CASE c = <<"bundle module", "iosmodule">>
      BY <2>3 DEF File
    <2> QED
      BY <2>1, <2>2, <2>3 DEF packageBundle
  <1> USE DEF Builds, Plain
  <1>2. CASE s = "package"
    BY <1>1, <1>2 DEF packageBuilds
  <1>3. CASE s = "online"
    BY <1>1, <1>3 DEF packageBuilds, onlineBuilds
  <1>4. CASE s = "peer"
    BY <1>4 DEF peerBuilds
  <1>5. CASE s = "resources"
    BY <1>5 DEF resourcesBuilds
  <1>6. CASE s = "exi"
    BY <1>6 DEF exiBuilds
  <1>7. CASE s = "boot"
    BY <1>7 DEF bootBuilds
  <1>8. CASE s = "local"
    BY <1>8 DEF localBuilds
  <1>9. CASE s = "link"
    BY <1>9 DEF linkBuilds
  <1>10. CASE s = "direct"
    BY <1>10 DEF directBuilds
  <1>11. CASE s = "snapshot"
    BY <1>11 DEF snapshotBuilds
  <1>12. CASE s = "hooks"
    BY <1>12 DEF hooksBuilds
  <1>13. CASE s = "unfused"
    BY <1>13 DEF unfusedBuilds
  <1>14. CASE s = "lab"
    BY <1>14 DEF labBuilds
  <1> QED
    BY <1>2, <1>3, <1>4, <1>5, <1>6, <1>7, <1>8, <1>9, <1>10, <1>11, <1>12, <1>13, <1>14 DEF Script

LEMMA KeptTypes == ASSUME LabTypes, NEW files PROVE Kept(files) \in [File -> Int]
  BY DEF LabTypes, Kept

LEMMA ReadingTypes == ASSUME LabTypes, NEW files PROVE Reading(files) \in [File -> SUBSET Nat]
  BY DEF LabTypes, Reading

LEMMA EvidenceAreScripts == \A s \in Script : Admits[s].evidence \in SUBSET Script
  <1> SUFFICES ASSUME NEW s \in Script PROVE Admits[s].evidence \subseteq Script
    OBVIOUS
  <1> USE DEF Admits, Open, Script
  <1>1. CASE s \in {"unfused", "lab"}
    BY <1>1
  <1>2. CASE s = "peer"
    BY <1>2 DEF peerAdmits
  <1>3. CASE s = "resources"
    BY <1>3 DEF resourcesAdmits
  <1>4. CASE s = "exi"
    BY <1>4 DEF exiAdmits
  <1>5. CASE s = "boot"
    BY <1>5 DEF bootAdmits
  <1>6. CASE s = "local"
    BY <1>6 DEF localAdmits
  <1>7. CASE s = "link"
    BY <1>7 DEF linkAdmits
  <1>8. CASE s = "package"
    BY <1>8 DEF packageAdmits
  <1>9. CASE s = "online"
    BY <1>9 DEF packageAdmits, onlineAdmits
  <1>10. CASE s = "direct"
    BY <1>10 DEF directAdmits
  <1>11. CASE s = "snapshot"
    BY <1>11 DEF snapshotAdmits
  <1>12. CASE s = "hooks"
    BY <1>12 DEF hooksAdmits
  <1> QED
    BY <1>1, <1>2, <1>3, <1>4, <1>5, <1>6, <1>7, <1>8, <1>9, <1>10, <1>11, <1>12

\* The result that Conclude writes.
Written(r) ==
    /\ results' = Append(results, r)
    /\ r.script = script
    /\ r.hashes = Kept(Concludes[script].last)
    /\ r.used = used
    /\ r.bases = [e \in Admits[script].evidence |-> Latest(e)]
    /\ r.unchanged = \A c \in Concludes[script].again : version[c[1]] = kept[c[2]]

LEMMA ConcludeWrites ==
    ASSUME LabTypes, ScriptInv, Conclude
    PROVE  \E r \in Result : Written(r)
  <1>1. script \in Script
    BY DEF ScriptInv, Conclude, Active
  <1>2. PICK ok \in BOOLEAN, first \in BOOLEAN :
           results' = Append(results,
              [script |-> script, ok |-> ok, first |-> first, hashes |-> Kept(Concludes[script].last),
               used |-> used, bases |-> [e \in Admits[script].evidence |-> Latest(e)],
               unchanged |-> \A c \in Concludes[script].again : version[c[1]] = kept[c[2]]])
    BY DEF Conclude
  <1>3. PICK r : r = [script |-> script, ok |-> ok, first |-> first, hashes |-> Kept(Concludes[script].last),
                      used |-> used, bases |-> [e \in Admits[script].evidence |-> Latest(e)],
                      unchanged |-> \A c \in Concludes[script].again :
                                       version[c[1]] = kept[c[2]]]
    OBVIOUS
  <1>4. [e \in Admits[script].evidence |-> Latest(e)] \in [Admits[script].evidence -> Nat]
    BY LatestIsNewest DEF LabTypes
  <1>5. r \in Result
    <2>1. [e \in Admits[script].evidence |-> Latest(e)]
             \in UNION {[E -> Nat] : E \in SUBSET Script}
      BY <1>1, <1>4, EvidenceAreScripts
    <2>2. Kept(Concludes[script].last) \in [File -> Int] /\ used \in [File -> SUBSET Nat]
      BY KeptTypes DEF LabTypes
    <2> QED
      BY <1>1, <1>3, <2>1, <2>2 DEF Result
  <1> QED
    BY <1>2, <1>3, <1>5 DEF Written

-----------------------------------------------------------------------------
(* Every step keeps the types.                                             *)

LEMMA NextTypes == LabTypes /\ ScriptInv /\ [Next]_vars => LabTypes'
  <1> SUFFICES ASSUME LabTypes, ScriptInv, [Next]_vars PROVE LabTypes'
    OBVIOUS
  <1>1. CASE UNCHANGED vars
    BY <1>1 DEF LabTypes, vars
  <1>2. ASSUME NEW s \in Script, Admit(s) PROVE LabTypes'
    BY <1>2, KeptTypes DEF Admit, LabTypes, children
  <1>3. CASE Prepare
    BY <1>3, KeptTypes, ReadingTypes DEF Prepare, LabTypes, children
  <1>4. CASE Compile
    <2>1. script \in Script
      BY <1>4 DEF Compile, ScriptInv, Active
    <2>2. ASSUME NEW f \in File PROVE version'[f] \in Nat
      <3> DEFINE B == Builds[script]
                 c == CHOOSE c \in B.carries : c[1] = f
      <3>1. CASE f \notin B.fresh /\ \E d \in B.carries : d[1] = f
        <4>1. c \in B.carries
          BY <3>1
        <4>2. c[2] \in File
          BY <2>1, <4>1, CarriedAreFiles
        <4>3. version'[f] = version[c[2]]
          BY <1>4, <3>1 DEF Compile
        <4> QED
          BY <4>2, <4>3 DEF LabTypes
      <3>2. CASE f \in B.fresh \/ ~\E d \in B.carries : d[1] = f
        BY <1>4, <3>2 DEF Compile, LabTypes
      <3> QED
        BY <3>1, <3>2
    <2>3. version' = [f \in File |-> version'[f]]
      BY <1>4 DEF Compile
    <2>4. version' \in [File -> Nat]
      BY <2>2, <2>3
    <2> QED
      BY <1>4, <2>4, ReadingTypes DEF Compile, LabTypes, children
  <1>5. CASE BeginStep \/ Launch \/ Await
    BY <1>5, ReadingTypes DEF BeginStep, Launch, Await, LabTypes
  <1>6. CASE Proceed
    BY <1>6 DEF Proceed, LabTypes, children
  <1>7. CASE Conclude
    <2>1. results' \in Seq(Result)
      <3>1. PICK r \in Result : Written(r)
        BY <1>7, ConcludeWrites
      <3>2. results' = Append(results, r) /\ results \in Seq(Result)
        BY <3>1 DEF Written, LabTypes
      <3> QED
        BY <3>2, AppendProperties
    <2>2. \/ kept' = kept /\ used' = used /\ step' = step
          \/ kept' = [f \in File |-> Unhashed] /\ used' = [f \in File |-> {}] /\ step' = 0
      BY <1>7 DEF Conclude, End, Terminate
    <2> QED
      BY <1>7, <2>1, <2>2 DEF Conclude, LabTypes, Unhashed
  <1>8. CASE Stopping
    BY <1>8, StoppingEnds DEF LabTypes, Unhashed
  <1>10. CASE Signal \/ Exit \/ Tick
    BY <1>10 DEF Signal, Exit, Tick, LabTypes
  <1>11. ASSUME NEW f \in File, Edit(f) PROVE LabTypes'
    <2>1. version' \in [File -> Nat]
      BY <1>11 DEF Edit, LabTypes
    <2>2. used' \in [File -> SUBSET Nat]
      BY <1>11 DEF Edit, LabTypes
    <2> QED
      BY <1>11, <2>1, <2>2 DEF Edit, LabTypes, children
  <1>12. ASSUME NEW f \in File, Restore(f) PROVE LabTypes'
    BY <1>12 DEF Restore, LabTypes, children
  <1> QED
    BY <1>1, <1>2, <1>3, <1>4, <1>5, <1>6, <1>7, <1>8, <1>10, <1>11, <1>12
       DEF Next, Work, Fail, Break, Interrupt, Stopping

LEMMA TypesInvariant == Spec => []LabTypes
  <1>1. Init => LabTypes
    <2>1. << >> \in Seq(Result)
      BY EmptySeq
    <2> QED
      BY <2>1 DEF Init, LabTypes, Unhashed
  <1> QED
    BY <1>1, NextTypes, ScriptInvariant, PTL DEF Spec

-----------------------------------------------------------------------------
(* What was read since a file was hashed is not older than the hash.       *)

Covered(f) == /\ kept[f] <= version[f]
              /\ \A v \in used[f] : kept[f] <= v /\ v <= version[f]

EvidenceInv ==
    /\ phase \in {"idle", "admitted"} => \A f \in File : used[f] = {}
    /\ phase \in Active =>
          \A f \in Vouched(script) :
             (phase = "admitted" /\ f \notin AtAdmission(script)) \/ Covered(f)

LEMMA NextKeepsEvidence ==
    LabTypes /\ ScriptInv /\ EvidenceInv /\ [Next]_vars => EvidenceInv'
  <1> SUFFICES ASSUME LabTypes, ScriptInv, EvidenceInv, [Next]_vars PROVE EvidenceInv'
    OBVIOUS
  <1>0. phase \in Active => script \in Script
    BY DEF ScriptInv, Active
  <1>1. CASE UNCHANGED vars
    BY <1>1 DEF EvidenceInv, Covered, vars
  <1>2. ASSUME NEW s \in Script, Admit(s) PROVE EvidenceInv'
    <2>1. phase = "idle" /\ script' = s /\ phase' = "admitted" /\ used' = used /\ version' = version
      BY <1>2 DEF Admit, ScriptInv
    <2>2. kept' = Kept(AtAdmission(s))
      BY <1>2 DEF Admit, AtAdmission
    <2>3. ASSUME NEW f \in Vouched(s), f \in AtAdmission(s) PROVE Covered(f)'
      <3>1. f \in File
        BY VouchedIsHashed
      <3>2. kept'[f] = version[f] /\ used[f] = {} /\ version[f] \in Nat
        BY <2>1, <2>2, <2>3, <3>1 DEF Kept, EvidenceInv, LabTypes
      <3> QED
        BY <2>1, <3>2 DEF Covered
    <2> QED
      BY <2>1, <2>3 DEF EvidenceInv
  <1>3. CASE Prepare
    <2>1. /\ phase = "admitted" /\ phase' = "prepared" /\ script' = script /\ version' = version
          /\ used' = Reading(Builds[script].copies) /\ kept' = Kept(Builds[script].hashes)
      BY <1>3 DEF Prepare
    <2>2. ASSUME NEW f \in Vouched(script) PROVE Covered(f)'
      <3>1. f \in File /\ f \in AtAdmission(script) \cup Builds[script].hashes
        BY <1>0, <2>1, VouchedIsHashed DEF Active
      <3>2. used[f] = {} /\ version[f] \in Nat /\ kept[f] \in Int
        BY <2>1, <3>1 DEF EvidenceInv, LabTypes
      <3>3. kept'[f] = version[f] \/ (kept'[f] = kept[f] /\ Covered(f))
        BY <2>1, <3>1 DEF Kept, EvidenceInv, Active
      <3>4. used'[f] \subseteq {version[f]}
        BY <2>1, <3>1, <3>2 DEF Reading
      <3> QED
        BY <2>1, <3>2, <3>3, <3>4 DEF Covered
    <2> QED
      BY <2>1, <2>2 DEF EvidenceInv
  <1>4. CASE Compile
    <2>1. /\ phase = "prepared" /\ phase' = "built" /\ script' = script /\ kept' = kept
          /\ used' = Reading(Builds[script].reads)
      BY <1>4 DEF Compile
    <2>2. ASSUME NEW f \in Vouched(script) PROVE Covered(f)'
      <3>1. /\ f \in File /\ f \notin Builds[script].fresh
            /\ ~\E c \in Builds[script].carries : c[1] = f
        BY <1>0, <2>1, VouchedIsHashed DEF Active
      <3>2. version'[f] = version[f]
        BY <1>4, <3>1 DEF Compile
      <3>3. Covered(f) /\ version[f] \in Nat /\ kept[f] \in Int
        BY <2>1, <3>1 DEF EvidenceInv, LabTypes, Active
      <3>4. used'[f] \subseteq used[f] \cup {version[f]}
        BY <2>1, <3>1 DEF Reading
      <3> QED
        BY <2>1, <3>2, <3>3, <3>4 DEF Covered
    <2> QED
      BY <2>1, <2>2 DEF EvidenceInv
  <1>5. CASE Launch
    <2>1. /\ phase = "launching" /\ phase' = "launching" /\ script' = script
          /\ kept' = kept /\ version' = version /\ used' = Reading(Runs[script].reads)
      BY <1>5 DEF Launch
    <2>2. ASSUME NEW f \in Vouched(script) PROVE Covered(f)'
      <3>1. f \in File
        BY <1>0, <2>1, VouchedIsHashed DEF Active
      <3>2. Covered(f) /\ version[f] \in Nat /\ kept[f] \in Int
        BY <2>1, <3>1 DEF EvidenceInv, LabTypes, Active
      <3>3. used'[f] \subseteq used[f] \cup {version[f]}
        BY <2>1, <3>1 DEF Reading
      <3> QED
        BY <2>1, <3>2, <3>3 DEF Covered
    <2> QED
      BY <2>1, <2>2 DEF EvidenceInv
  <1>6. CASE BeginStep \/ Await \/ Proceed
    BY <1>6 DEF BeginStep, Await, Proceed, EvidenceInv, Covered, Active
  <1>7. CASE Conclude \/ Stopping
    <2>1. \/ phase' = "idle" /\ used' = [f \in File |-> {}]
          \/ phase' = "cleanup"
      BY <1>7, StoppingEnds DEF Conclude, End, Terminate
    <2> QED
      BY <2>1 DEF EvidenceInv, Active
  <1>8. CASE Signal \/ Exit \/ Tick
    BY <1>8 DEF Signal, Exit, Tick, EvidenceInv, Covered
  <1>9. ASSUME NEW g \in File, Edit(g) PROVE EvidenceInv'
    <2>1. /\ script' = script /\ phase' = phase /\ kept' = kept
          /\ version' = [version EXCEPT ![g] = @ + 1]
          /\ phase \in {"idle", "admitted"} => used' = used
      BY <1>9 DEF Edit
    <2>2. ASSUME NEW f \in File, Covered(f) PROVE Covered(f)'
      <3>1. version[f] \in Nat /\ kept[f] \in Int /\ used[f] \subseteq Nat
        BY DEF LabTypes
      <3>2. /\ version'[f] \in {version[f], version[f] + 1}
            /\ used'[f] \subseteq used[f] \cup {version'[f]}
        BY <1>9 DEF Edit, LabTypes
      <3> QED
        BY <2>1, <2>2, <3>1, <3>2 DEF Covered
    <2>3. phase \in Active => \A f \in Vouched(script) : f \in File
      BY <1>0, VouchedIsHashed
    <2> QED
      BY <2>1, <2>2, <2>3 DEF EvidenceInv
  <1>10. ASSUME NEW g \in File, Restore(g) PROVE EvidenceInv'
    BY <1>10 DEF Restore, EvidenceInv, ScriptInv, Active
  <1> QED
    BY <1>1, <1>2, <1>3, <1>4, <1>5, <1>6, <1>7, <1>8, <1>9, <1>10
       DEF Next, Work, Fail, Break, Interrupt, Stopping

LEMMA EvidenceInvariant == Spec => []EvidenceInv
  <1>1. Init => EvidenceInv
    BY DEF Init, EvidenceInv, Active
  <1> QED
    BY <1>1, NextKeepsEvidence, TypesInvariant, ScriptInvariant, PTL DEF Spec

-----------------------------------------------------------------------------
(* The results.                                                            *)

\* Only Conclude writes a result, and nothing changes one.
LEMMA ResultsOnlyGrow ==
    ASSUME LabTypes, ScriptInv, [Next]_vars
    PROVE  \/ results' = results
           \/ Conclude /\ \E r \in Result : Written(r)
  <1>1. CASE UNCHANGED vars
    BY <1>1 DEF vars
  <1>2. ASSUME NEW s \in Script, Admit(s) PROVE results' = results
    BY <1>2 DEF Admit
  <1>3. CASE Conclude
    BY <1>3, ConcludeWrites
  <1>4. CASE Prepare \/ Compile \/ BeginStep \/ Launch \/ Await \/ Proceed \/ Stopping
    BY <1>4, StoppingEnds DEF Prepare, Compile, BeginStep, Launch, Await, Proceed
  <1>5. CASE Signal \/ Exit \/ Tick
    BY <1>5 DEF Signal, Exit, Tick
  <1>6. ASSUME NEW f \in File, Edit(f) \/ Restore(f) PROVE results' = results
    BY <1>6 DEF Edit, Restore
  <1> QED
    BY <1>1, <1>2, <1>3, <1>4, <1>5, <1>6 DEF Next, Work, Fail, Break, Interrupt, Stopping

LEMMA Appended ==
    ASSUME results \in Seq(Result), NEW r \in Result, results' = Append(results, r)
    PROVE  /\ Len(results) \in Nat
           /\ DOMAIN results = 1..Len(results)
           /\ DOMAIN results' = 1..(Len(results) + 1)
           /\ \A i \in 1..Len(results) : results'[i] = results[i]
           /\ results'[Len(results) + 1] = r
  BY AppendProperties, LenProperties

\* What one result says of the files it vouches for.
Faithful(r) == r.unchanged => \A f \in Vouched(r.script) : r.used[f] \subseteq {r.hashes[f]}

LEMMA WrittenIsFaithful ==
    ASSUME LabTypes, ScriptInv, EvidenceInv, Conclude, NEW r \in Result, Written(r)
    PROVE  Faithful(r)
  <1>1. phase \in {"ran", "built"} /\ phase \in Active /\ script \in Script
    BY DEF Conclude, ScriptInv, Active
  <1> SUFFICES ASSUME r.unchanged, NEW f \in Vouched(script)
               PROVE  used[f] \subseteq {Kept(Concludes[script].last)[f]}
    BY DEF Faithful, Written
  <1>2. f \in File /\ <<f, f>> \in Concludes[script].again
    BY <1>1, VouchedIsHashed
  <1>3. version[f] = kept[f]
    BY <1>2 DEF Written
  <1>4. Covered(f) /\ version[f] \in Nat /\ used[f] \subseteq Nat
    BY <1>1, <1>2 DEF EvidenceInv, LabTypes
  <1>5. used[f] \subseteq {version[f]}
    BY <1>3, <1>4 DEF Covered
  <1>6. Kept(Concludes[script].last)[f] = version[f]
    BY <1>2, <1>3 DEF Kept
  <1> QED
    BY <1>5, <1>6

\* The hashes beside a finding of unchanged inputs are those of the files that
\* were tested, whenever and whichever of them change.
THEOREM EvidenceHolds == Spec => []EvidenceIsOfWhatRan
  <1>1. EvidenceIsOfWhatRan <=> \A i \in DOMAIN results : Faithful(results[i])
    BY DEF EvidenceIsOfWhatRan, Faithful
  <1>2. Init => EvidenceIsOfWhatRan
    BY DEF Init, EvidenceIsOfWhatRan
  <1>3. LabTypes /\ ScriptInv /\ EvidenceInv /\ EvidenceIsOfWhatRan /\ [Next]_vars
           => EvidenceIsOfWhatRan'
    <2> SUFFICES ASSUME LabTypes, ScriptInv, EvidenceInv, EvidenceIsOfWhatRan, [Next]_vars
                 PROVE  EvidenceIsOfWhatRan'
      OBVIOUS
    <2>1. CASE results' = results
      BY <2>1 DEF EvidenceIsOfWhatRan
    <2>2. CASE Conclude /\ \E r \in Result : Written(r)
      <3>1. PICK r \in Result : Written(r)
        BY <2>2
      <3>2. Faithful(r)
        BY <2>2, <3>1, WrittenIsFaithful
      <3>3. \A i \in DOMAIN results' : Faithful(results'[i])
        BY <1>1, <3>1, <3>2, Appended DEF Written, LabTypes
      <3> QED
        BY <3>3 DEF EvidenceIsOfWhatRan, Faithful
    <2> QED
      BY <2>1, <2>2, ResultsOnlyGrow
  <1> QED
    BY <1>2, <1>3, EvidenceInvariant, TypesInvariant, ScriptInvariant, PTL DEF Spec

-----------------------------------------------------------------------------
(* The chain of evidence.                                                  *)

\* What the admission of the two scripts that rest on a link establishes.
\* It holds until they end, as no other script writes a result meanwhile.
OnlineRests ==
    /\ Latest("link") # 0 /\ Latest("boot") # 0
    /\ results[Latest("link")].bases["boot"] = Latest("boot")

DirectRests ==
    /\ Latest("link") # 0 /\ Latest("online") # 0 /\ Latest("boot") # 0
    /\ results[Latest("link")].bases["boot"] = Latest("boot")
    /\ results[Latest("online")].bases["link"] = Latest("link")

RestInv ==
    phase \in Active => /\ script = "online" => OnlineRests
                        /\ script = "direct" => DirectRests

\* A base app, and the link that it names, name the same boot probe.
OneBoot(i) ==
    LET b == results[i].bases
    IN /\ {b["link"], b["boot"]} \subseteq DOMAIN results
       /\ results[b["link"]].bases["boot"] = b["boot"]

\* A direct candidate names results of the three kinds.
OneChain(i) ==
    LET d == results[i].bases
    IN /\ {d["online"], d["link"], d["boot"]} \subseteq DOMAIN results
       /\ results[d["boot"]].script = "boot"
       /\ results[d["online"]].bases["link"] = d["link"]
       /\ results[d["online"]].bases["boot"] = d["boot"]
       /\ results[d["link"]].bases["boot"] = d["boot"]

ChainInv ==
    \A i \in DOMAIN results : /\ results[i].script = "online" => OneBoot(i)
                              /\ results[i].script = "direct" => OneChain(i)

LEMMA OnlineIsAdmitted == ASSUME Admit("online") PROVE OnlineRests
  <1>1. /\ Admits["online"].evidence = {"link", "boot"} \cup {"local"}
        /\ Admits["online"].chain = {<<"link", "boot">>}
    BY DEF Admits, onlineAdmits, packageAdmits, Open
  <1>2. /\ \A e \in Admits["online"].evidence : Latest(e) # 0
        /\ \A c \in Admits["online"].chain : results[Latest(c[1])].bases[c[2]] = Latest(c[2])
    BY DEF Admit, Admissible
  <1> QED
    BY <1>1, <1>2 DEF OnlineRests

LEMMA DirectRow ==
    /\ Admits["direct"].evidence = {"link", "online", "boot"}
    /\ Admits["direct"].chain = {<<"link", "boot">>, <<"online", "link">>}
  <1>1. /\ directAdmits.evidence = {"link", "online", "boot"}
        /\ directAdmits.chain = {<<"link", "boot">>, <<"online", "link">>}
    BY DEF directAdmits, Open
  <1> QED
    BY <1>1 DEF Admits

LEMMA DirectIsAdmitted == ASSUME Admit("direct") PROVE DirectRests
  <1>1. /\ \A e \in Admits["direct"].evidence : Latest(e) # 0
        /\ \A c \in Admits["direct"].chain : results[Latest(c[1])].bases[c[2]] = Latest(c[2])
    BY DEF Admit, Admissible
  <1> QED
    BY <1>1, DirectRow DEF DirectRests

\* While a script is active its results stay, or it ends.
LEMMA ActiveKeepsResults ==
    ASSUME LabTypes, ScriptInv, [Next]_vars, phase' \in Active
    PROVE  /\ results' = results
           /\ \/ phase \in Active /\ script' = script
              \/ Admit(script')
  <1> USE DEF Active
  <1>1. CASE UNCHANGED vars
    BY <1>1 DEF vars
  <1>2. ASSUME NEW s \in Script, Admit(s)
        PROVE  results' = results /\ Admit(script')
    BY <1>2 DEF Admit
  <1>3. CASE Conclude \/ Stopping
    BY <1>3, StoppingEnds DEF Conclude, End, Terminate
  <1>4. CASE Prepare \/ Compile \/ BeginStep \/ Launch \/ Await \/ Proceed
    BY <1>4 DEF Prepare, Compile, BeginStep, Launch, Await, Proceed
  <1>5. CASE Signal \/ Exit \/ Tick
    BY <1>5 DEF Signal, Exit, Tick
  <1>6. ASSUME NEW f \in File, Edit(f) \/ Restore(f)
        PROVE  results' = results /\ phase \in Active /\ script' = script
    BY <1>6 DEF Edit, Restore
  <1> QED
    BY <1>1, <1>2, <1>3, <1>4, <1>5, <1>6 DEF Next, Work, Fail, Break, Interrupt, Stopping

LEMMA NextKeepsRest == LabTypes /\ ScriptInv /\ RestInv /\ [Next]_vars => RestInv'
  <1> SUFFICES ASSUME LabTypes, ScriptInv, RestInv, [Next]_vars, phase' \in Active
               PROVE  /\ script' = "online" => OnlineRests'
                      /\ script' = "direct" => DirectRests'
    BY DEF RestInv
  <1>1. results' = results
    BY ActiveKeepsResults
  <1>2. \A s : Latest(s)' = Latest(s)
    BY <1>1 DEF Latest
  <1>3. CASE script' = "online"
    <2>1. OnlineRests
      BY <1>3, ActiveKeepsResults, OnlineIsAdmitted DEF RestInv
    <2> QED
      BY <1>1, <1>2, <1>3, <2>1 DEF OnlineRests
  <1>4. CASE script' = "direct"
    <2>1. DirectRests
      BY <1>4, ActiveKeepsResults, DirectIsAdmitted DEF RestInv
    <2> QED
      BY <1>1, <1>2, <1>4, <2>1 DEF DirectRests
  <1> QED
    BY <1>3, <1>4

LEMMA RestInvariant == Spec => []RestInv
  <1>1. Init => RestInv
    BY DEF Init, RestInv, Active
  <1> QED
    BY <1>1, NextKeepsRest, TypesInvariant, ScriptInvariant, PTL DEF Spec

LEMMA NextKeepsChain == LabTypes /\ ScriptInv /\ RestInv /\ ChainInv /\ [Next]_vars => ChainInv'
  <1> SUFFICES ASSUME LabTypes, ScriptInv, RestInv, ChainInv, [Next]_vars PROVE ChainInv'
    OBVIOUS
  <1>1. CASE results' = results
    BY <1>1 DEF ChainInv, OneBoot, OneChain
  <1>2. CASE Conclude /\ \E r \in Result : Written(r)
    <2>1. PICK r \in Result : Written(r)
      BY <1>2
    <2>2. PICK n \in Nat : n = Len(results) + 1
      BY LenProperties DEF LabTypes
    <2>3. /\ DOMAIN results = 1..(n - 1)
          /\ DOMAIN results' = 1..n
          /\ \A i \in 1..(n - 1) : results'[i] = results[i]
          /\ results'[n] = r
      BY <2>1, <2>2, Appended DEF Written, LabTypes
    <2>4. \A s : Latest(s) # 0 => Latest(s) \in DOMAIN results /\ results[Latest(s)].script = s
      BY LatestIsNewest, LenProperties DEF LabTypes
    <2>5. phase \in Active /\ script \in Script
      BY <1>2 DEF Conclude, ScriptInv, Active
    <2>6. DOMAIN results \subseteq DOMAIN results' /\ \A i \in DOMAIN results : results'[i] = results[i]
      BY <2>2, <2>3
    <2>7. ASSUME NEW i \in DOMAIN results
          PROVE  /\ results[i].script = "online" => OneBoot(i)'
                 /\ results[i].script = "direct" => OneChain(i)'
      BY <2>6 DEF ChainInv, OneBoot, OneChain
    <2>8. ASSUME script = "online" PROVE OneBoot(n)'
      <3>1. OnlineRests
        BY <2>5, <2>8 DEF RestInv
      <3>2. r.bases["link"] = Latest("link") /\ r.bases["boot"] = Latest("boot")
        <4>1. {"link", "boot"} \subseteq Admits["online"].evidence
          BY DEF Admits, onlineAdmits, packageAdmits, Open
        <4> QED
          BY <2>1, <2>8, <4>1 DEF Written
      <3> QED
        BY <2>3, <2>4, <2>6, <3>1, <3>2 DEF OnlineRests, OneBoot
    <2>9. ASSUME script = "direct" PROVE OneChain(n)'
      <3>1. DirectRests
        BY <2>5, <2>9 DEF RestInv
      <3>2. /\ r.bases["link"] = Latest("link") /\ r.bases["boot"] = Latest("boot")
            /\ r.bases["online"] = Latest("online")
        BY <2>1, <2>9, DirectRow DEF Written
      <3>3. OneBoot(Latest("online"))
        BY <2>4, <3>1 DEF DirectRests, ChainInv
      <3>4. results[Latest("online")].bases["boot"] = Latest("boot")
        BY <3>1, <3>3 DEF DirectRests, OneBoot
      <3> QED
        BY <2>3, <2>4, <2>6, <3>1, <3>2, <3>4 DEF DirectRests, OneChain
    <2>10. r.script = script
      BY <2>1 DEF Written
    <2>11. \A i \in DOMAIN results' : i \in DOMAIN results \/ i = n
      BY <2>2, <2>3
    <2> QED
      BY <2>3, <2>6, <2>7, <2>8, <2>9, <2>10, <2>11 DEF ChainInv
  <1> QED
    BY <1>1, <1>2, ResultsOnlyGrow

LEMMA ChainInvariant == Spec => []ChainInv
  <1>1. Init => ChainInv
    BY DEF Init, ChainInv
  <1> QED
    BY <1>1, NextKeepsChain, RestInvariant, TypesInvariant, ScriptInvariant, PTL DEF Spec

\* A direct candidate never mixes two boot probes, however often each of the
\* scripts before it is run again: the one its base app rests on, the one its
\* link rests on and the one it names itself are one.
THEOREM ChainHolds == Spec => []ChainRestsOnOneBoot
  <1>1. ChainInv => ChainRestsOnOneBoot
    BY DEF ChainInv, OneChain, ChainRestsOnOneBoot
  <1> QED
    BY <1>1, ChainInvariant, PTL

-----------------------------------------------------------------------------
(* The game that is accepted.                                              *)

Game == {"iso", "dol"}
Bundled(f) == IF f = "iso" THEN "bundle iso" ELSE "bundle dol"

\* A boot probe that gets to its end has run the game, and so read it.
BootReads ==
    /\ script = "boot" /\ phase = "launching" => pending = {} \/ pending = {"game"}
    /\ script = "boot" /\ (phase \in {"next", "running", "ran"} \/ (phase = "launching" /\ pending = {}))
          => \A f \in Game : used[f] # {}

\* A direct candidate keeps the hashes that its admission compared.
DirectKeeps ==
    script = "direct" /\ phase \in Active =>
        \A f \in Game : kept[Bundled(f)] = results[Latest("boot")].hashes[f]

GameInv ==
    \A i \in DOMAIN results :
        /\ results[i].script = "boot" => \A f \in Game : results[i].used[f] # {}
        /\ results[i].script = "direct" =>
              \A f \in Game :
                 results[i].hashes[Bundled(f)] = results[results[i].bases["boot"]].hashes[f]

LEMMA GameFiles == \A f \in Game : f \in File /\ Bundled(f) \in File
  BY DEF Game, Bundled, File

LEMMA BootRow ==
    /\ Runs["boot"].steps # <<>>
    /\ Game \subseteq Runs["boot"].reads
    /\ \A k \in Nat : k < Len(Runs["boot"].steps) => Runs["boot"].steps[k + 1].start = {"game"}
  <1>1. bootRuns.reads = {"dol", "iso", "module", "input"} /\ bootRuns.steps # <<>>
    BY DEF bootRuns, NoRuns
  <1>2. Runs["boot"] = bootRuns
    BY DEF Runs, Script
  <1>3. bootRuns.steps = <<Start({"game"}, "all"), Start({"game"}, "all")>>
    BY DEF bootRuns, NoRuns
  <1>4. Start({"game"}, "all").start = {"game"}
    BY DEF Start
  <1>5. ASSUME NEW k \in Nat, k < Len(bootRuns.steps) PROVE bootRuns.steps[k + 1].start = {"game"}
    <2>1. k = 0 \/ k = 1
      BY <1>3, <1>5
    <2> QED
      BY <1>3, <1>4, <2>1
  <1> QED
    BY <1>1, <1>2, <1>5 DEF Game

LEMMA NextKeepsBootReads == LabTypes /\ ScriptInv /\ BootReads /\ [Next]_vars => BootReads'
  <1> SUFFICES ASSUME LabTypes, ScriptInv, BootReads, [Next]_vars,
                      script' = "boot", phase' \in {"launching", "next", "running", "ran"}
               PROVE  BootReads'
    BY DEF BootReads
  <1>1. \A f \in Game : f \in File
    BY GameFiles
  <1>2. CASE UNCHANGED vars
    BY <1>2 DEF BootReads, vars
  <1>3. ASSUME NEW s \in Script, Admit(s) PROVE FALSE
    BY <1>3 DEF Admit
  <1>4. CASE Prepare \/ Compile \/ Conclude \/ Stopping
    BY <1>4, StoppingEnds DEF Prepare, Compile, Conclude, End, Terminate
  <1>5. CASE BeginStep
    <2>1. pending' = {"game"}
      BY <1>5, BootRow DEF BeginStep, Steps, LabTypes
    <2> QED
      BY <1>5, <2>1 DEF BeginStep, BootReads
  <1>6. CASE Launch
    <2>1. used' = Reading(Runs["boot"].reads) /\ phase = "launching" /\ script = "boot"
          /\ phase' = "launching" /\ pending' \subseteq pending
      BY <1>6 DEF Launch
    <2>2. \A f \in Game : used'[f] # {}
      BY <1>1, <2>1, BootRow DEF Reading
    <2>3. pending' = {} \/ pending' = {"game"}
      BY <2>1 DEF BootReads
    <2> QED
      BY <2>2, <2>3 DEF BootReads
  <1>7. CASE Await \/ Proceed \/ Signal \/ Exit \/ Tick
    BY <1>7 DEF Await, Proceed, Signal, Exit, Tick, BootReads, children
  <1>8. ASSUME NEW g \in File, Edit(g) PROVE BootReads'
    <2>1. script' = script /\ phase' = phase /\ pending' = pending
      BY <1>8 DEF Edit, children
    <2>2. ASSUME NEW f \in File, used[f] # {} PROVE used'[f] # {}
      BY <1>8, <2>2 DEF Edit, LabTypes
    <2> QED
      BY <1>1, <2>1, <2>2 DEF BootReads
  <1>9. ASSUME NEW g \in File, Restore(g) PROVE FALSE
    BY <1>9, NoneIsNoScript DEF Restore
  <1> QED
    BY <1>2, <1>3, <1>4, <1>5, <1>6, <1>7, <1>8, <1>9
       DEF Next, Work, Fail, Break, Interrupt, Stopping

LEMMA DirectCompares ==
    ASSUME LabTypes, Admit("direct"), NEW f \in Game
    PROVE  kept'[Bundled(f)] = results[Latest("boot")].hashes[f]
  <1>1. <<Bundled(f), "boot", f>> \in Admits["direct"].equal
    <2>1. <<Bundled(f), "boot", f>> \in directAdmits.equal
      BY DEF directAdmits, Open, Game, Bundled
    <2> QED
      BY <2>1 DEF Admits
  <1>2. version[Bundled(f)] = results[Latest("boot")].hashes[f]
    BY <1>1 DEF Admit, Admissible
  <1>3. Bundled(f) \in AtAdmission("direct")
    BY <1>1 DEF AtAdmission
  <1>4. kept' = Kept(AtAdmission("direct"))
    BY DEF Admit, AtAdmission
  <1> QED
    BY <1>2, <1>3, <1>4, GameFiles DEF Kept

LEMMA NextKeepsDirect ==
    LabTypes /\ ScriptInv /\ DirectKeeps /\ [Next]_vars => DirectKeeps'
  <1> SUFFICES ASSUME LabTypes, ScriptInv, DirectKeeps, [Next]_vars,
                      script' = "direct", phase' \in Active, NEW f \in Game
               PROVE  kept'[Bundled(f)] = results'[Latest("boot")'].hashes[f]
    BY DEF DirectKeeps
  <1>1. results' = results /\ Latest("boot")' = Latest("boot")
    <2>1. results' = results
      BY ActiveKeepsResults
    <2> QED
      BY <2>1 DEF Latest
  <1>2. CASE Admit("direct")
    BY <1>1, <1>2, DirectCompares
  <1>3. CASE phase \in Active /\ script = "direct"
    <2>1. Bundled(f) \in File
      BY GameFiles
    <2>2. kept[Bundled(f)] = results[Latest("boot")].hashes[f]
      BY <1>3 DEF DirectKeeps
    <2>3. kept'[Bundled(f)] = kept[Bundled(f)]
      <3>1. CASE UNCHANGED vars
        BY <3>1 DEF vars
      <3>2. ASSUME NEW s \in Script, Admit(s) PROVE FALSE
        BY <1>3, <3>2 DEF Admit
      <3>3. CASE Prepare
        <4>1. Builds["direct"].hashes = {}
          BY DEF Builds, directBuilds, Plain
        <4> QED
          BY <1>3, <2>1, <3>3, <4>1 DEF Prepare, Kept
      <3>4. CASE Conclude \/ Stopping
        BY <3>4, StoppingEnds DEF Conclude, End, Terminate, Active
      <3>5. CASE Compile \/ BeginStep \/ Launch \/ Await \/ Proceed \/ Signal \/ Exit \/ Tick
        BY <3>5 DEF Compile, BeginStep, Launch, Await, Proceed, Signal, Exit, Tick
      <3>6. ASSUME NEW g \in File, Edit(g) \/ Restore(g) PROVE kept' = kept
        BY <3>6 DEF Edit, Restore
      <3> QED
        BY <3>1, <3>2, <3>3, <3>4, <3>5, <3>6 DEF Next, Work, Fail, Break, Interrupt, Stopping
    <2> QED
      BY <1>1, <2>2, <2>3
  <1> QED
    BY <1>2, <1>3, ActiveKeepsResults

GameSupport == LabTypes /\ ScriptInv /\ RestInv /\ ChainInv /\ BootReads /\ DirectKeeps

LEMMA GameSupportInvariant == Spec => []GameSupport
  <1>1. Init => BootReads /\ DirectKeeps
    BY DEF Init, BootReads, DirectKeeps
  <1> QED
    BY <1>1, NextKeepsBootReads, NextKeepsDirect, RestInvariant, ChainInvariant,
       TypesInvariant, ScriptInvariant, PTL DEF Spec, GameSupport

LEMMA NextKeepsGame == GameSupport /\ GameInv /\ [Next]_vars => GameInv'
  <1> SUFFICES ASSUME GameSupport, GameInv, [Next]_vars PROVE GameInv'
    OBVIOUS
  <1> USE DEF GameSupport
  <1>1. CASE results' = results
    BY <1>1 DEF GameInv
  <1>2. CASE Conclude /\ \E r \in Result : Written(r)
    <2>1. PICK r \in Result : Written(r)
      BY <1>2
    <2>2. /\ DOMAIN results \subseteq DOMAIN results'
          /\ \A i \in DOMAIN results : results'[i] = results[i]
          /\ \A i \in DOMAIN results' : i \in DOMAIN results \/ results'[i] = r
      BY <2>1, Appended DEF Written, LabTypes
    <2>3. ASSUME NEW i \in DOMAIN results, results[i].script = "direct"
          PROVE  results[i].bases["boot"] \in DOMAIN results
      BY <2>3 DEF ChainInv, OneChain
    <2>4. ASSUME script = "boot", NEW f \in Game PROVE r.used[f] # {}
      <3>1. phase = "ran"
        BY <1>2, <2>4, BootRow DEF Conclude, Steps
      <3> QED
        BY <2>1, <2>4, <3>1 DEF Written, BootReads
    <2>5. ASSUME script = "direct", NEW f \in Game
          PROVE  /\ r.bases["boot"] \in DOMAIN results
                 /\ r.hashes[Bundled(f)] = results[r.bases["boot"]].hashes[f]
      <3>1. phase \in Active
        BY <1>2 DEF Conclude, Active
      <3>2. r.bases["boot"] = Latest("boot")
        BY <2>1, <2>5, DirectRow DEF Written
      <3>3. Latest("boot") \in DOMAIN results
        <4>1. Latest("boot") # 0
          BY <2>5, <3>1 DEF RestInv, DirectRests
        <4> QED
          BY <4>1, LatestIsNewest, LenProperties DEF LabTypes
      <3>4. r.hashes[Bundled(f)] = kept[Bundled(f)]
        <4>1. Concludes["direct"].last = {}
          BY DEF Concludes, directConcludes, Silent
        <4> QED
          BY <2>1, <2>5, <4>1, GameFiles DEF Written, Kept
      <3> QED
        BY <2>5, <3>1, <3>2, <3>3, <3>4 DEF DirectKeeps
    <2>6. r.script = script
      BY <2>1 DEF Written
    <2>7. ASSUME NEW i \in DOMAIN results', NEW f \in Game
          PROVE  /\ results'[i].script = "boot" => results'[i].used[f] # {}
                 /\ results'[i].script = "direct" =>
                       results'[i].hashes[Bundled(f)] = results'[results'[i].bases["boot"]].hashes[f]
      <3>1. CASE i \in DOMAIN results
        BY <2>2, <2>3, <3>1 DEF GameInv
      <3>2. CASE results'[i] = r
        BY <2>2, <2>4, <2>5, <2>6, <3>2
      <3> QED
        BY <2>2, <3>1, <3>2
    <2> QED
      BY <2>7 DEF GameInv
  <1> QED
    BY <1>1, <1>2, ResultsOnlyGrow

LEMMA GameInvariant == Spec => []GameInv
  <1>1. Init => GameInv
    BY DEF Init, GameInv
  <1> QED
    BY <1>1, NextKeepsGame, GameSupportInvariant, PTL DEF Spec

\* The disc image and the executable inside a direct candidate's base app are
\* those that its boot probe ran, and no others, when that probe found its
\* inputs unchanged: however they change before, between and during the runs.
THEOREM GameHolds == Spec => []AcceptedGameWasTested
  <1>1. ChainInv /\ GameInv /\ EvidenceIsOfWhatRan => AcceptedGameWasTested
    <2> SUFFICES ASSUME ChainInv, GameInv, EvidenceIsOfWhatRan, NEW i \in DOMAIN results,
                        results[i].script = "direct",
                        results[results[i].bases["boot"]].unchanged, NEW f \in Game
                 PROVE  results[results[i].bases["boot"]].used[f]
                           = {results[i].hashes[Bundled(f)]}
      BY DEF AcceptedGameWasTested, Game, Bundled
    <2>1. PICK b \in DOMAIN results : b = results[i].bases["boot"] /\ results[b].script = "boot"
      BY DEF ChainInv, OneChain
    <2>2. f \in Vouched("boot")
      BY DEF Vouched, Game
    <2>3. results[b].used[f] \subseteq {results[b].hashes[f]}
      BY <2>1, <2>2 DEF EvidenceIsOfWhatRan
    <2>4. results[b].used[f] # {} /\ results[i].hashes[Bundled(f)] = results[b].hashes[f]
      BY <2>1 DEF GameInv
    <2> QED
      BY <2>1, <2>3, <2>4
  <1> QED
    BY <1>1, ChainInvariant, GameInvariant, EvidenceHolds, PTL
=============================================================================
