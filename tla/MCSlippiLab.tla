----------------------------- MODULE MCSlippiLab -----------------------------
EXTENDS SlippiLab

Touched(scripts) ==
    UNION {Admits[s].pinned \cup Admits[s].hashes \cup {e[1] : e \in Admits[s].equal}
           \cup Builds[s].copies \cup Builds[s].hashes \cup Builds[s].reads
           \cup Runs[s].reads : s \in scripts}

Plan(scripts, reruns, edits, files, slices) ==
    [scripts |-> scripts, reruns |-> reruns, edits |-> edits, files |-> files, slices |-> slices]

\* The way from the component probe to the direct candidate: with one change
\* of any file, with several of the disc image, and with a script run again;
\* then the scripts beside it.
Chain == {"exi", "boot", "local", "link", "online", "direct"}
MCPlans ==
    {Plan(Chain, 0, 1, Touched(Chain), 1),
     Plan(Chain, 0, 3, {"iso", "bundle iso"}, 1),
     Plan(Chain, 1, 0, {}, 1)}
    \cup {Plan(s, 0, 1, Touched(s), 2) :
             s \in {{"exi", "boot", "link", "package"}, {"exi", "boot", "snapshot"},
                       {"lab"}}}
    \cup {Plan({s}, 0, 2, Touched({s}), 2) :
             s \in {"peer", "resources", "hooks", "unfused"}}
=============================================================================
