----------------------------- MODULE MCMakeBuild -----------------------------
(***************************************************************************)
(* Instances of MakeBuild for TLC.  make runs as often as it likes; the    *)
(* number of disturbances of a behaviour (edits, cleans, failures, kills)  *)
(* is bounded by Disturbances.                                             *)
(***************************************************************************)
EXTENDS MakeBuild, TLC

CONSTANT Disturbances

VARIABLE left       \* disturbances still to come

mcvars == <<vars, left>>

\* The versions of a source are only compared with each other, so which one it starts
\* with makes no difference; a later compiler at the start would be one that is never
\* replaced.
MCInit ==
    /\ Init /\ left = Disturbances
    /\ \A s, t \in SourceFiles : value[s] = value[t]
    /\ \A c \in Compilers : value[Compiler] <= c

MCDisturb(D) == left > 0 /\ left' = left - 1 /\ D

MCBuild == Build /\ UNCHANGED left

MCSpec == MCInit /\ [][MCBuild \/ MCDisturb(Disturb)]_mcvars /\ Fairness

MCVirSpec   == MCInit /\ [][MCBuild \/ MCDisturb(LeaveVir)]_mcvars /\ Fairness
MCToolsSpec == MCInit /\ [][MCBuild \/ MCDisturb(SwitchTools)]_mcvars /\ Fairness

\* Nothing tells two versions of a source file apart but being different.
VersionSymmetry == Permutations(Versions)
==============================================================================
