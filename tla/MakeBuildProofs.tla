--------------------------- MODULE MakeBuildProofs ---------------------------
(***************************************************************************)
(* Proofs about MakeBuild, for any number of library crates, mutants,      *)
(* versions and configurations, and any -j.                                *)
(*                                                                         *)
(* The argument has two halves.  Over time: a target none of whose files   *)
(* is newer holds what its recipe would put there now (CleanMeansCurrent), *)
(* which needs to know what a make under way has established (RunInv).     *)
(* Along the graph, in one state: if that is so of every target, and none  *)
(* has a newer prerequisite, the object is the one of a build from         *)
(* scratch.  cargo's target may be older than the toolchain stamp all the  *)
(* same: it is right where it was made by the compiler there is (Settled). *)
(* From the same invariant: what a make verify that succeeds has shown,    *)
(* what a step of make may never do, and that the build implements         *)
(* VerifiedBuild.                                                          *)
(***************************************************************************)
EXTENDS MakeBuild, WellFoundedInduction, TLAPS

------------------------------------------------------------------------------
(* The graph of rules.mk. *)

LEMMA TargetCases ==
    ASSUME NEW t \in Targets
    PROVE  \/ t = TOOLCHAIN_STAMP \/ t = Runtime \/ t = CargoTools \/ t = HostBtf
           \/ \E i \in Crates : t = VIR(i)
           \/ \E i \in Crates : t = BPF_RLIB(i)
           \/ t = VerifyStamp \/ t = UserCoreStamp
           \/ \E m \in Mutants : t = MutantStamp(m)
           \/ t = ProgBc \/ t = Extracted \/ t = Linked \/ t = Obj
  BY DEF Targets, Products, Verifications, LIB_VIRS, LIB_BPF_RLIBS, MUTANT_STAMPS, UserCoreStamps

LEMMA Rules ==
    /\ FilesRead(TOOLCHAIN_STAMP) = {}
    /\ FilesRead(Runtime) = {TOOLCHAIN_STAMP}
    /\ FilesRead(CargoTools) = {TOOLCHAIN_STAMP}
    /\ FilesRead(HostBtf) = {TOOLCHAIN_STAMP}
    /\ \A i \in Crates : FilesRead(VIR(i)) = VirPrereqs(i)
    /\ \A i \in Crates : FilesRead(BPF_RLIB(i)) = RlibReads(i)
    /\ FilesRead(VerifyStamp) = StampPrereqs
    /\ FilesRead(UserCoreStamp) = {USER_CORE, TOOLCHAIN_STAMP}
    /\ \A m \in Mutants : FilesRead(MutantStamp(m)) = {Patch(m), SRC, CargoTools, HostBtf} \union LIB_VIRS
    /\ FilesRead(ProgBc) = ProgReads
    /\ FilesRead(Extracted) = {Runtime} \union LIB_BPF_RLIBS
    /\ FilesRead(Linked) = {ProgBc, Extracted}
    /\ FilesRead(Obj) = {Linked, CargoTools}
  BY DEF FilesRead, TOOLCHAIN_STAMP, Runtime, CargoTools, HostBtf, VIR, BPF_RLIB, VerifyStamp,
         UserCoreStamp, MutantStamp, ProgBc, Extracted, Linked, Obj

LEMMA InputsAreNoTargets == Inputs \intersect Targets = {}
<1> SUFFICES ASSUME NEW t \in Targets, t \in Inputs PROVE FALSE
  OBVIOUS
<1>1. t[1] \in {"lib.rs", "main.rs", "user_core.rs", "patch", "compiler", "config", "tools"}
  BY DEF Inputs, SourceFiles, SRCS, SRC, USER_CORE, Patch, Compiler, Config, Tools
<1>2. t[1] \notin {"lib.rs", "main.rs", "user_core.rs", "patch", "compiler", "config", "tools"}
  BY TargetCases DEF TOOLCHAIN_STAMP, Runtime, CargoTools, HostBtf, VIR, BPF_RLIB, VerifyStamp,
         UserCoreStamp, MutantStamp, ProgBc, Extracted, Linked, Obj
<1> QED BY <1>1, <1>2

\* A recipe reads targets and source files, never its own target, and every
\* recipe but that of the stamp has a prerequisite cargo does not write.
LEMMA Graph ==
    ASSUME NEW t \in Targets
    PROVE  /\ FilesRead(t) \subseteq Targets \union SourceFiles
           /\ t \notin FilesRead(t)
           /\ t # TOOLCHAIN_STAMP => \E p \in Targets \ {CargoTools} : p \in FilesRead(t)
<1> DEFINE Good(u) == /\ FilesRead(u) \subseteq Targets \union SourceFiles
                      /\ u \notin FilesRead(u)
                      /\ u # TOOLCHAIN_STAMP => \E p \in Targets \ {CargoTools} : p \in FilesRead(u)
<1> USE DEF TOOLCHAIN_STAMP, Runtime, CargoTools, HostBtf, VIR, BPF_RLIB, VerifyStamp,
         UserCoreStamp, MutantStamp, ProgBc, Extracted, Linked, Obj, SRCS, SRC, USER_CORE, Patch
<1>a. {TOOLCHAIN_STAMP, Runtime, CargoTools, HostBtf, VerifyStamp, ProgBc, Extracted, Linked, Obj}
          \union LIB_VIRS \union LIB_BPF_RLIBS \subseteq Targets
  BY DEF Targets, Products, Verifications
<1>b. {SRC} \union {SRCS(i) : i \in Crates} \union {Patch(m) : m \in Mutants} \subseteq SourceFiles
  BY DEF SourceFiles
<1>c. \A i \in Crates : PREV(i) \subseteq Crates /\ i \notin PREV(i)
  BY ConstantsOK DEF Crates, PREV
<1>1. CASE t \in {TOOLCHAIN_STAMP, Runtime, CargoTools, HostBtf}
  BY <1>1, <1>a, Rules
<1>2. CASE \E i \in Crates : t = VIR(i)
  <2>1. PICK i \in Crates : t = VIR(i)
    BY <1>2
  <2>2. FilesRead(t) = VirPrereqs(i)
    BY <2>1, Rules
  <2> QED BY <2>1, <2>2, <1>a, <1>b, <1>c DEF VirPrereqs, LIB_VIRS
<1>3. CASE \E i \in Crates : t = BPF_RLIB(i)
  <2>1. PICK i \in Crates : t = BPF_RLIB(i)
    BY <1>3
  <2>2. FilesRead(t) = RlibReads(i)
    BY <2>1, Rules
  <2> QED BY <2>1, <2>2, <1>a, <1>b, <1>c DEF RlibReads, LIB_BPF_RLIBS
<1>4. CASE t = VerifyStamp
  BY <1>4, <1>a, <1>b, Rules DEF StampPrereqs, LIB_VIRS
<1>5. CASE t = UserCoreStamp
  <2>1. HasUserCore
    BY <1>5 DEF Targets, Products, Verifications, LIB_VIRS, LIB_BPF_RLIBS, MUTANT_STAMPS,
                UserCoreStamps
  <2> QED BY <2>1, <1>5, <1>a, Rules DEF SourceFiles
<1>6. CASE \E m \in Mutants : t = MutantStamp(m)
  <2>1. PICK m \in Mutants : t = MutantStamp(m)
    BY <1>6
  <2>2. FilesRead(t) = {Patch(m), SRC, CargoTools, HostBtf} \union LIB_VIRS
    BY <2>1, Rules
  <2> QED BY <2>1, <2>2, <1>a, <1>b DEF LIB_VIRS
<1>7. CASE t = ProgBc \/ t = Extracted
  BY <1>7, <1>a, <1>b, Rules DEF ProgReads, LIB_BPF_RLIBS
<1>8. CASE t = Linked \/ t = Obj
  BY <1>8, <1>a, Rules
<1> QED BY <1>1, <1>2, <1>3, <1>4, <1>5, <1>6, <1>7, <1>8, TargetCases

\* Order-only or not, what orders t after its verification is a target.
LEMMA DepsAreTargets == \A t \in Targets : VerifyDeps(t) \subseteq Targets
<1> SUFFICES ASSUME NEW t \in Targets PROVE VerifyDeps(t) \subseteq Targets
  OBVIOUS
<1>1. CASE t[1] = "rlib"
  <2>1. PICK i \in Crates : t = BPF_RLIB(i)
    BY <1>1, TargetCases DEF TOOLCHAIN_STAMP, Runtime, CargoTools, HostBtf, VIR, BPF_RLIB, VerifyStamp,
         UserCoreStamp, MutantStamp, ProgBc, Extracted, Linked, Obj
  <2> QED BY <2>1 DEF VerifyDeps, BPF_RLIB, Targets, Verifications, LIB_VIRS
<1>2. CASE t[1] = "prog.bc"
  BY <1>2 DEF VerifyDeps, Targets, Verifications
<1>3. CASE t[1] \notin {"rlib", "prog.bc"}
  BY <1>3 DEF VerifyDeps
<1> QED BY <1>1, <1>2, <1>3

\* The compiler, the configuration and the choice of tools are read, but are
\* nobody's prerequisites.
Settings == Recorded \union {Tools}

LEMMA SettingsAreNoFiles ==
    /\ Settings \intersect SourceFiles = {} /\ Tools \notin Recorded
    /\ \A t \in Targets : Settings \intersect FilesRead(t) = {}
<1>1. Settings \intersect SourceFiles = {} /\ Tools \notin Recorded
  BY DEF Settings, Recorded, SourceFiles, Compiler, Config, Tools, SRCS, SRC, USER_CORE, Patch
<1>2. Settings \subseteq Inputs
  BY DEF Inputs, Settings, Recorded
<1> QED BY <1>1, <1>2, Graph, InputsAreNoTargets

------------------------------------------------------------------------------
(* Types. *)

LEMMA InitType == Init => TypeOK
  BY DEF Init, TypeOK

Pairs == Inputs \X Contents

LEMMA SnapshotType == ASSUME TypeOK, NEW t \in Targets PROVE Snapshot(t) \subseteq Pairs
<1>1. \A p \in Reads(t) \ Inputs : made[p] \subseteq Pairs
  <2>1. Reads(t) \ Inputs \subseteq Targets
    BY Graph DEF Reads, Inputs, Recorded
  <2> QED BY <2>1 DEF TypeOK, Pairs
<1>2. \A s \in Inputs : <<s, value[s]>> \in Pairs
  BY DEF TypeOK, Pairs
<1> SUFFICES ASSUME NEW x \in Snapshot(t) PROVE x \in Pairs
  OBVIOUS
<1>3. \/ \E p \in Reads(t) \ Inputs : x \in made[p]
      \/ \E s \in Reads(t) \intersect Inputs : x = <<s, value[s]>>
  BY Zenon DEF Snapshot
<1> QED BY <1>1, <1>2, <1>3

LEMMA TouchedType ==
    ASSUME TypeOK, NEW f \in Targets \union Inputs
    PROVE  Touched(f) \in [Targets -> SUBSET (Targets \union Inputs)]
  BY DEF TypeOK, Touched

LEMMA WriteType ==
    ASSUME TypeOK, NEW t \in Targets, NEW q \in SUBSET Pairs,
           NEW o \in VerusOutcomes \union {"ok", "fails"}, Write(t, q, o)
    PROVE  /\ exists' \subseteq Targets
           /\ newer' \in [Targets -> SUBSET (Targets \union Inputs)]
           /\ made' \in [Targets -> SUBSET Pairs]
           /\ outcome' \in [Targets -> VerusOutcomes \union {"ok", "fails", "none"}]
<1>1. newer' \in [Targets -> SUBSET (Targets \union Inputs)]
  BY TouchedType DEF Write
<1> QED BY <1>1 DEF Write, TypeOK, Pairs

LEMMA StampType == ASSUME TypeOK PROVE StampContent \in SUBSET Pairs
  BY DEF TypeOK, StampContent, Recorded, Pairs, Inputs

LEMMA TypeStep == TypeOK /\ [Next]_vars => TypeOK'
<1> SUFFICES ASSUME TypeOK, [Next]_vars PROVE TypeOK'
  OBVIOUS
<1>t. TypeOK <=> /\ value \in [Inputs -> Contents]
                 /\ \A s \in Inputs : value[s] \in Values(s)
                 /\ exists \subseteq Targets
                 /\ newer \in [Targets -> SUBSET (Targets \union Inputs)]
                 /\ made \in [Targets -> SUBSET Pairs]
                 /\ outcome \in [Targets -> VerusOutcomes \union {"ok", "fails", "none"}]
                 /\ phase \in {"idle", "running", "failed"}
                 /\ goal \in Goals
                 /\ updated \subseteq Targets
                 /\ jobs \subseteq Targets
                 /\ reading \in [Targets -> SUBSET Pairs]
                 /\ status \in {"none", "ok", "error"}
  BY DEF TypeOK, Pairs
<1>1. ASSUME NEW s \in Inputs \ {Tools}, Edit(s) PROVE TypeOK'
  <2>1. PICK v \in Contents : Change(s, v)
    BY <1>1 DEF Edit
  <2>2. value' \in [Inputs -> Contents] /\ \A r \in Inputs : value'[r] \in Values(r)
    BY <2>1 DEF Change, TypeOK
  <2>3. newer' \in [Targets -> SUBSET (Targets \union Inputs)]
    BY <2>1 DEF Change, Touched, TypeOK, AllPrereqs, Inputs
  <2> QED BY <2>1, <2>2, <2>3 DEF Change, TypeOK, run
<1>2. ASSUME NEW ts, Remove(ts) PROVE TypeOK'
  <2>1. /\ newer' \in [Targets -> SUBSET (Targets \union Inputs)]
        /\ made' \in [Targets -> SUBSET Pairs]
        /\ outcome' \in [Targets -> VerusOutcomes \union {"ok", "fails", "none"}]
    BY <1>2, <1>t DEF Remove
  <2> QED BY <1>2, <2>1 DEF Remove, TypeOK, run, Pairs
<1>3. ASSUME NEW g \in Goals, RunMake(g) PROVE TypeOK'
  BY <1>3 DEF RunMake, TypeOK, files
<1>4. CASE PassOver
  BY <1>4 DEF PassOver, Passable, TypeOK, files
<1>5. CASE Stamp
  <2>1. TOOLCHAIN_STAMP \in Targets
    BY DEF Targets
  <2>2. CASE UNCHANGED files
    BY <1>5, <2>1, <2>2 DEF Stamp, TypeOK, files
  <2>3. CASE Write(TOOLCHAIN_STAMP, StampContent, "ok")
    BY <1>5, <2>1, <2>3, WriteType, StampType, <1>t DEF Stamp, TypeOK, Pairs
  <2> QED BY <1>5, <2>2, <2>3 DEF Stamp
<1>6. ASSUME NEW t \in Targets, Start(t) PROVE TypeOK'
  <2>1. Snapshot(t) \in SUBSET Pairs
    BY SnapshotType
  <2>2. reading' \in [Targets -> SUBSET Pairs] /\ jobs' \subseteq Targets
    BY <1>6, <2>1, <1>t DEF Start
  <2>3. CASE UNCHANGED files
    BY <1>6, <2>2, <2>3 DEF Start, TypeOK, files, Pairs
  <2>4. CASE Write(t, Snapshot(t), "fails")
    BY <1>6, <2>1, <2>2, <2>4, WriteType DEF Start, TypeOK, Pairs
  <2> QED BY <1>6, <2>3, <2>4 DEF Start
<1>7. ASSUME NEW t \in Targets, Finish(t) PROVE TypeOK'
  <2>1. reading[t] \in SUBSET Pairs
    BY <1>t
  <2>2. reading' \in [Targets -> SUBSET Pairs] /\ jobs' \subseteq Targets /\ updated' \subseteq Targets
    BY <1>7, <1>t DEF Finish, EndJob
  <2>3. CASE UNCHANGED files
    BY <1>7, <2>2, <2>3 DEF Finish, TypeOK, files, Pairs
  <2>4. CASE \E o \in Outcomes(t) : Write(t, reading[t], o)
    <3>1. PICK o \in Outcomes(t) : Write(t, reading[t], o)
      BY <2>4
    <3>2. o \in VerusOutcomes \union {"ok", "fails"}
      BY DEF Outcomes
    <3> QED BY <1>7, <2>1, <2>2, <3>1, <3>2, WriteType DEF Finish, TypeOK, Pairs
  <2> QED BY <1>7, <2>3, <2>4 DEF Finish
<1>8. ASSUME NEW t \in Targets, Fail(t) PROVE TypeOK'
  BY <1>8 DEF Fail, EndJob, TypeOK, files
<1>9. CASE Exit
  BY <1>9 DEF Exit, TypeOK, files
<1>10. CASE Kill
  BY <1>10 DEF Kill, TypeOK, files
<1>11. CASE UNCHANGED vars
  BY <1>11 DEF vars, files, run, TypeOK
<1> QED
  BY <1>1, <1>2, <1>3, <1>4, <1>5, <1>6, <1>7, <1>8, <1>9, <1>10, <1>11
     DEF Next, Build, Make, Disturb, clean, distclean

\* The variables have the values the comments of MakeBuild say.
THEOREM TypeCorrect == Spec => []TypeOK
  BY InitType, TypeStep, PTL DEF Spec

------------------------------------------------------------------------------
(* What a make under way has established. *)

\* The targets t's recipe reads.
Parts(t) == FilesRead(t) \ Inputs

Now(s) == <<s, value[s]>>

\* All but cargo's tools are made with the compiler and the configuration there are.
Knows(t) == t # CargoTools => StampContent \subseteq made[t]

RunInv ==
    /\ phase = "idle" => jobs = {} /\ updated = {}
    /\ phase # "idle" => status = "none"
    /\ jobs \intersect updated = {} /\ TOOLCHAIN_STAMP \notin jobs
    /\ jobs \subseteq Needed(goal, VERIFY_ON)
    /\ \A t \in jobs \union updated : Prereqs(t, VERIFY_ON) \ Inputs \subseteq updated
    /\ \A t \in updated : Settled(t) /\ Knows(t)
    /\ TOOLCHAIN_STAMP \in updated => made[TOOLCHAIN_STAMP] = StampContent
    /\ \A t \in jobs : reading[t] = Snapshot(t)

LEMMA ReadsNoInputTargets ==
    ASSUME NEW t \in Targets
    PROVE  /\ Reads(t) \ Inputs \subseteq Parts(t)
           /\ t # CargoTools => Reads(t) \ Inputs = Parts(t) /\ Recorded \subseteq Reads(t) \intersect Inputs
           /\ Parts(t) \subseteq Targets
           /\ Parts(t) \subseteq Prereqs(t, VERIFY_ON) \ Inputs
<1>1. Recorded \subseteq Inputs /\ Compiler \in Inputs /\ Tools \in Inputs
  BY DEF Inputs, Recorded
<1> QED BY <1>1, Graph DEF Reads, Parts, Inputs, Prereqs, AllPrereqs

\* What cargo goes by.
LEMMA CargoReads ==
    /\ CargoTools \in Targets /\ CargoTools # TOOLCHAIN_STAMP /\ CargoTools # Linked
    /\ Parts(CargoTools) = {TOOLCHAIN_STAMP}
    /\ Snapshot(CargoTools) = {Now(Compiler)}
    /\ Rebuilt(CargoTools) = Part(made[TOOLCHAIN_STAMP], {Compiler})
    /\ Part(StampContent, {Compiler}) = {Now(Compiler)}
<1>1. CargoTools \in Targets /\ CargoTools # TOOLCHAIN_STAMP /\ CargoTools # Linked /\ TOOLCHAIN_STAMP \in Targets
  BY DEF Targets, Products, CargoTools, TOOLCHAIN_STAMP, Linked
<1>2. Parts(CargoTools) = {TOOLCHAIN_STAMP}
  BY <1>1, Rules, InputsAreNoTargets DEF Parts
<1>3. Reads(CargoTools) = {Compiler} /\ Compiler \in Inputs /\ Compiler \in Recorded
  BY DEF Reads, Inputs, Recorded
<1>4. Snapshot(CargoTools) = {Now(Compiler)}
  BY <1>3 DEF Snapshot, Now
<1>5. Rebuilt(CargoTools) = Part(made[TOOLCHAIN_STAMP], {Compiler})
  BY <1>2, <1>3 DEF Rebuilt, Parts
<1>6. Part(StampContent, {Compiler}) = {Now(Compiler)}
  BY DEF Part, StampContent, Recorded, Now, Compiler, Config
<1> QED BY <1>1, <1>2, <1>4, <1>5, <1>6

\* When its parts have been dealt with, what t's recipe reads is what CleanMeansCurrent
\* says t should hold: the compiler and the configuration are in the parts already.
LEMMA SnapshotIsRebuilt ==
    ASSUME TypeOK, RunInv, NEW t \in Targets, t # TOOLCHAIN_STAMP, Parts(t) \subseteq updated
    PROVE  /\ Snapshot(t) = Rebuilt(t)
           /\ t # CargoTools => StampContent \subseteq Rebuilt(t)
<1>1. CASE t = CargoTools
  BY <1>1, CargoReads DEF RunInv
<1>2. CASE t # CargoTools
  <2>1. PICK p \in Parts(t) : StampContent \subseteq made[p]
    <3>1. PICK p \in Targets \ {CargoTools} : p \in FilesRead(t)
      BY Graph
    <3>2. p \in Parts(t)
      BY <3>1, InputsAreNoTargets DEF Parts
    <3> QED BY <3>1, <3>2 DEF RunInv, Knows
  <2>2. Reads(t) \ Inputs = Parts(t) /\ Recorded \subseteq Reads(t) \intersect Inputs
    BY <1>2, ReadsNoInputTargets
  <2>3. \A x : x \in Snapshot(t) <=> \/ \E q \in Parts(t) : x \in made[q]
                                     \/ \E s \in Reads(t) \intersect Inputs : x = Now(s)
    BY <2>2, Zenon DEF Snapshot, Now
  <2>4. \A x : x \in Rebuilt(t) <=> \/ \E q \in Parts(t) : x \in made[q]
                                    \/ \E s \in (Reads(t) \intersect Inputs) \ Recorded : x = Now(s)
    BY <1>2, Zenon DEF Rebuilt, Now, Parts
  <2>5. \A s \in Recorded : Now(s) \in made[p]
    BY <2>1 DEF StampContent, Now
  <2>6. \A x : x \in Snapshot(t) <=> x \in Rebuilt(t)
    BY <2>2, <2>3, <2>4, <2>5
  <2>7. StampContent \subseteq Rebuilt(t)
    BY <2>1, <2>4
  <2> QED BY <2>6, <2>7, Zenon
<1> QED BY <1>1, <1>2

------------------------------------------------------------------------------
(* The steps that write files keep CleanMeansCurrent. *)

LEMMA WriteKeepsClean ==
    ASSUME TypeOK, CleanMeansCurrent, UNCHANGED value, NEW u \in Targets, NEW q, NEW o, Write(u, q, o),
           u # TOOLCHAIN_STAMP => q = Rebuilt(u)
    PROVE  CleanMeansCurrent'
<1> SUFFICES ASSUME NEW t \in Targets \ {TOOLCHAIN_STAMP}, Fresh(t)' PROVE made'[t] = Rebuilt(t)'
  BY DEF CleanMeansCurrent
<1>1. ASSUME u \notin FilesRead(t) PROVE Rebuilt(t)' = Rebuilt(t)
  <2>1. \A p \in FilesRead(t) \ Inputs : made'[p] = made[p]
    <3>1. FilesRead(t) \ Inputs \subseteq Targets
      BY Graph DEF Inputs
    <3> QED BY <1>1, <3>1 DEF Write, TypeOK
  <2> QED BY <2>1 DEF Rebuilt
<1>2. CASE t = u
  <2>1. u \notin FilesRead(t)
    BY <1>2, Graph
  <2>2. made'[t] = q
    BY <1>2 DEF Write, TypeOK
  <2> QED BY <1>1, <1>2, <2>1, <2>2
<1>3. CASE t # u
  <2>1. t \in exists /\ newer'[t] = Touched(u)[t]
    BY <1>3 DEF Fresh, Write, TypeOK, Touched
  <2>2. u \notin FilesRead(t)
    <3>1. ASSUME u \in FilesRead(t) PROVE u \in newer'[t]
      BY <2>1, <3>1 DEF Touched, AllPrereqs
    <3> QED BY <3>1 DEF Fresh
  <2>3. newer[t] \subseteq newer'[t]
    BY <2>1 DEF Touched
  <2>4. FilesRead(t) \ Inputs \subseteq exists
    BY <2>2 DEF Fresh, Write
  <2>5. Fresh(t)
    BY <2>1, <2>3, <2>4 DEF Fresh
  <2>6. made'[t] = made[t]
    BY <1>3 DEF Write, TypeOK
  <2> QED BY <1>1, <2>2, <2>5, <2>6 DEF CleanMeansCurrent
<1> QED BY <1>2, <1>3

LEMMA ChangeKeepsClean ==
    ASSUME TypeOK, CleanMeansCurrent, NEW s \in Inputs \ {Tools}, NEW v, Change(s, v)
    PROVE  CleanMeansCurrent'
<1> SUFFICES ASSUME NEW t \in Targets \ {TOOLCHAIN_STAMP}, Fresh(t)' PROVE made'[t] = Rebuilt(t)'
  BY DEF CleanMeansCurrent
<1>1. t \in exists /\ newer'[t] = Touched(s)[t]
  BY DEF Fresh, Change
<1>2. s \notin FilesRead(t)
  <2>1. ASSUME s \in FilesRead(t) PROVE s \in newer'[t]
    BY <1>1, <2>1 DEF Touched, AllPrereqs
  <2> QED BY <2>1 DEF Fresh
<1>3. Fresh(t)
  BY <1>1 DEF Fresh, Touched, Change
<1>4. \A r \in (Reads(t) \intersect Inputs) \ Recorded : value'[r] = value[r]
  BY <1>2 DEF Change, TypeOK, Reads, Recorded
<1>5. made' = made
  BY DEF Change
<1>6. Rebuilt(t)' = Rebuilt(t)
  BY <1>4, <1>5 DEF Rebuilt
<1> QED BY <1>3, <1>5, <1>6 DEF CleanMeansCurrent

LEMMA RemoveKeepsClean ==
    ASSUME TypeOK, CleanMeansCurrent, NEW ts, Remove(ts)
    PROVE  CleanMeansCurrent'
<1> SUFFICES ASSUME NEW t \in Targets \ {TOOLCHAIN_STAMP}, Fresh(t)' PROVE made'[t] = Rebuilt(t)'
  BY DEF CleanMeansCurrent
<1>1. exists' = exists \ ts /\ value' = value
  BY DEF Remove
<1>2. \A p \in Targets \ ts : made'[p] = made[p] /\ newer'[p] = newer[p]
  BY DEF Remove
<1>3. t \in Targets \ ts /\ FilesRead(t) \ Inputs \subseteq Targets \ ts
  BY <1>1, Graph DEF Fresh, TypeOK, Inputs
<1>4. Fresh(t)
  BY <1>1, <1>2, <1>3 DEF Fresh
<1>5. Rebuilt(t)' = Rebuilt(t)
  BY <1>1, <1>2, <1>3 DEF Rebuilt
<1> QED BY <1>2, <1>3, <1>4, <1>5 DEF CleanMeansCurrent

LEMMA SameFilesKeepClean ==
    ASSUME CleanMeansCurrent, UNCHANGED <<value, files>> PROVE CleanMeansCurrent'
  BY DEF CleanMeansCurrent, Fresh, Rebuilt, files

------------------------------------------------------------------------------
(* RunInv is kept.  A recipe that writes u disturbs nothing that has been dealt  *)
(* with: u is not among the prerequisites of that. *)

LEMMA WriteKeepsUpdated ==
    ASSUME TypeOK, RunInv, UNCHANGED value, NEW u \in Targets \ updated, NEW q, NEW o,
           Write(u, q, o), NEW t \in updated \union jobs
    PROVE  /\ Snapshot(t)' = Snapshot(t)
           /\ t \in updated => Settled(t)' /\ made'[t] = made[t]
<1>1. t \in Targets /\ Prereqs(t, VERIFY_ON) \ Inputs \subseteq updated
  BY DEF RunInv, TypeOK
<1>2. \A p \in Targets \ {u} : made'[p] = made[p]
  BY DEF Write, TypeOK
<1>3. \A p \in Parts(t) : p \in Targets \ {u}
  BY <1>1, ReadsNoInputTargets
<1>4. Snapshot(t)' = Snapshot(t)
  <2>1. Reads(t) \ Inputs \subseteq Parts(t)
    BY <1>1, ReadsNoInputTargets
  <2> QED BY <2>1, <1>2, <1>3 DEF Snapshot
<1>5. ASSUME t \in updated PROVE Settled(t)' /\ made'[t] = made[t]
  <2>1. t # u /\ Settled(t) /\ u \notin Prereqs(t, VERIFY_ON)
    BY <1>1, <1>5, InputsAreNoTargets DEF RunInv
  <2>2. t \in exists /\ newer'[t] \subseteq newer[t] \union {u} /\ t \in exists'
    BY <1>1, <2>1 DEF Write, Touched, TypeOK, UpToDate, Settled
  <2>3. Prereqs(t, VERIFY_ON)' = Prereqs(t, VERIFY_ON)
    BY DEF Prereqs, VERIFY_ON
  <2> QED BY <1>1, <1>2, <2>1, <2>2, <2>3 DEF UpToDate, Settled
<1> QED BY <1>4, <1>5

\* Steps of make in which no file is written keep what RunInv says of one target.
LEMMA SameFilesKeepUpdated ==
    ASSUME UNCHANGED <<value, files>>, NEW t
    PROVE  /\ UNCHANGED <<Snapshot(t), UpToDate(t), Settled(t), StampContent, Knows(t), VERIFY_ON, made>>
           /\ UNCHANGED Prereqs(t, VERIFY_ON)
           /\ UNCHANGED goal => UNCHANGED Needed(goal, VERIFY_ON)
<1>1. UNCHANGED <<Snapshot(t), StampContent, Knows(t), VERIFY_ON, made>>
  BY DEF files, Snapshot, StampContent, VERIFY_ON, Knows
<1>2. UNCHANGED Prereqs(t, VERIFY_ON) /\ (UNCHANGED goal => UNCHANGED Needed(goal, VERIFY_ON))
  BY <1>1 DEF Prereqs
<1>3. UNCHANGED UpToDate(t) /\ UNCHANGED Settled(t)
  BY <1>2 DEF UpToDate, Settled, files
<1> QED BY <1>1, <1>2, <1>3

\* What is dealt with is on disk.
LEMMA UpdatedExist == RunInv => updated \subseteq exists
  BY DEF RunInv, Settled, UpToDate

\* What is passed over is settled, and knows the compiler and the configuration.
LEMMA PassableIsSettled ==
    ASSUME TypeOK, RunInv, CleanMeansCurrent, NEW t \in Passable
    PROVE  Settled(t) /\ Knows(t)
<1>1. t \in Targets \ {TOOLCHAIN_STAMP} /\ Considered(t) /\ UpToDate(t)
  BY DEF Passable
<1>2. Parts(t) \subseteq updated
  BY <1>1, ReadsNoInputTargets DEF Considered
<1>3. FilesRead(t) \subseteq Prereqs(t, VERIFY_ON)
  BY DEF Prereqs, AllPrereqs
<1>4. Fresh(t)
  BY <1>1, <1>2, <1>3, UpdatedExist DEF Fresh, UpToDate, Parts
<1>5. made[t] = Rebuilt(t) /\ Rebuilt(t) = Snapshot(t) /\ Knows(t)
  BY <1>1, <1>2, <1>4, SnapshotIsRebuilt DEF CleanMeansCurrent, Knows
<1> QED BY <1>1, <1>5, CargoReads DEF Settled, UpToDate, Now

LEMMA RunStep ==
    ASSUME TypeOK, RunInv, CleanMeansCurrent, [Next]_vars PROVE RunInv'
<1> USE DEF RunInv
<1>1. ASSUME phase' = "idle", jobs' = {}, updated' = {} PROVE RunInv'
  BY <1>1
<1>2. ASSUME NEW s \in Inputs \ {Tools}, Edit(s) PROVE RunInv'
  BY <1>1, <1>2 DEF Edit, Change, run
<1>3. ASSUME NEW ts, Remove(ts) PROVE RunInv'
  BY <1>1, <1>3 DEF Remove, run
<1>4. ASSUME NEW g \in Goals, RunMake(g) PROVE RunInv'
  BY <1>4 DEF RunMake
<1>5. CASE PassOver
  <2>1. UNCHANGED <<value, files, phase, goal, jobs, reading, status>> /\ updated' = updated \union Passable
    BY <1>5 DEF PassOver
  <2>2. \A t \in Passable : /\ t \notin jobs /\ Settled(t) /\ t # TOOLCHAIN_STAMP
                            /\ Prereqs(t, VERIFY_ON) \ Inputs \subseteq updated
                            /\ Knows(t)
    BY PassableIsSettled DEF Passable, Considered
  <2>3. /\ \A t \in jobs' \union updated' : (Prereqs(t, VERIFY_ON) \ Inputs \subseteq updated)'
        /\ jobs' \intersect updated' = {} /\ TOOLCHAIN_STAMP \notin jobs'
        /\ (jobs \subseteq Needed(goal, VERIFY_ON))'
    BY <2>1, <2>2, SameFilesKeepUpdated
  <2>4. \A t \in updated' : Settled(t)' /\ Knows(t)'
    BY <2>1, <2>2, SameFilesKeepUpdated
  <2>5. \A t \in jobs' : reading'[t] = Snapshot(t)'
    BY <2>1, SameFilesKeepUpdated
  <2>6. TOOLCHAIN_STAMP \in updated' => made'[TOOLCHAIN_STAMP] = StampContent'
    BY <2>1, <2>2, SameFilesKeepUpdated
  <2>7. phase' # "idle" /\ status' = "none"
    BY <1>5, <2>1 DEF PassOver
  <2> QED BY <2>3, <2>4, <2>5, <2>6, <2>7
<1>6. CASE Stamp
  <2>1. UNCHANGED <<value, phase, goal, jobs, reading, status>> /\ phase = "running"
            /\ updated' = updated \union {TOOLCHAIN_STAMP} /\ TOOLCHAIN_STAMP \in Targets \ (updated \union jobs)
    BY <1>6 DEF Stamp, Considered, Targets
  <2>2. Prereqs(TOOLCHAIN_STAMP, VERIFY_ON) = {}
    BY Rules DEF Prereqs, AllPrereqs, VerifyDeps, TOOLCHAIN_STAMP
  <2>3. UNCHANGED <<VERIFY_ON, StampContent>>
    BY <2>1 DEF VERIFY_ON, StampContent
  <2>4. \A t \in Targets : UNCHANGED Prereqs(t, VERIFY_ON)
    BY <2>3 DEF Prereqs
  <2>5. UNCHANGED Needed(goal, VERIFY_ON)
    BY <2>1, <2>3
  <2>6. CASE UNCHANGED files /\ TOOLCHAIN_STAMP \in exists /\ made[TOOLCHAIN_STAMP] = StampContent
    <3>1. Settled(TOOLCHAIN_STAMP) /\ Knows(TOOLCHAIN_STAMP)
      BY <2>2, <2>6, CargoReads DEF UpToDate, Settled, Knows
    <3> QED BY <2>1, <2>2, <2>3, <2>4, <2>5, <2>6, <3>1, SameFilesKeepUpdated
  <2>7. CASE Write(TOOLCHAIN_STAMP, StampContent, "ok")
    <3>1. \A t \in updated \union jobs : /\ Snapshot(t)' = Snapshot(t)
                                         /\ t \in updated => Settled(t)' /\ made'[t] = made[t]
      BY <2>1, <2>7, WriteKeepsUpdated
    <3>2. made'[TOOLCHAIN_STAMP] = StampContent /\ TOOLCHAIN_STAMP \in exists'
      BY <2>1, <2>7 DEF Write, TypeOK
    <3>3. Settled(TOOLCHAIN_STAMP)'
      BY <2>1, <2>2, <2>4, <3>2, CargoReads DEF UpToDate, Settled
    <3>4. \A t \in updated' : Knows(t)'
      BY <2>1, <2>3, <3>1, <3>2 DEF Knows
    <3> QED BY <2>1, <2>2, <2>3, <2>4, <2>5, <3>1, <3>2, <3>3, <3>4 DEF TypeOK
  <2> QED BY <1>6, <2>6, <2>7 DEF Stamp
<1>7. ASSUME NEW t \in Targets, Start(t) PROVE RunInv'
  <2>1. UNCHANGED <<value, phase, goal, updated, status>> /\ jobs' = jobs \union {t} /\ phase = "running"
            /\ reading' = [reading EXCEPT ![t] = Snapshot(t)]
            /\ Considered(t) /\ t # TOOLCHAIN_STAMP
    BY <1>7 DEF Start
  <2>2. UNCHANGED VERIFY_ON /\ UNCHANGED StampContent
    BY <2>1 DEF VERIFY_ON, StampContent
  <2>3. \A u : UNCHANGED Prereqs(u, VERIFY_ON)
    BY <2>2 DEF Prereqs
  <2>4. UNCHANGED Needed(goal, VERIFY_ON)
    BY <2>1, <2>2
  <2>5. t \in Needed(goal, VERIFY_ON) \ (updated \union jobs)
            /\ Prereqs(t, VERIFY_ON) \ Inputs \subseteq updated
    BY <2>1 DEF Considered
  <2>6. /\ \A u \in updated \union jobs : /\ Snapshot(u)' = Snapshot(u)
                                          /\ u \in updated => Settled(u)' /\ made'[u] = made[u]
        /\ Snapshot(t)' = Snapshot(t)
    <3>1. CASE UNCHANGED files
      BY <2>1, <3>1, SameFilesKeepUpdated
    <3>2. CASE Write(t, Snapshot(t), "fails")
      <4>1. \A p \in Reads(t) \ Inputs : made'[p] = made[p]
        <5>1. Reads(t) \ Inputs \subseteq Parts(t) /\ Parts(t) \subseteq Targets \ {t}
          BY Graph, ReadsNoInputTargets DEF Parts
        <5> QED BY <3>2, <5>1 DEF Write, TypeOK
      <4>2. Snapshot(t)' = Snapshot(t)
        BY <2>1, <4>1 DEF Snapshot
      <4> QED BY <2>1, <2>5, <3>2, <4>2, WriteKeepsUpdated
    <3> QED BY <1>7, <3>1, <3>2 DEF Start
  <2>7. reading'[t] = Snapshot(t) /\ \A u \in jobs : reading'[u] = reading[u]
    BY <2>1, <2>5 DEF TypeOK
  <2>8. \A u \in updated' : Knows(u)'
    BY <2>1, <2>2, <2>6 DEF Knows
  <2> QED BY <2>1, <2>2, <2>3, <2>4, <2>5, <2>6, <2>7, <2>8
<1>8. ASSUME NEW t \in Targets, Finish(t) PROVE RunInv'
  <2>1. UNCHANGED <<value, phase, goal, status>> /\ jobs' = jobs \ {t} /\ updated' = updated \union {t}
            /\ reading' = [reading EXCEPT ![t] = {}] /\ t \in jobs
    BY <1>8 DEF Finish, EndJob
  <2>2. UNCHANGED VERIFY_ON /\ UNCHANGED StampContent
    BY <2>1 DEF VERIFY_ON, StampContent
  <2>3. \A u : UNCHANGED Prereqs(u, VERIFY_ON)
    BY <2>2 DEF Prereqs
  <2>4. UNCHANGED Needed(goal, VERIFY_ON)
    BY <2>1, <2>2
  <2>5. /\ Snapshot(t) = Rebuilt(t) /\ Knows(t)' <=> (t # CargoTools => StampContent \subseteq made'[t])
        /\ t # CargoTools => StampContent \subseteq Snapshot(t)
    <3>1. t # TOOLCHAIN_STAMP /\ Parts(t) \subseteq updated
      BY <2>1, ReadsNoInputTargets
    <3> QED BY <2>2, <3>1, SnapshotIsRebuilt DEF Knows
  <2>6. /\ \A u \in updated \union jobs : /\ Snapshot(u)' = Snapshot(u)
                                          /\ u \in updated => Settled(u)' /\ made'[u] = made[u]
        /\ made'[t] = Snapshot(t) /\ Settled(t)'
    <3>1. reading[t] = Snapshot(t)
      BY <2>1
    <3>2. CASE CargoFresh(t) /\ UNCHANGED files
      <4>1. \A u : UNCHANGED <<Snapshot(u), Settled(u), made>>
        BY <2>1, <3>2, SameFilesKeepUpdated
      <4>2. Settled(t) /\ made[t] = Snapshot(t)
        BY <3>1, <3>2, CargoReads DEF CargoFresh, Settled, Now
      <4> QED BY <4>1, <4>2
    <3>3. CASE \E o : Write(t, reading[t], o)
      <4>1. PICK o : Write(t, reading[t], o)
        BY <3>3
      <4>2. \A u \in updated \union jobs : /\ Snapshot(u)' = Snapshot(u)
                                           /\ u \in updated => Settled(u)' /\ made'[u] = made[u]
        BY <2>1, <4>1, WriteKeepsUpdated
      <4>3. made'[t] = Snapshot(t) /\ UpToDate(t)' /\ t \in exists'
        BY <2>1, <3>1, <4>1 DEF Write, Touched, TypeOK, UpToDate
      <4>4. value' = value
        BY <2>1
      <4> QED BY <4>2, <4>3, <4>4, CargoReads DEF Settled, Now
    <3> QED BY <1>8, <3>2, <3>3 DEF Finish
  <2>7. \A u \in updated' : Knows(u)'
    BY <2>1, <2>2, <2>5, <2>6 DEF Knows
  <2>8. \A u \in jobs' : reading'[u] = reading[u]
    BY <2>1 DEF TypeOK
  <2> QED BY <2>1, <2>2, <2>3, <2>4, <2>6, <2>7, <2>8
<1>9. ASSUME NEW t \in Targets, Fail(t) PROVE RunInv'
  <2>1. UNCHANGED <<value, files, goal, updated, status>> /\ jobs' = jobs \ {t} /\ phase' = "failed"
            /\ reading' = [reading EXCEPT ![t] = {}] /\ t \in jobs
    BY <1>9 DEF Fail, EndJob
  <2>2. \A u \in jobs' : reading'[u] = reading[u]
    BY <2>1 DEF TypeOK
  <2> QED BY <2>1, <2>2, SameFilesKeepUpdated
<1>10. CASE Exit
  <2>1. jobs = {}
    BY <1>10 DEF Exit
  <2> QED BY <1>1, <1>10, <2>1 DEF Exit
<1>11. CASE Kill
  BY <1>1, <1>11 DEF Kill
<1>12. CASE UNCHANGED vars
  <2>1. UNCHANGED <<value, files, phase, goal, updated, jobs, reading, status>>
    BY <1>12 DEF vars, run
  <2> QED BY <2>1, SameFilesKeepUpdated
<1> QED
  BY <1>2, <1>3, <1>4, <1>5, <1>6, <1>7, <1>8, <1>9, <1>10, <1>11, <1>12
     DEF Next, Build, Make, Disturb, clean, distclean

LEMMA CleanStep ==
    ASSUME TypeOK, RunInv, CleanMeansCurrent, [Next]_vars PROVE CleanMeansCurrent'
<1>1. ASSUME NEW s \in Inputs \ {Tools}, Edit(s) PROVE CleanMeansCurrent'
  BY <1>1, ChangeKeepsClean DEF Edit
<1>2. ASSUME NEW ts, Remove(ts) PROVE CleanMeansCurrent'
  BY <1>2, RemoveKeepsClean
<1>3. CASE \E g \in Goals : RunMake(g)
  BY <1>3, SameFilesKeepClean DEF RunMake
<1>4. CASE PassOver
  BY <1>4, SameFilesKeepClean DEF PassOver
<1>5. CASE Stamp
  <2>1. TOOLCHAIN_STAMP \in Targets /\ UNCHANGED value
    BY <1>5 DEF Targets, Stamp
  <2> QED BY <1>5, <2>1, SameFilesKeepClean, WriteKeepsClean DEF Stamp
<1>6. ASSUME NEW t \in Targets, Start(t) PROVE CleanMeansCurrent'
  <2>1. CASE UNCHANGED files
    BY <1>6, <2>1, SameFilesKeepClean DEF Start
  <2>2. CASE Write(t, Snapshot(t), "fails")
    <3>1. Parts(t) \subseteq updated /\ t # TOOLCHAIN_STAMP /\ UNCHANGED value
      BY <1>6, ReadsNoInputTargets DEF Start, Considered
    <3>2. Snapshot(t) = Rebuilt(t)
      BY <3>1, SnapshotIsRebuilt
    <3> QED BY <2>2, <3>1, <3>2, WriteKeepsClean
  <2> QED BY <1>6, <2>1, <2>2 DEF Start
<1>7. ASSUME NEW t \in Targets, Finish(t) PROVE CleanMeansCurrent'
  <2>1. CASE UNCHANGED files
    BY <1>7, <2>1, SameFilesKeepClean DEF Finish
  <2>2. t \in jobs /\ UNCHANGED value
    BY <1>7 DEF Finish
  <2>3. Parts(t) \subseteq updated /\ t # TOOLCHAIN_STAMP /\ reading[t] = Snapshot(t)
    BY <2>2, ReadsNoInputTargets DEF RunInv
  <2>4. reading[t] = Rebuilt(t)
    BY <2>3, SnapshotIsRebuilt
  <2>5. CASE \E o : Write(t, reading[t], o)
    BY <2>2, <2>4, <2>5, WriteKeepsClean
  <2> QED BY <1>7, <2>1, <2>5 DEF Finish
<1>8. CASE \E t \in Targets : Fail(t)
  BY <1>8, SameFilesKeepClean DEF Fail
<1>9. CASE Exit \/ Kill \/ UNCHANGED vars
  BY <1>9, SameFilesKeepClean DEF Exit, Kill, vars
<1> QED
  BY <1>1, <1>2, <1>3, <1>4, <1>5, <1>6, <1>7, <1>8, <1>9
     DEF Next, Build, Make, Disturb, clean, distclean

------------------------------------------------------------------------------
(* What is on disk was written by a recipe that passed; only the link writes its *)
(* target before it is done. *)

OutcomeInv == \A t \in exists \ {Linked} : Passes(t, outcome[t])

LEMMA OutcomeStep ==
    ASSUME TypeOK, OutcomeInv, [Next]_vars PROVE OutcomeInv'
<1>1. ASSUME UNCHANGED <<exists, outcome>> PROVE OutcomeInv'
  BY <1>1 DEF OutcomeInv
<1>2. ASSUME NEW t \in Targets, NEW q, NEW o, Write(t, q, o), t = Linked \/ Passes(t, o)
      PROVE  OutcomeInv'
  <2>1. exists' = exists \union {t} /\ \A u \in exists' : outcome'[u] = IF u = t THEN o ELSE outcome[u]
    BY <1>2 DEF Write, TypeOK
  <2> QED BY <1>2, <2>1 DEF OutcomeInv
<1>3. ASSUME NEW ts, Remove(ts) PROVE OutcomeInv'
  <2>1. exists' = exists \ ts /\ \A u \in exists' : outcome'[u] = outcome[u]
    BY <1>3 DEF Remove, TypeOK
  <2> QED BY <2>1 DEF OutcomeInv
<1>4. CASE Stamp
  <2>1. TOOLCHAIN_STAMP \in Targets /\ Passes(TOOLCHAIN_STAMP, "ok")
    BY DEF Targets, Passes, RunsVerus, RunsMutant, TOOLCHAIN_STAMP
  <2> QED BY <1>1, <1>2, <1>4, <2>1 DEF Stamp, files
<1>5. ASSUME NEW t \in Targets, Start(t) PROVE OutcomeInv'
  BY <1>1, <1>2, <1>5 DEF Start, files
<1>6. ASSUME NEW t \in Targets, Finish(t) PROVE OutcomeInv'
  BY <1>1, <1>2, <1>6 DEF Finish, files
<1>7. CASE \/ \E s \in Inputs \ {Tools} : Edit(s)
           \/ \E g \in Goals : RunMake(g)
           \/ \E t \in Targets : Fail(t)
           \/ PassOver \/ Exit \/ Kill \/ UNCHANGED vars
  <2>1. UNCHANGED <<exists, outcome>>
    BY <1>7 DEF Edit, Change, RunMake, Fail, PassOver, Exit, Kill, vars, files
  <2> QED BY <1>1, <2>1
<1> QED
  BY <1>3, <1>4, <1>5, <1>6, <1>7 DEF Next, Build, Make, Disturb, clean, distclean

------------------------------------------------------------------------------
(* The inductive invariant, and what it gives over time. *)

IInv == TypeOK /\ RunInv /\ CleanMeansCurrent /\ OutcomeInv

LEMMA InitIInv == Init => IInv
<1> SUFFICES ASSUME Init PROVE IInv
  OBVIOUS
<1>1. RunInv
  BY DEF Init, RunInv
<1>2. CleanMeansCurrent /\ OutcomeInv
  BY DEF Init, CleanMeansCurrent, Fresh, OutcomeInv
<1> QED BY <1>1, <1>2, InitType DEF IInv

LEMMA StepIInv == IInv /\ [Next]_vars => IInv'
  BY TypeStep, RunStep, CleanStep, OutcomeStep DEF IInv

LEMMA AlwaysIInv == Spec => []IInv
  BY InitIInv, StepIInv, PTL DEF Spec

\* A target none of whose files is newer holds what its recipe would make now,
\* after any history of builds, failures, kills, edits and cleans: make is right
\* to skip it.
THEOREM CleanIsCurrent == Spec => []CleanMeansCurrent
<1>1. IInv => CleanMeansCurrent
  BY DEF IInv
<1> QED BY <1>1, AlwaysIInv, PTL

\* The exit status of make is 0 only after a run that dealt with all it was asked for,
\* and as long as nothing has happened since.
LEMMA SuccessStep ==
    ASSUME IInv, [Next]_vars, status' = "ok"
    PROVE  \/ Exit /\ Needed(goal, VERIFY_ON) \subseteq updated
           \/ UNCHANGED vars
<1>1. ASSUME phase # "idle", status' = status PROVE FALSE
  BY <1>1 DEF IInv, RunInv
<1>2. CASE \E s \in Inputs \ {Tools} : Edit(s)
  BY <1>2 DEF Edit, Change
<1>3. CASE clean \/ distclean \/ Kill \/ \E g \in Goals : RunMake(g)
  BY <1>3 DEF clean, distclean, Remove, Kill, RunMake
<1>4. CASE PassOver \/ Stamp \/ \E t \in Targets : Start(t)
  BY <1>1, <1>4 DEF PassOver, Stamp, Start
<1>5. CASE \E t \in Targets : Finish(t) \/ Fail(t)
  <2>1. phase # "idle" /\ status' = status
    BY <1>5 DEF Finish, Fail, IInv, RunInv
  <2> QED BY <1>1, <2>1
<1>6. CASE Exit
  BY <1>6 DEF Exit
<1> QED
  BY <1>2, <1>3, <1>4, <1>5, <1>6 DEF Next, Build, Make, Disturb

\* A run that has dealt with all a make all needs has left nothing to do.
LEMMA AllDealtWith ==
    ASSUME IInv, Needed("all", VERIFY_ON) \subseteq updated PROVE NothingToDo
<1>1. TOOLCHAIN_STAMP \in Needed("all", VERIFY_ON)
  BY DEF Needed
<1> QED BY <1>1 DEF IInv, RunInv, NothingToDo

LEMMA SettledStep ==
    ASSUME IInv, DeliveredIsSettled, [Next]_vars PROVE DeliveredIsSettled'
<1> SUFFICES ASSUME status' = "ok", goal' = "all" PROVE NothingToDo'
  BY DEF DeliveredIsSettled, Delivered
<1>1. ASSUME UNCHANGED <<value, files>>, NothingToDo PROVE NothingToDo'
  <2>1. \A t : UNCHANGED Settled(t)
    BY <1>1, SameFilesKeepUpdated
  <2>2. UNCHANGED <<StampContent, VERIFY_ON, made>>
    BY <1>1, SameFilesKeepUpdated
  <2> QED BY <1>1, <2>1, <2>2 DEF NothingToDo
<1>2. CASE Exit /\ Needed(goal, VERIFY_ON) \subseteq updated
  BY <1>1, <1>2, AllDealtWith DEF Exit
<1>3. CASE UNCHANGED vars
  <2>1. UNCHANGED <<value, files, goal, status>>
    BY <1>3 DEF vars, run
  <2> QED BY <1>1, <2>1 DEF DeliveredIsSettled, Delivered
<1> QED BY <1>2, <1>3, SuccessStep

\* After a make all that succeeded the next one writes no file, whatever order and
\* overlap -j gave the recipes, and also where cargo left its target older than the
\* toolchain stamp (rules.mk 240-254).
THEOREM DeliveredSettled == Spec => []DeliveredIsSettled
<1>1. Init => DeliveredIsSettled
  BY DEF Init, DeliveredIsSettled, Delivered
<1>2. IInv /\ DeliveredIsSettled /\ [Next]_vars => DeliveredIsSettled'
  BY SettledStep
<1> QED BY <1>1, <1>2, AlwaysIInv, PTL DEF Spec

------------------------------------------------------------------------------
(* Along the graph, in one state. *)

\* Every nonempty set of numbers has a smallest one.
LEMMA Smallest ==
    ASSUME NEW S \in SUBSET Nat, S # {} PROVE \E n \in S : \A m \in S : ~ (m < n)
<1>1. S \subseteq Nat
  OBVIOUS
<1>2. PICK n \in S : \A k \in S : <<k, n>> \notin OpToRel(<, Nat)
  BY <1>1, WFMin, NatLessThanWellFounded, Zenon
<1>3. n \in Nat /\ \A m \in S : m \in Nat
  BY <1>1
<1> QED BY <1>2, <1>3, Zenon DEF OpToRel

\* The inputs ss, with the values they have.
Vals(ss) == {Now(s) : s \in ss}

\* What a chain of crates is made of, each of its source, the compiler, the
\* configuration and the crates before it.
LEMMA Chain ==
    ASSUME NEW f, \A i \in Crates : \A x : x \in f[i] <=> \/ x \in StampContent \/ x = Now(SRCS(i))
                                                         \/ \E j \in PREV(i) : x \in f[j]
    PROVE  \A i \in Crates : f[i] = Vals(Recorded \union LibSources(i))
<1> DEFINE Full(i) == f[i] = Vals(Recorded \union LibSources(i))
           Bad == {i \in Crates : ~Full(i)}
<1>1. \A i, x : x \in Vals(Recorded \union LibSources(i))
                  <=> x \in StampContent \/ \E j \in 1..i : x = Now(SRCS(j))
  BY Zenon DEF Vals, LibSources, StampContent, Now
<1>2. ASSUME NEW i \in Crates, \A j \in PREV(i) : Full(j) PROVE Full(i)
  <2>1. i \in Nat /\ 1..i = PREV(i) \union {i} /\ \A j \in PREV(i) : 1..j \subseteq 1..i /\ j \in 1..j
    BY ConstantsOK DEF Crates, PREV
  <2>2. \A x : x \in f[i] => x \in Vals(Recorded \union LibSources(i))
    <3>1. SUFFICES ASSUME NEW x, x \in f[i] PROVE x \in StampContent \/ \E j \in 1..i : x = Now(SRCS(j))
      BY <1>1
    <3>2. CASE \E j \in PREV(i) : x \in f[j]
      <4>1. PICK j \in PREV(i) : x \in Vals(Recorded \union LibSources(j))
        BY <1>2, <3>2
      <4>2. x \in StampContent \/ \E k \in 1..j : x = Now(SRCS(k))
        BY <1>1, <4>1
      <4> QED BY <2>1, <4>2
    <3> QED BY <2>1, <3>1, <3>2
  <2>3. \A x : x \in Vals(Recorded \union LibSources(i)) => x \in f[i]
    <3>1. SUFFICES ASSUME NEW x, x \in StampContent \/ \E j \in 1..i : x = Now(SRCS(j)) PROVE x \in f[i]
      BY <1>1
    <3>2. CASE \E j \in PREV(i) : x = Now(SRCS(j))
      <4>1. PICK j \in PREV(i) : x = Now(SRCS(j))
        BY <3>2
      <4>2. x \in Vals(Recorded \union LibSources(j))
        BY <1>1, <2>1, <4>1
      <4>3. x \in f[j]
        BY <1>2, <4>2
      <4> QED BY <4>3
    <3> QED BY <2>1, <3>1, <3>2
  <2> QED BY <2>2, <2>3, Zenon
<1>3. ASSUME Bad # {} PROVE FALSE
  <2>1. Bad \in SUBSET Nat
    BY ConstantsOK DEF Crates
  <2>2. PICK n \in Bad : \A m \in Bad : ~ (m < n)
    BY <1>3, <2>1, Smallest
  <2>3. \A j \in PREV(n) : j \in Crates /\ j < n
    BY ConstantsOK, <2>1 DEF Crates, PREV
  <2>4. \A j \in PREV(n) : Full(j)
    BY <2>2, <2>3
  <2> QED BY <1>2, <2>2, <2>4
<1> QED BY <1>3

\* The targets a make all needs.
AllNeeds == Products \union (IF VERIFY_ON THEN {HostBtf} \union Verifications ELSE {})

LEMMA PartsNeeded ==
    \A t \in AllNeeds : t \in Targets \ {TOOLCHAIN_STAMP} /\ Parts(t) \subseteq {TOOLCHAIN_STAMP} \union AllNeeds
<1> SUFFICES ASSUME NEW t \in AllNeeds
             PROVE  t \in Targets \ {TOOLCHAIN_STAMP} /\ Parts(t) \subseteq {TOOLCHAIN_STAMP} \union AllNeeds
  OBVIOUS
<1>1. t \in Targets \ {TOOLCHAIN_STAMP}
  BY DEF AllNeeds, Targets, Products, Verifications, UserCoreStamps, LIB_VIRS, LIB_BPF_RLIBS,
         TOOLCHAIN_STAMP, Runtime, CargoTools, HostBtf, VIR, BPF_RLIB, VerifyStamp, UserCoreStamp, ProgBc,
         Extracted, Linked, Obj
<1>2. {Runtime, CargoTools, ProgBc, Extracted, Linked} \union LIB_BPF_RLIBS \subseteq AllNeeds
  BY DEF AllNeeds, Products
<1>3. VERIFY_ON => HostBtf \in AllNeeds /\ LIB_VIRS \subseteq AllNeeds
  BY DEF AllNeeds, Verifications
<1>4. /\ SRC \in Inputs /\ \A i \in Crates : SRCS(i) \in Inputs
      /\ HasUserCore => USER_CORE \in Inputs
  BY DEF Inputs, SourceFiles
<1>5. \A i \in Crates : PREV(i) \subseteq Crates
  BY ConstantsOK DEF Crates, PREV
<1> SUFFICES FilesRead(t) \subseteq {TOOLCHAIN_STAMP} \union AllNeeds \union Inputs
  BY <1>1 DEF Parts
<1>6. CASE t \in {Runtime, CargoTools, ProgBc, Extracted, Linked, Obj}
  BY <1>2, <1>4, <1>6, Rules DEF ProgReads
<1>7. CASE t \in LIB_BPF_RLIBS
  <2>1. PICK i \in Crates : t = BPF_RLIB(i)
    BY <1>7 DEF LIB_BPF_RLIBS
  <2>2. FilesRead(t) = RlibReads(i)
    BY <2>1, Rules
  <2>3. {BPF_RLIB(j) : j \in PREV(i)} \subseteq AllNeeds
    BY <1>2, <1>5 DEF LIB_BPF_RLIBS
  <2> QED BY <1>2, <1>4, <2>2, <2>3 DEF RlibReads
<1>8. CASE t \in LIB_VIRS /\ VERIFY_ON
  <2>1. PICK i \in Crates : t = VIR(i)
    BY <1>8 DEF LIB_VIRS
  <2>2. FilesRead(t) = VirPrereqs(i)
    BY <2>1, Rules
  <2>3. {VIR(j) : j \in PREV(i)} \subseteq AllNeeds
    BY <1>3, <1>5, <1>8 DEF LIB_VIRS
  <2> QED BY <1>2, <1>3, <1>4, <1>8, <2>2, <2>3 DEF VirPrereqs
<1>9. CASE t = VerifyStamp /\ VERIFY_ON
  BY <1>2, <1>3, <1>4, <1>9, Rules DEF StampPrereqs
<1>10. CASE t \in UserCoreStamps /\ VERIFY_ON
  <2>1. t = UserCoreStamp /\ HasUserCore
    BY <1>10 DEF UserCoreStamps
  <2> QED BY <1>4, <2>1, Rules
<1>11. CASE t = HostBtf
  BY <1>11, Rules
<1> QED BY <1>6, <1>7, <1>8, <1>9, <1>10, <1>11 DEF AllNeeds, Products, Verifications

\* Where nothing is to be done each target holds what its recipe would make now;
\* of cargo's Settled says it.
LEMMA AllCurrent ==
    ASSUME TypeOK, CleanMeansCurrent, NothingToDo, NEW t \in AllNeeds \ {CargoTools}
    PROVE  made[t] = Rebuilt(t)
<1>1. {TOOLCHAIN_STAMP} \union AllNeeds \subseteq Needed("all", VERIFY_ON)
  BY DEF Needed, AllNeeds
<1>2. UpToDate(t) /\ \A u \in {TOOLCHAIN_STAMP} \union AllNeeds : u \in exists
  BY <1>1 DEF NothingToDo, Settled, UpToDate
<1>3. FilesRead(t) \subseteq Prereqs(t, VERIFY_ON)
  BY DEF Prereqs, AllPrereqs
<1>4. Fresh(t)
  BY <1>2, <1>3, PartsNeeded DEF Fresh, UpToDate, Parts
<1> QED BY <1>4, PartsNeeded DEF CleanMeansCurrent

\* The sources, and the LLVM tools, that t's recipe reads itself.
Own(t) == (Reads(t) \intersect Inputs) \ Recorded

LEMMA SplitReads ==
    /\ \A t \in {Runtime, HostBtf} : Parts(t) = {TOOLCHAIN_STAMP} /\ Own(t) = {}
    /\ \A i \in Crates : /\ Parts(VIR(i)) = {CargoTools, HostBtf, TOOLCHAIN_STAMP} \union {VIR(j) : j \in PREV(i)}
                         /\ Own(VIR(i)) = {SRCS(i)}
    /\ \A i \in Crates : /\ Parts(BPF_RLIB(i)) = {Runtime, CargoTools, TOOLCHAIN_STAMP}
                                                     \union {BPF_RLIB(j) : j \in PREV(i)}
                         /\ Own(BPF_RLIB(i)) = {SRCS(i)}
    /\ Parts(VerifyStamp) = {CargoTools, HostBtf, TOOLCHAIN_STAMP} \union LIB_VIRS /\ Own(VerifyStamp) = {SRC}
    /\ Parts(ProgBc) = {Runtime, CargoTools} \union LIB_BPF_RLIBS /\ Own(ProgBc) = {SRC}
    /\ Parts(Extracted) = {Runtime} \union LIB_BPF_RLIBS /\ Own(Extracted) = {}
    /\ Parts(Linked) = {ProgBc, Extracted} /\ Own(Linked) = {Tools}
    /\ Parts(Obj) = {Linked, CargoTools} /\ Own(Obj) = {Tools}
<1>1. /\ {TOOLCHAIN_STAMP, Runtime, CargoTools, HostBtf, ProgBc, Extracted, Linked} \union LIB_VIRS \union LIB_BPF_RLIBS
            \subseteq Targets
  BY DEF Targets, Products, Verifications
<1>2. {TOOLCHAIN_STAMP, Runtime, CargoTools, HostBtf, ProgBc, Extracted, Linked} \union LIB_VIRS \union LIB_BPF_RLIBS
          \subseteq Targets \ Inputs
  BY <1>1, InputsAreNoTargets
<1>3. SRC \in SourceFiles /\ \A i \in Crates : SRCS(i) \in SourceFiles
  BY DEF SourceFiles
<1>4. Recorded \intersect SourceFiles = {} /\ Tools \notin SourceFiles /\ Tools \notin Recorded
  BY SettingsAreNoFiles DEF Settings
<1>5. Inputs = SourceFiles \union Recorded \union {Tools}
  BY DEF Inputs, Recorded
<1>6. \A i \in Crates : PREV(i) \subseteq Crates
  BY ConstantsOK DEF Crates, PREV
<1>7. \A t : t[1] \notin {"libbtf_macros.so", "linked.bc", "prog.o"} => Reads(t) = FilesRead(t) \union Recorded
  BY DEF Reads, CargoTools
<1>8. \A t \in {Runtime, HostBtf, VerifyStamp, ProgBc, Extracted} : Reads(t) = FilesRead(t) \union Recorded
  BY <1>7 DEF Runtime, HostBtf, VerifyStamp, ProgBc, Extracted
<1>9. \A i \in Crates : /\ Reads(VIR(i)) = VirPrereqs(i) \union Recorded
                        /\ Reads(BPF_RLIB(i)) = RlibReads(i) \union Recorded
  BY <1>7, Rules DEF VIR, BPF_RLIB
<1>10. \A t \in {Linked, Obj} : Reads(t) = FilesRead(t) \union Recorded \union {Tools}
  BY DEF Reads, Linked, Obj, CargoTools
<1>11. \A t \in {Runtime, HostBtf} : Parts(t) = {TOOLCHAIN_STAMP} /\ Own(t) = {}
  BY <1>2, <1>5, <1>8, Rules DEF Parts, Own
<1>12. ASSUME NEW i \in Crates
       PROVE  /\ Parts(VIR(i)) = {CargoTools, HostBtf, TOOLCHAIN_STAMP} \union {VIR(j) : j \in PREV(i)}
              /\ Own(VIR(i)) = {SRCS(i)}
  <2>1. {VIR(j) : j \in PREV(i)} \subseteq Targets \ Inputs
    BY <1>2, <1>6 DEF LIB_VIRS
  <2>2. FilesRead(VIR(i)) = VirPrereqs(i)
    BY Rules
  <2> QED BY <1>2, <1>3, <1>4, <1>5, <1>9, <2>1, <2>2 DEF Parts, Own, VirPrereqs
<1>13. ASSUME NEW i \in Crates
       PROVE  /\ Parts(BPF_RLIB(i)) = {Runtime, CargoTools, TOOLCHAIN_STAMP}
                                          \union {BPF_RLIB(j) : j \in PREV(i)}
              /\ Own(BPF_RLIB(i)) = {SRCS(i)}
  <2>1. {BPF_RLIB(j) : j \in PREV(i)} \subseteq Targets \ Inputs
    BY <1>2, <1>6 DEF LIB_BPF_RLIBS
  <2>2. FilesRead(BPF_RLIB(i)) = RlibReads(i)
    BY Rules
  <2> QED BY <1>2, <1>3, <1>4, <1>5, <1>9, <2>1, <2>2 DEF Parts, Own, RlibReads
<1>14. Parts(VerifyStamp) = {CargoTools, HostBtf, TOOLCHAIN_STAMP} \union LIB_VIRS /\ Own(VerifyStamp) = {SRC}
  BY <1>2, <1>3, <1>4, <1>5, <1>8, Rules DEF Parts, Own, StampPrereqs
<1>15. Parts(ProgBc) = {Runtime, CargoTools} \union LIB_BPF_RLIBS /\ Own(ProgBc) = {SRC}
  BY <1>2, <1>3, <1>4, <1>5, <1>8, Rules DEF Parts, Own, ProgReads
<1>16. Parts(Extracted) = {Runtime} \union LIB_BPF_RLIBS /\ Own(Extracted) = {}
  BY <1>2, <1>5, <1>8, Rules DEF Parts, Own
<1>17. /\ Parts(Linked) = {ProgBc, Extracted} /\ Own(Linked) = {Tools}
       /\ Parts(Obj) = {Linked, CargoTools} /\ Own(Obj) = {Tools}
  BY <1>2, <1>4, <1>5, <1>10, Rules DEF Parts, Own
<1> QED BY <1>11, <1>12, <1>13, <1>14, <1>15, <1>16, <1>17

LEMMA InMade ==
    ASSUME TypeOK, CleanMeansCurrent, NothingToDo, NEW t \in AllNeeds \ {CargoTools}, NEW x
    PROVE  x \in made[t] <=> \/ \E p \in Parts(t) : x \in made[p]
                             \/ \E s \in Own(t) : x = Now(s)
<1>1. made[t] = Rebuilt(t)
  BY AllCurrent
<1>2. x \in Rebuilt(t) <=> \/ \E p \in Parts(t) : x \in made[p]
                           \/ \E s \in Own(t) : x = Now(s)
  BY Zenon DEF Rebuilt, Parts, Own, Now
<1> QED BY <1>1, <1>2

\* What the targets of a settled build are made of.
LEMMA MadeOf ==
    ASSUME TypeOK, CleanMeansCurrent, NothingToDo
    PROVE  /\ \A i \in Crates : made[BPF_RLIB(i)] = Vals(Recorded \union LibSources(i))
           /\ VERIFY_ON => \A i \in Crates : made[VIR(i)] = Vals(Recorded \union LibSources(i))
           /\ VERIFY_ON => made[VerifyStamp] = Vals(Recorded \union {SRC} \union LibSources(NLibs))
           /\ made[Obj] = Vals(Recorded \union {Tools, SRC} \union LibSources(NLibs))
<1>1. {Runtime, ProgBc, Extracted, Linked, Obj} \union LIB_BPF_RLIBS \subseteq AllNeeds \ {CargoTools}
  BY DEF AllNeeds, Products, LIB_BPF_RLIBS, Runtime, CargoTools, ProgBc, Extracted, Linked, Obj, BPF_RLIB
<1>2. VERIFY_ON => {HostBtf, VerifyStamp} \union LIB_VIRS \subseteq AllNeeds \ {CargoTools}
  BY DEF AllNeeds, Verifications, LIB_VIRS, HostBtf, CargoTools, VerifyStamp, VIR
<1>3. made[TOOLCHAIN_STAMP] = StampContent
  BY DEF NothingToDo
<1>4. \A x : x \in made[Runtime] <=> x \in StampContent
  BY <1>1, <1>3, InMade, SplitReads
<1>5. /\ \A x : x \in made[CargoTools] => x \in StampContent
      /\ VERIFY_ON => \A x : x \in made[HostBtf] <=> x \in StampContent
  <2>1. made[CargoTools] = {<<Compiler, value[Compiler]>>}
    BY DEF NothingToDo, Needed, Products, Settled
  <2>2. \A x : x \in made[CargoTools] => x \in StampContent
    BY <2>1 DEF StampContent, Recorded
  <2> QED BY <1>2, <1>3, <2>2, InMade, SplitReads
<1>6. \A i \in Crates : made[BPF_RLIB(i)] = Vals(Recorded \union LibSources(i))
  <2> DEFINE f == [i \in Crates |-> made[BPF_RLIB(i)]]
  <2>1. ASSUME NEW i \in Crates, NEW x
        PROVE  x \in made[BPF_RLIB(i)] <=> \/ x \in StampContent \/ x = Now(SRCS(i))
                                           \/ \E j \in PREV(i) : x \in made[BPF_RLIB(j)]
    <3>1. BPF_RLIB(i) \in AllNeeds \ {CargoTools}
      BY <1>1 DEF LIB_BPF_RLIBS
    <3>2. /\ Parts(BPF_RLIB(i)) = {Runtime, CargoTools, TOOLCHAIN_STAMP} \union {BPF_RLIB(j) : j \in PREV(i)}
          /\ Own(BPF_RLIB(i)) = {SRCS(i)}
      BY SplitReads
    <3>3. x \in made[BPF_RLIB(i)] <=> \/ \E p \in Parts(BPF_RLIB(i)) : x \in made[p]
                                      \/ \E s \in Own(BPF_RLIB(i)) : x = Now(s)
      BY <3>1, InMade
    <3> QED BY <1>3, <1>4, <1>5, <3>2, <3>3
  <2>2. \A i \in Crates : PREV(i) \subseteq Crates
    BY ConstantsOK DEF Crates, PREV
  <2>3. \A i \in Crates : \A x : x \in f[i] <=> \/ x \in StampContent \/ x = Now(SRCS(i))
                                                \/ \E j \in PREV(i) : x \in f[j]
    BY <2>1, <2>2
  <2> HIDE DEF f
  <2>4. \A i \in Crates : f[i] = Vals(Recorded \union LibSources(i))
    BY <2>3, Chain
  <2> QED BY <2>4 DEF f
<1>7. ASSUME VERIFY_ON PROVE \A i \in Crates : made[VIR(i)] = Vals(Recorded \union LibSources(i))
  <2> DEFINE f == [i \in Crates |-> made[VIR(i)]]
  <2>1. ASSUME NEW i \in Crates, NEW x
        PROVE  x \in made[VIR(i)] <=> \/ x \in StampContent \/ x = Now(SRCS(i))
                                      \/ \E j \in PREV(i) : x \in made[VIR(j)]
    <3>1. VIR(i) \in AllNeeds \ {CargoTools}
      BY <1>2, <1>7 DEF LIB_VIRS
    <3>2. /\ Parts(VIR(i)) = {CargoTools, HostBtf, TOOLCHAIN_STAMP} \union {VIR(j) : j \in PREV(i)}
          /\ Own(VIR(i)) = {SRCS(i)}
      BY SplitReads
    <3>3. x \in made[VIR(i)] <=> \/ \E p \in Parts(VIR(i)) : x \in made[p]
                                 \/ \E s \in Own(VIR(i)) : x = Now(s)
      BY <3>1, InMade
    <3> QED BY <1>3, <1>5, <1>7, <3>2, <3>3
  <2>2. \A i \in Crates : PREV(i) \subseteq Crates
    BY ConstantsOK DEF Crates, PREV
  <2>3. \A i \in Crates : \A x : x \in f[i] <=> \/ x \in StampContent \/ x = Now(SRCS(i))
                                                \/ \E j \in PREV(i) : x \in f[j]
    BY <2>1, <2>2
  <2> HIDE DEF f
  <2>4. \A i \in Crates : f[i] = Vals(Recorded \union LibSources(i))
    BY <2>3, Chain
  <2> QED BY <2>4 DEF f
\* All the crates together, whichever way they were compiled.
<1>8. \A x : (\E i \in Crates : x \in Vals(Recorded \union LibSources(i)))
               => x \in StampContent \/ \E j \in Crates : x = Now(SRCS(j))
  <2>1. \A i \in Crates : 1..i \subseteq Crates
    BY ConstantsOK DEF Crates
  <2> QED BY <2>1 DEF Vals, LibSources, StampContent, Now
<1>9. \A x : (\E j \in Crates : x = Now(SRCS(j)))
               => \E i \in Crates : x \in Vals(Recorded \union LibSources(i))
  <2>1. \A j \in Crates : j \in 1..j
    BY ConstantsOK DEF Crates
  <2> QED BY <2>1 DEF Vals, LibSources
<1>10. ASSUME VERIFY_ON
       PROVE  \A x : x \in made[VerifyStamp] <=> \/ x \in StampContent \/ x = Now(SRC)
                                                 \/ \E j \in Crates : x = Now(SRCS(j))
  <2>1. \A x : x \in made[VerifyStamp] <=> \/ x \in StampContent \/ x = Now(SRC)
                                           \/ \E i \in Crates : x \in made[VIR(i)]
    BY <1>2, <1>3, <1>5, <1>10, InMade, SplitReads DEF LIB_VIRS
  <2>2. \A x : (\E i \in Crates : x \in made[VIR(i)])
                 <=> \E i \in Crates : x \in Vals(Recorded \union LibSources(i))
    BY <1>7, <1>10
  <2> QED BY <1>8, <1>9, <2>1, <2>2, Zenon
<1>11. \A x : x \in made[ProgBc] <=> \/ x \in StampContent \/ x = Now(SRC)
                                     \/ \E j \in Crates : x = Now(SRCS(j))
  <2>1. \A x : x \in made[ProgBc] <=> \/ x \in StampContent \/ x = Now(SRC)
                                      \/ \E i \in Crates : x \in made[BPF_RLIB(i)]
    BY <1>1, <1>4, <1>5, InMade, SplitReads DEF LIB_BPF_RLIBS
  <2>2. \A x : (\E i \in Crates : x \in made[BPF_RLIB(i)])
                 <=> \E i \in Crates : x \in Vals(Recorded \union LibSources(i))
    BY <1>6
  <2> QED BY <1>8, <1>9, <2>1, <2>2, Zenon
<1>12. \A x : x \in made[Extracted] => x \in StampContent \/ \E j \in Crates : x = Now(SRCS(j))
  <2>1. \A x : x \in made[Extracted] => x \in StampContent \/ \E i \in Crates : x \in made[BPF_RLIB(i)]
    BY <1>1, <1>4, InMade, SplitReads DEF LIB_BPF_RLIBS
  <2> QED BY <1>6, <1>8, <2>1
<1>13. \A x : x \in made[Linked] <=> \/ x \in StampContent \/ x = Now(SRC) \/ x = Now(Tools)
                                     \/ \E j \in Crates : x = Now(SRCS(j))
  <2>1. \A x : x \in made[Linked] <=> x \in made[ProgBc] \/ x \in made[Extracted] \/ x = Now(Tools)
    BY <1>1, InMade, SplitReads
  <2> QED BY <1>11, <1>12, <2>1
<1>14. \A x : x \in made[Obj] <=> \/ x \in StampContent \/ x = Now(SRC) \/ x = Now(Tools)
                                  \/ \E j \in Crates : x = Now(SRCS(j))
  <2>1. \A x : x \in made[Obj] <=> x \in made[Linked] \/ x \in made[CargoTools] \/ x = Now(Tools)
    BY <1>1, InMade, SplitReads
  <2> QED BY <1>5, <1>13, <2>1
<1>15. \A x : x \in Vals(Recorded \union {Tools, SRC} \union LibSources(NLibs))
                <=> \/ x \in StampContent \/ x = Now(SRC) \/ x = Now(Tools)
                    \/ \E j \in Crates : x = Now(SRCS(j))
  BY DEF Vals, LibSources, Crates, StampContent, Now
<1>16. \A x : x \in Vals(Recorded \union {SRC} \union LibSources(NLibs))
                <=> \/ x \in StampContent \/ x = Now(SRC)
                    \/ \E j \in Crates : x = Now(SRCS(j))
  BY DEF Vals, LibSources, Crates, StampContent, Now
<1>17. made[Obj] = Vals(Recorded \union {Tools, SRC} \union LibSources(NLibs))
  BY <1>14, <1>15, Zenon
<1>18. VERIFY_ON => made[VerifyStamp] = Vals(Recorded \union {SRC} \union LibSources(NLibs))
  BY <1>10, <1>16, Zenon
<1> QED BY <1>6, <1>7, <1>17, <1>18

LEMMA FreshHere == ASSUME TypeOK, CleanMeansCurrent PROVE ObjectFresh
<1>1. Vals(Recorded \union {Tools, SRC} \union LibSources(NLibs)) = FromScratch
  BY DEF Vals, LibSources, FromScratch, CodeInputs, Recorded, Crates, Now
<1> QED BY <1>1, MadeOf DEF ObjectFresh

\* When make finds nothing to do, the object is the one a build from scratch
\* would make of the sources and the configuration as they are.
THEOREM ObjectIsFresh == Spec => []ObjectFresh
<1>1. IInv => ObjectFresh
  BY FreshHere DEF IInv
<1> QED BY <1>1, AlwaysIInv, PTL

LEMMA PartOfVals ==
    ASSUME NEW ss, NEW rr, rr \subseteq ss PROVE Part(Vals(ss), rr) = Vals(rr)
<1>1. \A s : Now(s)[1] = s
  BY DEF Now
<1> QED BY <1>1 DEF Part, Vals

LEMMA VerifiedHere == ASSUME TypeOK, CleanMeansCurrent, OutcomeInv PROVE ObjectVerified
<1> SUFFICES ASSUME NothingToDo, VERIFY_ON
             PROVE  /\ \A i \in Crates : SameSource(VIR(i), LibSources(i))
                    /\ SameSource(VerifyStamp, LibSources(NLibs) \union {SRC})
  BY DEF ObjectVerified
<1>1. \A i \in Crates : LibSources(i) \subseteq LibSources(NLibs)
  BY ConstantsOK DEF Crates, LibSources
<1>2. ASSUME NEW t \in LIB_VIRS \union {VerifyStamp} PROVE outcome[t] = "verified"
  <2>1. t \in Needed("all", VERIFY_ON)
    BY DEF Needed, Verifications
  <2>2. t \in exists
    BY <2>1 DEF NothingToDo, Settled, UpToDate
  <2>3. RunsVerus(t) /\ t # Linked
    BY DEF RunsVerus, LIB_VIRS, VIR, VerifyStamp, Linked
  <2> QED BY <2>2, <2>3 DEF OutcomeInv, Passes, check_verified
<1>3. ASSUME NEW i \in Crates PROVE SameSource(VIR(i), LibSources(i))
  <2>1. made[VIR(i)] = Vals(Recorded \union LibSources(i))
    BY MadeOf
  <2>2. made[Obj] = Vals(Recorded \union {Tools, SRC} \union LibSources(NLibs))
    BY MadeOf
  <2>3. Part(made[VIR(i)], LibSources(i)) = Vals(LibSources(i))
    BY <2>1, PartOfVals
  <2>4. Part(made[Obj], LibSources(i)) = Vals(LibSources(i))
    BY <1>1, <2>2, PartOfVals
  <2>5. VIR(i) \in LIB_VIRS
    BY DEF LIB_VIRS
  <2> QED BY <1>2, <2>3, <2>4, <2>5 DEF SameSource
<1>4. SameSource(VerifyStamp, LibSources(NLibs) \union {SRC})
  <2>1. made[VerifyStamp] = Vals(Recorded \union {SRC} \union LibSources(NLibs))
    BY MadeOf
  <2>2. made[Obj] = Vals(Recorded \union {Tools, SRC} \union LibSources(NLibs))
    BY MadeOf
  <2>3. Part(made[VerifyStamp], LibSources(NLibs) \union {SRC}) = Vals(LibSources(NLibs) \union {SRC})
    BY <2>1, PartOfVals
  <2>4. Part(made[Obj], LibSources(NLibs) \union {SRC}) = Vals(LibSources(NLibs) \union {SRC})
    BY <2>2, PartOfVals
  <2> QED BY <1>2, <2>3, <2>4 DEF SameSource
<1> QED BY <1>3, <1>4

\* When make finds nothing to do and VERIFY is on, every crate in the object, and
\* the program, is one Verus verified, against the crates it was compiled with.
THEOREM ObjectIsVerified == Spec => []ObjectVerified
<1>1. IInv => ObjectVerified
  BY VerifiedHere DEF IInv
<1> QED BY <1>1, AlwaysIInv, PTL

------------------------------------------------------------------------------
(* What make has dealt with in a run. *)

\* The source files a recipe reads are in what it makes.
LEMMA MadeOfSources ==
    ASSUME NEW t \in Targets \ {CargoTools}, NEW s \in FilesRead(t) \intersect SourceFiles
    PROVE  Now(s) \in Rebuilt(t)
<1>1. s \in (Reads(t) \intersect Inputs) \ Recorded
  BY SettingsAreNoFiles DEF Reads, Inputs, Settings
<1> QED BY <1>1 DEF Rebuilt, Now

\* A target other than cargo's that make has dealt with was written by a recipe that passed, and of what
\* its rule reads now.
LEMMA DealtWith ==
    ASSUME IInv, NEW t \in updated \ {TOOLCHAIN_STAMP, CargoTools}
    PROVE  /\ t \in exists /\ made[t] = Rebuilt(t)
           /\ t # Linked => Passes(t, outcome[t])
<1>1. t \in Targets /\ UpToDate(t) /\ Prereqs(t, VERIFY_ON) \ Inputs \subseteq updated
  BY DEF IInv, TypeOK, RunInv, Settled
<1>2. updated \subseteq exists
  BY UpdatedExist DEF IInv
<1>3. Parts(t) \subseteq updated
  BY <1>1, ReadsNoInputTargets
<1>4. FilesRead(t) \subseteq Prereqs(t, VERIFY_ON)
  BY DEF Prereqs, AllPrereqs
<1>5. Fresh(t)
  BY <1>1, <1>2, <1>3, <1>4 DEF Fresh, UpToDate, Parts
<1> QED BY <1>1, <1>5 DEF IInv, CleanMeansCurrent, OutcomeInv, UpToDate

------------------------------------------------------------------------------
(* The mutants. *)

LEMMA RejectedHere ==
    ASSUME IInv, NEW m \in Mutants, MutantStamp(m) \in updated
    PROVE  /\ outcome[MutantStamp(m)] = "errors"
           /\ {Now(Patch(m)), Now(SRC)} \subseteq made[MutantStamp(m)]
<1>1. MutantStamp(m) \in Targets \ {TOOLCHAIN_STAMP, CargoTools, Linked} /\ RunsMutant(MutantStamp(m))
  BY DEF Targets, MUTANT_STAMPS, MutantStamp, TOOLCHAIN_STAMP, CargoTools, Linked, RunsMutant
<1>2. outcome[MutantStamp(m)] = "errors"
  BY <1>1, DealtWith DEF Passes, MutantRejected
<1>3. {Patch(m), SRC} \subseteq FilesRead(MutantStamp(m)) \intersect SourceFiles
  BY Rules DEF SourceFiles
<1> QED BY <1>1, <1>2, <1>3, DealtWith, MadeOfSources

LEMMA MutantsStep ==
    ASSUME IInv, MutantsRejected, [Next]_vars PROVE MutantsRejected'
<1> SUFFICES ASSUME status' = "ok", goal' = "verify", NEW m \in Mutants
             PROVE  /\ outcome'[MutantStamp(m)] = "errors"
                    /\ {Now(Patch(m))', Now(SRC)'} \subseteq made'[MutantStamp(m)]
  BY DEF MutantsRejected, Now
<1>1. CASE Exit /\ Needed(goal, VERIFY_ON) \subseteq updated
  <2>1. UNCHANGED <<value, made, outcome, goal>>
    BY <1>1 DEF Exit, files
  <2>2. MutantStamp(m) \in updated
    BY <1>1, <2>1 DEF Needed, MUTANT_STAMPS
  <2> QED BY <2>1, <2>2, RejectedHere DEF Now
<1>2. CASE UNCHANGED vars
  BY <1>2 DEF vars, files, run, MutantsRejected, Now
<1> QED BY <1>1, <1>2, SuccessStep

\* When make verify succeeds Verus has rejected each mutant of the program as it
\* now is, with a verification error (rules.mk 331-349).
THEOREM EveryMutantRejected == Spec => []MutantsRejected
<1>1. Init => MutantsRejected
  BY DEF Init, MutantsRejected
<1>2. IInv /\ MutantsRejected /\ [Next]_vars => MutantsRejected'
  BY MutantsStep
<1> QED BY <1>1, <1>2, AlwaysIInv, PTL DEF Spec

------------------------------------------------------------------------------
(* The order of verification and compilation. *)

\* Recipes begin one at a time.
LEMMA OnlyStartStarts ==
    ASSUME [Next]_vars, NEW t \in jobs' \ jobs PROVE t \in Targets /\ Start(t)
<1>1. ASSUME jobs' \subseteq jobs PROVE FALSE
  BY <1>1
<1>2. CASE \/ \E s \in Inputs \ {Tools} : Edit(s)
           \/ clean \/ distclean
           \/ \E g \in Goals : RunMake(g)
           \/ PassOver \/ Stamp \/ Exit \/ Kill \/ UNCHANGED vars
  BY <1>1, <1>2 DEF Edit, Change, clean, distclean, Remove, RunMake, PassOver, Stamp, Exit, Kill,
                    vars, run
<1>3. CASE \E u \in Targets : Finish(u) \/ Fail(u)
  BY <1>1, <1>3 DEF Finish, Fail, EndJob
<1>4. ASSUME NEW u \in Targets, Start(u) PROVE t \in Targets /\ Start(t)
  BY <1>4 DEF Start
<1> QED BY <1>2, <1>3, <1>4 DEF Next, Build, Make, Disturb

LEMMA VerifiedBefore ==
    ASSUME IInv, NEW i \in Crates, Start(BPF_RLIB(i)), VERIFY_ON
    PROVE  /\ VIR(i) \in exists /\ outcome[VIR(i)] = "verified"
           /\ Now(SRCS(i)) \in made[VIR(i)]
<1>1. VIR(i) \in Prereqs(BPF_RLIB(i), VERIFY_ON)
  BY DEF Prereqs, AllPrereqs, VerifyDeps, BPF_RLIB
<1>2. VIR(i) \in Targets \ {TOOLCHAIN_STAMP, CargoTools, Linked} /\ RunsVerus(VIR(i))
  BY DEF Targets, Verifications, LIB_VIRS, VIR, TOOLCHAIN_STAMP, CargoTools, Linked, RunsVerus
<1>3. VIR(i) \in updated
  BY <1>1, <1>2, InputsAreNoTargets DEF Start, Considered
<1>4. SRCS(i) \in FilesRead(VIR(i)) \intersect SourceFiles
  BY Rules DEF VirPrereqs, SourceFiles
<1> QED BY <1>2, <1>3, <1>4, DealtWith, MadeOfSources DEF Passes, check_verified

\* With VERIFY on, no crate is compiled before Verus has said yes to the version
\* rustc is about to read, however many recipes run at once (rules.mk 285 and 312).
THEOREM VerifiedBeforeCompiled == Spec => VerifiedFirst
<1>1. IInv /\ [Next]_vars
         => [\A i \in Crates : BPF_RLIB(i) \in jobs' \ jobs /\ VERIFY_ON =>
                 /\ VIR(i) \in exists /\ outcome[VIR(i)] = "verified"
                 /\ <<SRCS(i), value[SRCS(i)]>> \in made[VIR(i)]]_vars
  BY OnlyStartStarts, VerifiedBefore DEF Now
<1> QED BY <1>1, AlwaysIInv, PTL DEF Spec, VerifiedFirst

------------------------------------------------------------------------------
(* make makes no work.  A recipe that runs was started on a target that is not up *)
(* to date, which stays so until it ends.  The recipe of linked.bc writes its      *)
(* target at once, and while it runs the object is out of date instead.            *)

Behind(t) == IF t = Linked THEN Obj ELSE t

JobsPending == \A t \in jobs : ~UpToDate(Behind(t))

\* Writing a file brings no other up to date.
LEMMA WriteHelpsNoOther ==
    ASSUME TypeOK, UNCHANGED value, NEW w \in Targets, NEW q, NEW o, Write(w, q, o),
           NEW t \in Targets \ {w}, ~UpToDate(t)
    PROVE  ~UpToDate(t)'
<1>1. t \in exists' => t \in exists
  BY DEF Write
<1>2. newer[t] \subseteq newer'[t]
  BY DEF Write, Touched, TypeOK
<1>3. Prereqs(t, VERIFY_ON)' = Prereqs(t, VERIFY_ON)
  BY DEF Prereqs, VERIFY_ON
<1> QED BY <1>1, <1>2, <1>3 DEF UpToDate

LEMMA LinkedIsRead ==
    Linked \in Targets /\ Obj \in Targets /\ Linked # Obj /\ Linked \in Parts(Obj) /\ Obj # TOOLCHAIN_STAMP
<1>1. Linked \in Targets /\ Obj \in Targets /\ Linked # Obj /\ Obj # TOOLCHAIN_STAMP
  BY DEF Targets, Products, Linked, Obj, TOOLCHAIN_STAMP
<1> QED BY <1>1, Rules, InputsAreNoTargets DEF Parts

LEMMA PendingStep ==
    ASSUME IInv, JobsPending, [Next]_vars PROVE JobsPending'
<1> USE DEF JobsPending
<1>t. jobs \subseteq Targets /\ TypeOK /\ RunInv
  BY DEF IInv, TypeOK
<1>1. ASSUME UNCHANGED <<value, files>>, jobs' \subseteq jobs PROVE JobsPending'
  BY <1>1, SameFilesKeepUpdated
<1>2. CASE \/ \E s \in Inputs \ {Tools} : Edit(s)
           \/ clean \/ distclean
           \/ \E g \in Goals : RunMake(g)
  <2>1. jobs' = {}
    BY <1>2, <1>t DEF Edit, Change, clean, distclean, Remove, RunMake, run, RunInv
  <2> QED BY <2>1
<1>3. CASE PassOver \/ Exit \/ Kill \/ UNCHANGED vars
  BY <1>1, <1>3 DEF PassOver, Exit, Kill, vars, run
<1>4. ASSUME NEW t \in Targets, Fail(t) PROVE JobsPending'
  BY <1>1, <1>4 DEF Fail, EndJob
<1>5. CASE Stamp
  <2>1. UNCHANGED <<value, jobs>> /\ TOOLCHAIN_STAMP \in Targets
    BY <1>5 DEF Stamp, Targets
  <2>2. \A t \in jobs : Behind(t) \in Targets \ {TOOLCHAIN_STAMP}
    BY <1>t, LinkedIsRead DEF Behind, RunInv
  <2>3. CASE Write(TOOLCHAIN_STAMP, StampContent, "ok")
    BY <1>t, <2>1, <2>2, <2>3, WriteHelpsNoOther DEF Behind
  <2> QED BY <1>1, <1>5, <2>1, <2>3 DEF Stamp
<1>6. ASSUME NEW t \in Targets, Start(t) PROVE JobsPending'
  <2>1. UNCHANGED value /\ jobs' = jobs \union {t} /\ t \notin jobs /\ ~UpToDate(t)
    BY <1>6 DEF Start, Considered
  <2>2. CASE t # Linked
    <3>1. UNCHANGED files
      BY <1>6, <2>2 DEF Start
    <3> QED BY <2>1, <2>2, <3>1, SameFilesKeepUpdated DEF Behind
  <2>3. CASE t = Linked
    <3>1. Write(Linked, Snapshot(Linked), "fails")
      BY <1>6, <2>3 DEF Start
    <3>2. \A u \in jobs : Behind(u) = u /\ u \in Targets \ {Linked}
      BY <1>t, <2>1, <2>3 DEF Behind
    <3>3. \A u \in jobs : ~UpToDate(Behind(u))'
      BY <1>t, <2>1, <3>1, <3>2, LinkedIsRead, WriteHelpsNoOther DEF Behind
    <3>4. ~UpToDate(Obj)'
      <4>1. Linked \in Prereqs(Obj, VERIFY_ON)'
        BY LinkedIsRead DEF Prereqs, AllPrereqs, Parts
      <4>2. Linked \in AllPrereqs(Obj)
        BY LinkedIsRead DEF AllPrereqs, Parts
      <4>3. Obj \in exists' => Linked \in newer'[Obj]
        BY <1>t, <3>1, <4>2, LinkedIsRead DEF Write, Touched, TypeOK
      <4> QED BY <4>1, <4>3 DEF UpToDate
    <3> QED BY <2>1, <2>3, <3>3, <3>4 DEF Behind
  <2> QED BY <2>2, <2>3
<1>7. ASSUME NEW t \in Targets, Finish(t) PROVE JobsPending'
  <2>1. CASE UNCHANGED files
    BY <1>1, <1>7, <2>1 DEF Finish, EndJob
  <2>2. UNCHANGED value /\ t \in jobs /\ jobs' = jobs \ {t}
    BY <1>7 DEF Finish, EndJob
  <2>3. Linked \in jobs => Obj \notin jobs
    <3>1. Obj \in jobs => Linked \in updated
      BY <1>t, LinkedIsRead, ReadsNoInputTargets DEF RunInv
    <3> QED BY <1>t, <3>1 DEF RunInv
  <2>4. \A u \in jobs' : u \in jobs /\ Behind(u) \in Targets \ {t}
    BY <1>t, <2>2, <2>3, LinkedIsRead DEF Behind
  <2>5. ASSUME NEW o, Write(t, reading[t], o) PROVE JobsPending'
    <3>1. \A u \in jobs' : ~UpToDate(Behind(u))'
      BY <1>t, <2>2, <2>4, <2>5, WriteHelpsNoOther DEF Behind
    <3> QED BY <3>1
  <2> QED BY <1>7, <2>1, <2>5 DEF Finish
<1> QED BY <1>2, <1>3, <1>4, <1>5, <1>6, <1>7 DEF Next, Build, Make, Disturb

\* What a target make all needs depends on, make all needs too.
LEMMA NeededClosed ==
    ASSUME NEW t \in Needed("all", VERIFY_ON)
    PROVE  t \in Targets /\ Prereqs(t, VERIFY_ON) \ Inputs \subseteq Needed("all", VERIFY_ON)
<1>1. Needed("all", VERIFY_ON) = {TOOLCHAIN_STAMP} \union AllNeeds
  BY DEF Needed, AllNeeds
<1>2. TOOLCHAIN_STAMP \in Targets /\ Prereqs(TOOLCHAIN_STAMP, VERIFY_ON) = {}
  BY Rules DEF Targets, Prereqs, AllPrereqs, VerifyDeps, TOOLCHAIN_STAMP
<1>3. CASE t \in AllNeeds
  <2>1. t \in Targets /\ Parts(t) \subseteq Needed("all", VERIFY_ON)
    BY <1>1, <1>3, PartsNeeded
  <2>2. VERIFY_ON => VerifyDeps(t) \subseteq Verifications
    <3>1. CASE t[1] = "rlib"
      <4>1. PICK i \in Crates : t = BPF_RLIB(i)
        BY <2>1, <3>1, TargetCases DEF TOOLCHAIN_STAMP, Runtime, CargoTools, HostBtf, VIR, BPF_RLIB, VerifyStamp,
             UserCoreStamp, MutantStamp, ProgBc, Extracted, Linked, Obj
      <4> QED BY <4>1 DEF VerifyDeps, BPF_RLIB, Verifications, LIB_VIRS
    <3>2. CASE t[1] = "prog.bc"
      BY <3>2 DEF VerifyDeps, Verifications
    <3>3. CASE t[1] \notin {"rlib", "prog.bc"}
      BY <3>3 DEF VerifyDeps
    <3> QED BY <3>1, <3>2, <3>3
  <2>3. VERIFY_ON => Verifications \subseteq AllNeeds
    BY DEF AllNeeds
  <2> QED BY <1>1, <2>1, <2>2, <2>3 DEF Prereqs, AllPrereqs, Parts
<1> QED BY <1>1, <1>2, <1>3

LEMMA NothingComesUp ==
    ASSUME IInv, JobsPending, NothingToDo, [Next]_vars, value' = value, exists \subseteq exists'
    PROVE  NothingToDo'
<1>t. TypeOK /\ RunInv
  BY DEF IInv
<1>1. ASSUME UNCHANGED files PROVE NothingToDo'
  <2>1. \A t : UNCHANGED Settled(t)
    BY <1>1, SameFilesKeepUpdated
  <2>2. UNCHANGED <<StampContent, VERIFY_ON, made>>
    BY <1>1, SameFilesKeepUpdated
  <2> QED BY <2>1, <2>2 DEF NothingToDo
<1>2. CASE \E s \in Inputs \ {Tools} : Edit(s)
  BY <1>2, <1>t DEF Edit, Change, TypeOK
<1>3. CASE clean \/ distclean
  BY <1>3 DEF clean, distclean, Remove
<1>4. CASE PassOver \/ Exit \/ Kill \/ UNCHANGED vars \/ \E g \in Goals : RunMake(g)
  BY <1>1, <1>4 DEF PassOver, Exit, Kill, RunMake, vars
<1>5. CASE \E t \in Targets : Fail(t)
  BY <1>1, <1>5 DEF Fail
<1>6. CASE Stamp
  <2>1. TOOLCHAIN_STAMP \in Needed("all", VERIFY_ON)
    BY DEF Needed
  <2>2. TOOLCHAIN_STAMP \in exists /\ made[TOOLCHAIN_STAMP] = StampContent
    BY <2>1 DEF NothingToDo, Settled, UpToDate
  <2> QED BY <1>1, <1>6, <2>2 DEF Stamp
<1>7. ASSUME NEW t \in Targets, Start(t) PROVE NothingToDo'
  <2>1. Linked \in Needed("all", VERIFY_ON)
    BY DEF Needed, Products
  <2>2. t # Linked
    BY <1>7, <2>1, CargoReads DEF Start, NothingToDo, Settled
  <2> QED BY <1>1, <1>7, <2>2 DEF Start
<1>8. ASSUME NEW t \in Targets, Finish(t) PROVE NothingToDo'
  <2>1. CASE UNCHANGED files
    BY <1>1, <2>1
  <2>2. t \in jobs /\ reading[t] = Snapshot(t)
    BY <1>8, <1>t DEF Finish, RunInv
  <2>3. CASE t = CargoTools
    <3>1. CargoTools \in Needed("all", VERIFY_ON)
      BY DEF Needed, Products
    <3>2. CargoFresh(t)
      BY <2>2, <2>3, <3>1, CargoReads DEF CargoFresh, NothingToDo, Settled, Now
    <3> QED BY <1>8, <2>1, <3>2 DEF Finish
  <2>4. ASSUME t # CargoTools, NEW o, Write(t, reading[t], o) PROVE NothingToDo'
    <3>1. t \notin Needed("all", VERIFY_ON)
      <4>1. Obj \in Needed("all", VERIFY_ON) /\ Obj # CargoTools
        BY DEF Needed, Products, Obj, CargoTools
      <4> QED BY <2>2, <2>4, <4>1 DEF JobsPending, Behind, NothingToDo, Settled
    <3>2. UNCHANGED <<VERIFY_ON, StampContent>>
      BY DEF VERIFY_ON, StampContent
    <3>3. ASSUME NEW u \in Needed("all", VERIFY_ON) PROVE Settled(u)'
      <4>1. u \in Targets \ {t} /\ t \notin Prereqs(u, VERIFY_ON)
        BY <3>1, NeededClosed, InputsAreNoTargets
      <4>2. u \in exists /\ Settled(u)
        BY DEF NothingToDo, Settled, UpToDate
      <4>3. newer'[u] \subseteq newer[u] \union {t} /\ u \in exists' /\ made'[u] = made[u]
        BY <1>t, <2>4, <4>1, <4>2 DEF Write, Touched, TypeOK
      <4>4. Prereqs(u, VERIFY_ON)' = Prereqs(u, VERIFY_ON)
        BY <3>2 DEF Prereqs
      <4> QED BY <4>1, <4>2, <4>3, <4>4 DEF Settled, UpToDate
    <3>4. made'[TOOLCHAIN_STAMP] = made[TOOLCHAIN_STAMP]
      <4>1. TOOLCHAIN_STAMP \in Targets \ {t}
        BY <3>1 DEF Needed, Targets
      <4> QED BY <1>t, <2>4, <4>1 DEF Write, TypeOK
    <3>5. Needed("all", VERIFY_ON)' = Needed("all", VERIFY_ON)
      BY <3>2
    <3> QED BY <3>2, <3>3, <3>4, <3>5 DEF NothingToDo
  <2> QED BY <1>8, <2>1, <2>3, <2>4 DEF Finish
<1> QED BY <1>2, <1>3, <1>4, <1>5, <1>6, <1>7, <1>8 DEF Next, Build, Make, Disturb

\* make never makes work: once nothing is left to do, only a change of an input or
\* a clean brings some, also while a make verify writes files of its own
\* (rules.mk 640, and the recipes that write their target last).
THEOREM SettledStays == Spec => StaysSettled
<1>1. Init => JobsPending
  BY DEF Init, JobsPending
<1>2. IInv /\ JobsPending /\ [Next]_vars => JobsPending'
  BY PendingStep
<1>3. IInv /\ JobsPending /\ [Next]_vars
         => [NothingToDo /\ value' = value /\ exists \subseteq exists' => NothingToDo']_vars
  BY NothingComesUp
<1> QED BY <1>1, <1>2, <1>3, AlwaysIInv, PTL DEF Spec, StaysSettled

------------------------------------------------------------------------------
(* MakeBuild implements VerifiedBuild: an edit or a clean is a Change, the start of *)
(* a make an Ask, the exit of a make all that succeeds a Deliver, any other exit,   *)
(* and a kill, a Refuse; what make does in between is not seen.                     *)

\* What a make all that succeeds claims is the product of the inputs as they are.
LEMMA WholeClaim ==
    ASSUME IInv, NothingToDo
    PROVE  /\ made[Obj] = ProductOf(value)
           /\ (VERIFY_ON /\ Certified) = VerifyWanted(value)
<1>1. made[Obj] = ProductOf(value)
  BY FreshHere DEF IInv, ObjectFresh, FromScratch, ProductOf
<1>2. VERIFY_ON => Certified
  BY VerifiedHere DEF IInv, ObjectVerified, SameSource, Certified, LIB_VIRS
<1> QED BY <1>1, <1>2 DEF VERIFY_ON, VerifyWanted

LEMMA InitRefines == Init => Abstract!Init
  BY DEF Init, Abstract!Init, Claim, Delivered, ValuationsOfInputs

LEMMA StepRefines ==
    ASSUME IInv, [Next]_vars PROVE [Abstract!Next]_(Abstract!vars)
<1> USE DEF Abstract!Next, Abstract!vars
<1>t. TypeOK /\ TypeOK'
  BY TypeStep DEF IInv
<1>v. value \in ValuationsOfInputs /\ value' \in ValuationsOfInputs
  BY <1>t DEF TypeOK, ValuationsOfInputs
<1>n. status' # "ok" => Claim' = Nothing
  BY DEF Claim, Delivered
<1>p. phase # "idle" => Claim = Nothing
  BY DEF Claim, Delivered, IInv, RunInv
<1>1. CASE \E s \in Inputs \ {Tools} : Edit(s)
  <2>1. phase = "idle" /\ phase' = phase /\ status' = "none"
    BY <1>1 DEF Edit, Change, run
  <2>2. Abstract!Change
    BY <1>v, <1>n, <2>1 DEF Abstract!Change
  <2> QED BY <2>2
<1>2. CASE clean \/ distclean
  <2>1. phase = "idle" /\ phase' = phase /\ status' = "none"
    BY <1>2 DEF clean, distclean, Remove, run
  <2>2. Abstract!Change
    BY <1>v, <1>n, <2>1 DEF Abstract!Change
  <2> QED BY <2>2
<1>3. CASE \E g \in Goals : RunMake(g)
  <2>1. phase = "idle" /\ phase' = "running" /\ status' = "none" /\ value' = value
    BY <1>3 DEF RunMake
  <2>2. Abstract!Ask
    BY <1>n, <2>1 DEF Abstract!Ask
  <2> QED BY <2>2
<1>4. ASSUME phase # "idle", phase' # "idle", UNCHANGED <<value, status>>
      PROVE  UNCHANGED Abstract!vars
  <2>1. Claim = Nothing /\ Claim' = Nothing
    BY <1>n, <1>p, <1>4 DEF IInv, RunInv
  <2> QED BY <1>4, <2>1
<1>5. CASE PassOver \/ Stamp \/ \E t \in Targets : Start(t)
  BY <1>4, <1>5 DEF PassOver, Stamp, Start
<1>6. CASE \E t \in Targets : Finish(t) \/ Fail(t)
  <2>1. phase # "idle" /\ phase' # "idle" /\ UNCHANGED <<value, status>>
    BY <1>6 DEF Finish, Fail, files, IInv, RunInv
  <2> QED BY <1>4, <2>1
<1>7. ASSUME phase # "idle", phase' = "idle", value' = value, Claim' = Nothing
      PROVE  Abstract!Next
  <2>1. Abstract!Refuse
    BY <1>p, <1>7 DEF Abstract!Refuse
  <2> QED BY <2>1
<1>8. CASE Kill
  BY <1>7, <1>8, <1>n DEF Kill
<1>9. CASE Exit
  <2>1. phase # "idle" /\ phase' = "idle" /\ UNCHANGED <<value, files, goal>>
    BY <1>9 DEF Exit
  <2>2. CASE status' = "ok" /\ goal = "all"
    <3>1. Needed("all", VERIFY_ON) \subseteq updated
      BY <1>9, <2>2 DEF Exit
    <3>2. NothingToDo
      BY <3>1, AllDealtWith
    <3>3. Delivered'
      BY <2>1, <2>2 DEF Delivered
    <3>4. /\ made'[Obj] = made[Obj]
          /\ (VERIFY_ON /\ Certified)' = (VERIFY_ON /\ Certified)
      BY <2>1 DEF files, VERIFY_ON, Certified
    <3>5. Claim' = [code |-> ProductOf(value), verified |-> VerifyWanted(value)]
      BY <3>2, <3>3, <3>4, WholeClaim DEF Claim
    <3>6. Abstract!Deliver
      BY <2>1, <3>5 DEF Abstract!Deliver
    <3> QED BY <3>6
  <2>3. CASE ~(status' = "ok" /\ goal = "all")
    <3>1. Claim' = Nothing
      BY <2>1, <2>3 DEF Claim, Delivered
    <3> QED BY <1>7, <2>1, <3>1
  <2> QED BY <2>2, <2>3
<1>10. CASE UNCHANGED vars
  <2>1. UNCHANGED <<value, phase, Claim>>
    BY <1>10 DEF vars, files, run, Claim, Delivered, VERIFY_ON, Certified
  <2> QED BY <2>1
<1> QED
  BY <1>1, <1>2, <1>3, <1>5, <1>6, <1>8, <1>9, <1>10 DEF Next, Build, Make, Disturb

\* Whatever is edited, built, killed, failed and cleaned in between, a make all either
\* refuses or delivers the verified product of the inputs as they are: the safety
\* of VerifiedBuild holds of rules.mk.
THEOREM DeliversTheVerified == Spec => Abstract!Init /\ [][Abstract!Next]_(Abstract!vars)
<1>1. IInv /\ [Next]_vars => [Abstract!Next]_(Abstract!vars)
  BY StepRefines
<1> QED BY <1>1, InitRefines, AlwaysIInv, PTL DEF Spec

\* The whole of it, where every make comes back: that one is a property of the
\* fairness of make and is checked, not proved.
THEOREM BuildRefines == Spec /\ MakeReturns => ImplementsVerifiedBuild
<1>1. (phase = "idle") <=> ~(phase # "idle")
  OBVIOUS
<1>2. MakeReturns => Abstract!Answered
  BY <1>1, PTL DEF MakeReturns, Abstract!Answered
<1> QED BY <1>2, DeliversTheVerified, PTL DEF ImplementsVerifiedBuild, Abstract!Spec
==============================================================================
