------------------------------ MODULE MakeBuild ------------------------------
(***************************************************************************)
(* The build rules.mk describes, as GNU make runs it: `make all` verifies  *)
(* the library crates, the userspace logic crate and the program with      *)
(* Verus, compiles the same sources for BPF with the ghost code erased,    *)
(* links, post-processes and emits the object; `make verify` runs the      *)
(* verification passes and the mutants.                                    *)
(*                                                                         *)
(* Files.  A file is <<kind, n>>.  What make sees of a target is that it   *)
(* exists and which prerequisites are newer than it (newer[t]): time       *)
(* stamps are an order, no clock is needed.  What the properties see is    *)
(* what the target was made of: made[t] is a set of <<input, value>>       *)
(* pairs, the value each input had when the recipe that last wrote t, or   *)
(* one of the files that recipe read, looked at it.  outcome[t] is how     *)
(* that recipe ended.                                                      *)
(*                                                                         *)
(* make.  A recipe is two steps, Start reads its inputs, Finish writes its *)
(* target, and up to Jobs recipes run at once (make -j).  GNU make itself, *)
(* Verus, rustc and the LLVM tools are not in this repository: they appear *)
(* as rules.mk uses them.                                                  *)
(*                                                                         *)
(* Abstractions.  libcore, compiler_builtins and libbtf are one target     *)
(* (Runtime); the macro library and bpf-postproc, which cargo builds, are  *)
(* one target (CargoTools); the host rlib of a crate is written with its   *)
(* .vir; reloc.bc, opt.bc and ksyms.bc, each read by the next rule only,   *)
(* are inside the object's target.  The toolchain's own sources do not     *)
(* change, and a compiler is only replaced by a newer one.                 *)
(***************************************************************************)
EXTENDS Naturals, FiniteSets

CONSTANTS
    NLibs,          \* number of crates in LIB_CRATES; crate i imports 1..i-1
    Mutants,        \* the patches in MUTANTS
    HasUserCore,    \* is USER_CORE_SRC set?
    Versions,       \* contents a source file can have
    ToolChoices,    \* LLVM tools LLC, OPT, LLVM_LINK, ... can select
    Compilers,      \* releases of rustc and LLVM, the later the larger
    Configs,        \* settings of the variables of the consumer's Makefile
    Unverified,     \* those with VERIFY=0
    Goals,          \* the goals somebody asks make for
    Jobs            \* make -j Jobs

ASSUME ConstantsOK ==
    /\ NLibs \in Nat
    /\ HasUserCore \in BOOLEAN
    /\ Compilers \subseteq Nat
    /\ Unverified \subseteq Configs
    /\ Goals \subseteq {"all", "verify"}
    /\ Jobs \in Nat \ {0}

------------------------------------------------------------------------------
(* The files of rules.mk. *)

Crates == 1..NLibs
PREV(i) == 1..(i - 1)

\* Inputs.
SRCS(i)     == <<"lib.rs", i>>
SRC         == <<"main.rs", 0>>
USER_CORE   == <<"user_core.rs", 0>>
Patch(m)    == <<"patch", m>>
Compiler    == <<"compiler", 0>>     \* rustc, LLVM and cargo's features
Config      == <<"config", 0>>       \* the other variables the stamp records
Tools       == <<"tools", 0>>        \* which LLC, OPT, LLVM_LINK, ... are run

\* Targets.
TOOLCHAIN_STAMP == <<"toolchain.stamp", 0>>
Runtime     == <<"libcore.rlib", 0>>
CargoTools  == <<"libbtf_macros.so", 0>>
HostBtf     == <<"libbtf.rlib", 0>>
VIR(i)      == <<"vir", i>>
BPF_RLIB(i) == <<"rlib", i>>
VerifyStamp == <<"verify.stamp", 0>>
UserCoreStamp  == <<"user_core.stamp", 0>>
MutantStamp(m) == <<"mutant.stamp", m>>
ProgBc      == <<"prog.bc", 0>>
Extracted   == <<"extracted.stamp", 0>>
Linked      == <<"linked.bc", 0>>
Obj         == <<"prog.o", 0>>

LIB_VIRS      == {VIR(i) : i \in Crates}
LIB_BPF_RLIBS == {BPF_RLIB(i) : i \in Crates}
MUTANT_STAMPS == {MutantStamp(m) : m \in Mutants}
UserCoreStamps == IF HasUserCore THEN {UserCoreStamp} ELSE {}

SourceFiles == {SRCS(i) : i \in Crates} \union {SRC} \union {Patch(m) : m \in Mutants}
                    \union (IF HasUserCore THEN {USER_CORE} ELSE {})
Inputs == SourceFiles \union {Compiler, Config, Tools}

\* The inputs that are no files and that the toolchain stamp records.
Recorded == {Compiler, Config}

\* The targets whose recipe is a Verus run.
Verifications == LIB_VIRS \union {VerifyStamp} \union UserCoreStamps

\* What the compile half of the pipeline makes, and where clean removes it.
Products == {Runtime, CargoTools, ProgBc, Extracted, Linked, Obj} \union LIB_BPF_RLIBS
OUT == {VerifyStamp, UserCoreStamp, ProgBc, Linked, Obj} \union MUTANT_STAMPS

Targets == {TOOLCHAIN_STAMP, HostBtf} \union Products \union Verifications \union MUTANT_STAMPS

------------------------------------------------------------------------------
(* The rules: prerequisites, and what the recipe reads besides them. *)

VirPrereqs(i) == {SRCS(i), CargoTools, HostBtf, TOOLCHAIN_STAMP} \union {VIR(j) : j \in PREV(i)}

RlibReads(i) == {SRCS(i), Runtime, CargoTools, TOOLCHAIN_STAMP}
                    \union {BPF_RLIB(j) : j \in PREV(i)}

\* Mutant: verify.stamp does not depend on the crates.
StampWithoutVirs == {SRC, CargoTools, HostBtf, TOOLCHAIN_STAMP}

StampPrereqs == {SRC, CargoTools, HostBtf, TOOLCHAIN_STAMP} \union LIB_VIRS

ProgReads == {SRC, Runtime, CargoTools} \union LIB_BPF_RLIBS

\* The files the rule of t names besides those VerifyDeps adds.
FilesRead(t) ==
    CASE t[1] = "toolchain.stamp" -> {}
      [] t[1] = "libcore.rlib"    -> {TOOLCHAIN_STAMP}
      [] t[1] = "libbtf_macros.so" -> {TOOLCHAIN_STAMP}
      [] t[1] = "libbtf.rlib"     -> {TOOLCHAIN_STAMP}
      [] t[1] = "vir"             -> VirPrereqs(t[2])
      [] t[1] = "rlib"            -> RlibReads(t[2])
      [] t[1] = "verify.stamp"    -> StampPrereqs
      [] t[1] = "user_core.stamp" -> {USER_CORE, TOOLCHAIN_STAMP}
      [] t[1] = "mutant.stamp"    -> {Patch(t[2]), SRC, CargoTools, HostBtf} \union LIB_VIRS
      [] t[1] = "prog.bc"         -> ProgReads
      [] t[1] = "extracted.stamp" -> {Runtime} \union LIB_BPF_RLIBS
      [] t[1] = "linked.bc"       -> {ProgBc, Extracted}
      [] t[1] = "prog.o"          -> {Linked, CargoTools}

\* Mutant: a crate is compiled while it is being verified.
UnorderedVerifyDeps(t) == IF t = ProgBc THEN {VerifyStamp} ELSE {}

\* $(VERIFY_DEP), $(USER_CORE_DEP) and $(c)_VERIFY_DEP: prerequisites that
\* only order a compile after the verification of what it compiles.
VerifyDeps(t) ==
    CASE t[1] = "rlib"    -> {VIR(t[2])}
      [] t[1] = "prog.bc" -> {VerifyStamp} \union UserCoreStamps
      [] OTHER            -> {}

AllPrereqs(t) == FilesRead(t) \union VerifyDeps(t)

Prereqs(t, verify) == IF verify THEN AllPrereqs(t) ELSE FilesRead(t)

\* Everything a recipe reads.  Each runs under the variables of the consumer's
\* Makefile; the link and emit rules also run the LLVM tools.  cargo goes by the
\* compiler, not by the stamp the rule names.
Reads(t) ==
    IF t = CargoTools THEN {Compiler}
    ELSE FilesRead(t) \union Recorded \union (IF t[1] \in {"linked.bc", "prog.o"} THEN {Tools} ELSE {})

\* What the goals of make need.
Needed(goal, verify) ==
    CASE goal = "all"    -> {TOOLCHAIN_STAMP} \union Products
                                \union (IF verify THEN {HostBtf} \union Verifications ELSE {})
      [] goal = "verify" -> {TOOLCHAIN_STAMP, CargoTools, HostBtf} \union Verifications
                                \union MUTANT_STAMPS

------------------------------------------------------------------------------
(* How a recipe ends.  A Verus run reports one of:
     verified   exit 0, "N verified, 0 errors"
     errors     exit 1, "N verified, M errors"
     declined   exit 0, no results line: a crate it did not look at
     nobuild    exit 1, no results line: the source does not compile
   Any other recipe passes ("ok") or one of its commands fails ("fails"). *)
VerusOutcomes == {"verified", "errors", "declined", "nobuild"}

RunsVerus(t) == t[1] \in {"vir", "verify.stamp", "user_core.stamp"}

RunsMutant(t) == t[1] = "mutant.stamp"

Outcomes(t) ==
    IF RunsVerus(t) \/ RunsMutant(t) THEN VerusOutcomes ELSE {"ok", "fails"}

ExitsZero(o) == o \in {"verified", "declined"}

check_verified(o) == o = "verified"

\* Mutant: a patch that does not compile counts as rejected.
AnyRejection(o) == ~ExitsZero(o)

\* A mutant must be rejected, and with a verification error.
MutantRejected(o) == ~ExitsZero(o) /\ o = "errors"

Passes(t, o) ==
    /\ RunsVerus(t) => ExitsZero(o) /\ check_verified(o)
    /\ RunsMutant(t) => MutantRejected(o)
    /\ ~RunsVerus(t) /\ ~RunsMutant(t) => o = "ok"

------------------------------------------------------------------------------
VARIABLES
    value,      \* value[s]: what input s holds
    exists,     \* the targets that are on disk
    newer,      \* newer[t]: the prerequisites written since t was
    made,       \* made[t]: the inputs, with their values, that t was made of
    outcome,    \* outcome[t]: how the recipe that wrote t ended
    phase,      \* "idle", "running", or "failed": a recipe failed, make waits
    goal,       \* what make was asked for
    updated,    \* targets make considers up to date in this run
    jobs,       \* the recipes running
    reading,    \* reading[t]: for t in jobs, what its recipe read
    status      \* exit of the last make, "none" once something changed

files == <<exists, newer, made, outcome>>
run   == <<phase, goal, updated, jobs, reading>>
vars  == <<value, files, run, status>>

VERIFY_ON == value[Config] \notin Unverified

Contents == Versions \union Compilers \union Configs \union ToolChoices

Values(s) ==
    CASE s = Compiler -> Compilers
      [] s = Config   -> Configs
      [] s = Tools    -> ToolChoices
      [] OTHER        -> Versions

Init ==
    /\ value \in [Inputs -> Contents]
    /\ \A s \in Inputs : value[s] \in Values(s)
    /\ exists = {}
    /\ newer = [t \in Targets |-> {}]
    /\ made = [t \in Targets |-> {}]
    /\ outcome = [t \in Targets |-> "none"]
    /\ phase = "idle" /\ goal \in Goals /\ updated = {}
    /\ jobs = {} /\ reading = [t \in Targets |-> {}]
    /\ status = "none"

------------------------------------------------------------------------------
(* File system. *)

\* f gets a new time stamp: it is newer than every file that depends on it.
Touched(f) == [t \in Targets |->
                 IF t \in exists /\ f \in AllPrereqs(t) THEN newer[t] \union {f} ELSE newer[t]]

\* Mutant: the recipe does not touch its target.
WriteKeepingTime(t, p, o) ==
    /\ exists' = exists \union {t}
    /\ newer' = [newer EXCEPT ![t] = {}]
    /\ made' = [made EXCEPT ![t] = p]
    /\ outcome' = [outcome EXCEPT ![t] = o]

\* The recipe of t writes it, from inputs p.
Write(t, p, o) ==
    /\ exists' = exists \union {t}
    /\ newer' = [Touched(t) EXCEPT ![t] = {}]
    /\ made' = [made EXCEPT ![t] = p]
    /\ outcome' = [outcome EXCEPT ![t] = o]

\* What the recipe of t reads now.
Snapshot(t) ==
    (UNION {made[p] : p \in Reads(t) \ Inputs})
        \union {<<s, value[s]>> : s \in Reads(t) \intersect Inputs}

------------------------------------------------------------------------------
(* The person at the terminal. *)

\* Save a source file, or change a variable in the consumer's Makefile.
Change(s, v) ==
    /\ v \in Values(s) /\ v # value[s]
    /\ value' = [value EXCEPT ![s] = v]
    /\ newer' = Touched(s)
    /\ status' = "none"
    /\ UNCHANGED <<exists, made, outcome, run>>

\* cargo keeps what an earlier compiler made, and would put it back with the
\* time it had: the model does not go back to one.
Edit(s) ==
    phase = "idle" /\ \E v \in Contents : Change(s, v) /\ (s = Compiler => v > value[s])

Remove(ts) ==
    /\ phase = "idle" /\ exists \intersect ts # {}
    /\ exists' = exists \ ts
    /\ newer' = [t \in Targets |-> IF t \in ts THEN {} ELSE newer[t]]
    /\ made' = [t \in Targets |-> IF t \in ts THEN {} ELSE made[t]]
    /\ outcome' = [t \in Targets |-> IF t \in ts THEN "none" ELSE outcome[t]]
    /\ status' = "none"
    /\ UNCHANGED <<value, run>>

clean == Remove(OUT)

distclean == Remove(Targets)

RunMake(g) ==
    /\ phase = "idle"
    /\ phase' = "running" /\ goal' = g /\ updated' = {} /\ status' = "none"
    /\ UNCHANGED <<value, files, jobs, reading>>

------------------------------------------------------------------------------
(* make. *)

\* t is wanted, and every prerequisite of it has been dealt with.
Considered(t) ==
    /\ t \in Needed(goal, VERIFY_ON) \ (updated \union jobs)
    /\ Prereqs(t, VERIFY_ON) \ Inputs \subseteq updated

UpToDate(t) == t \in exists /\ newer[t] \intersect Prereqs(t, VERIFY_ON) = {}

\* make passes over the targets that need no work before it starts a recipe.
Passable == {t \in Targets \ {TOOLCHAIN_STAMP} : Considered(t) /\ UpToDate(t)}

PassOver ==
    /\ phase = "running" /\ Passable # {}
    /\ updated' = updated \union Passable
    /\ UNCHANGED <<value, files, phase, goal, jobs, reading, status>>

\* The toolchain stamp is always remade, and replaced only when what it
\* records has changed: cmp -s $@.tmp $@ && rm $@.tmp || mv $@.tmp $@
\* Mutants: a stamp that records the tools only; one that loses the name.
ToolsOnlyContent == {<<Tools, value[Tools]>>}
NamelessContent == {value[Config]}

StampContent == {<<s, value[s]>> : s \in Recorded}

\* Mutant: the stamp is replaced each time.
AlwaysStamp ==
    /\ phase = "running" /\ Considered(TOOLCHAIN_STAMP)
    /\ Write(TOOLCHAIN_STAMP, StampContent, "ok")
    /\ updated' = updated \union {TOOLCHAIN_STAMP}
    /\ UNCHANGED <<value, phase, goal, jobs, reading, status>>

Stamp ==
    /\ phase = "running" /\ Considered(TOOLCHAIN_STAMP)
    /\ IF TOOLCHAIN_STAMP \in exists /\ made[TOOLCHAIN_STAMP] = StampContent
       THEN UNCHANGED files
       ELSE Write(TOOLCHAIN_STAMP, StampContent, "ok")
    /\ updated' = updated \union {TOOLCHAIN_STAMP}
    /\ UNCHANGED <<value, phase, goal, jobs, reading, status>>

\* The recipe of t starts.  The one of linked.bc copies prog.bc to its target
\* at once and links into the copy.
Start(t) ==
    /\ phase = "running" /\ t # TOOLCHAIN_STAMP /\ Cardinality(jobs) < Jobs
    /\ Considered(t) /\ ~UpToDate(t) /\ Passable = {}
    /\ jobs' = jobs \union {t}
    /\ reading' = [reading EXCEPT ![t] = Snapshot(t)]
    /\ IF t = Linked THEN Write(t, Snapshot(t), "fails") ELSE UNCHANGED files
    /\ UNCHANGED <<value, phase, goal, updated, status>>

EndJob(t) ==
    /\ jobs' = jobs \ {t}
    /\ reading' = [reading EXCEPT ![t] = {}]

\* cargo finds what it made of the same compiler fresh.
CargoFresh(t) == t = CargoTools /\ t \in exists /\ made[t] = reading[t]

\* Mutant: the job slot is not given back.
FinishKeepingSlot(t) ==
    /\ t \in jobs
    /\ IF CargoFresh(t)
       THEN UNCHANGED files
       ELSE \E o \in Outcomes(t) : Passes(t, o) /\ Write(t, reading[t], o)
    /\ updated' = updated \union {t}
    /\ UNCHANGED <<value, phase, goal, jobs, reading, status>>

\* The recipe of t ends well.  The last command of every recipe but the one of a
\* .vir and cargo's writes the target.  cargo leaves a fresh target with the time
\* stamp it has, so that one may stay older than the toolchain stamp and its
\* recipe be run by every make; for make, what depends on it is no older for that.
Finish(t) ==
    /\ t \in jobs
    /\ IF CargoFresh(t)
       THEN UNCHANGED files
       ELSE \E o \in Outcomes(t) : Passes(t, o) /\ Write(t, reading[t], o)
    /\ EndJob(t)
    /\ updated' = updated \union {t}
    /\ UNCHANGED <<value, phase, goal, status>>

\* Mutant: the exit status of the recipe is ignored.
FailIgnored(t) ==
    /\ t \in jobs
    /\ \E o \in Outcomes(t) : ~Passes(t, o)
    /\ EndJob(t)
    /\ updated' = updated \union {t}
    /\ UNCHANGED <<value, files, phase, goal, status>>

\* The recipe of t fails before it has written t.  make starts nothing more.
Fail(t) ==
    /\ t \in jobs
    /\ \E o \in Outcomes(t) : ~Passes(t, o)
    /\ EndJob(t)
    /\ phase' = "failed"
    /\ UNCHANGED <<value, files, goal, updated, status>>

Exit ==
    /\ \/ /\ phase = "running" /\ Needed(goal, VERIFY_ON) \subseteq updated
          /\ status' = "ok"
       \/ /\ phase = "failed" /\ jobs = {}
          /\ status' = "error"
    /\ phase' = "idle" /\ updated' = {}
    /\ UNCHANGED <<value, files, goal, jobs, reading>>

\* make and its recipes are killed.
Kill ==
    /\ phase # "idle"
    /\ phase' = "idle" /\ updated' = {} /\ status' = "error"
    /\ jobs' = {} /\ reading' = [t \in Targets |-> {}]
    /\ UNCHANGED <<value, files, goal>>

------------------------------------------------------------------------------
(* What the environment may do that the recipes do not guard against. *)

\* Verus exported the .vir of a crate it then found errors in, or declined to
\* look at: the recipe fails, the target stays.
FailLeavingVir(t) ==
    /\ t \in jobs \intersect LIB_VIRS
    /\ \E o \in Outcomes(t) : ~Passes(t, o) /\ Write(t, reading[t], o)
    /\ EndJob(t)
    /\ phase' = "failed"
    /\ UNCHANGED <<value, goal, updated, status>>

\* Another llc, opt or llvm-link is selected by overriding its variable.
OverrideTools == phase = "idle" /\ \E v \in ToolChoices : Change(Tools, v)

------------------------------------------------------------------------------
\* What make does, once asked.
Make ==
    \/ PassOver
    \/ Stamp
    \/ \E t \in Targets : Start(t) \/ Finish(t)
    \/ Exit

Build == Make \/ \E g \in Goals : RunMake(g)

\* What happens to it.  This environment is a disciplined one: nobody saves a
\* file during a build, Verus leaves no .vir when it fails, the link is not cut
\* short, the LLVM tools stay the same.
Disturb ==
    \/ \E s \in Inputs \ {Tools} : Edit(s)
    \/ clean
    \/ distclean
    \/ \E t \in Targets \ {Linked} : Fail(t)
    \/ Linked \notin jobs /\ Kill

\* The same, with one of those assumptions dropped at a time.
LeaveVir == Disturb \/ \E t \in LIB_VIRS : FailLeavingVir(t)
SwitchTools == Disturb \/ OverrideTools

\* A recipe ends and make goes on: nothing in rules.mk waits for the user.
Fairness == WF_vars(Make)

Next == Build \/ Disturb
Spec == Init /\ [][Next]_vars /\ Fairness

------------------------------------------------------------------------------
(* Properties. *)

TypeOK ==
    /\ value \in [Inputs -> Contents]
    /\ \A s \in Inputs : value[s] \in Values(s)
    /\ exists \subseteq Targets
    /\ newer \in [Targets -> SUBSET (Targets \union Inputs)]
    /\ made \in [Targets -> SUBSET (Inputs \X Contents)]
    /\ outcome \in [Targets -> VerusOutcomes \union {"ok", "fails", "none"}]
    /\ phase \in {"idle", "running", "failed"}
    /\ goal \in Goals
    /\ updated \subseteq Targets
    /\ jobs \subseteq Targets
    /\ reading \in [Targets -> SUBSET (Inputs \X Contents)]
    /\ status \in {"none", "ok", "error"}

\* make all has just succeeded, and nothing has been touched since.
Delivered == status = "ok" /\ goal = "all"

\* A make would leave t as it is: it passes over t, or runs cargo, which finds
\* its tools fresh.
Settled(t) ==
    IF t = CargoTools
    THEN t \in exists /\ made[t] = {<<Compiler, value[Compiler]>>}
    ELSE UpToDate(t)

\* A `make all` now would run no recipe but that of the toolchain stamp and
\* cargo's, and these would leave their files alone.
NothingToDo ==
    /\ \A t \in Needed("all", VERIFY_ON) : Settled(t)
    /\ made[TOOLCHAIN_STAMP] = StampContent

\* What make compares are time stamps; what it delivers is content.  When it
\* finds nothing to do, the object is the one a build from scratch would make
\* from the sources and the configuration as they are, whatever was built,
\* edited, killed, failed, cleaned and reconfigured before (the prerequisite
\* lists of rules.mk and the toolchain stamp of its lines 621-644).
CodeInputs == {SRCS(i) : i \in Crates} \union {SRC, Compiler, Config, Tools}

FromScratch == {<<s, value[s]>> : s \in CodeInputs}

ObjectFresh == NothingToDo => made[Obj] = FromScratch

\* When make finds nothing to do and VERIFY is on, each crate compiled into the
\* object, and the program, is one Verus verified: that version of it, against
\* those versions of the crates it imports (rules.mk 287-311 and 386-410;
\* TOOLCHAIN.md line 3: "verifies Rust source with Verus, then compiles the same
\* source to BPF").
Part(p, ss) == {sv \in p : sv[1] \in ss}

SameSource(t, ss) == outcome[t] = "verified" /\ Part(made[t], ss) = Part(made[Obj], ss)

LibSources(i) == {SRCS(j) : j \in 1..i}

ObjectVerified ==
    NothingToDo /\ VERIFY_ON =>
        /\ \A i \in Crates : SameSource(VIR(i), LibSources(i))
        /\ SameSource(VerifyStamp, LibSources(NLibs) \union {SRC})

\* A target that is there with the files its rule names, none of them newer,
\* holds what the recipe would put there now: what make's comparison of time
\* stamps has to mean for skipping a recipe to be right.  The compiler and the
\* configuration are no files; they come in with the toolchain stamp, at the
\* bottom.
Fresh(t) ==
    /\ t \in exists
    /\ newer[t] \intersect FilesRead(t) = {}
    /\ FilesRead(t) \ Inputs \subseteq exists

Rebuilt(t) ==
    LET knows == (UNION {made[p] : p \in FilesRead(t) \ Inputs})
                     \union {<<s, value[s]>> : s \in (Reads(t) \intersect Inputs) \ Recorded}
    IN  IF t = CargoTools THEN Part(knows, {Compiler}) ELSE knows

CleanMeansCurrent == \A t \in Targets \ {TOOLCHAIN_STAMP} : Fresh(t) => made[t] = Rebuilt(t)

\* A make that succeeds has left nothing to do: the next one writes no file.  The
\* recipes it runs are the stamp's (rules.mk 640) and, where the stamp was replaced
\* for a reason cargo does not go by, cargo's (240-254).
DeliveredIsSettled == Delivered => NothingToDo

\* make itself never makes work: once nothing is left to do, only a change of an
\* input or a clean brings some (rules.mk 640, the stamp that records the same is
\* not replaced; 240-254, what cargo finds fresh is not touched).
StaysSettled ==
    [][NothingToDo /\ value' = value /\ exists \subseteq exists' => NothingToDo']_vars

\* With VERIFY on, rustc is not started on a crate before Verus has said yes to
\* the version rustc is about to read (rules.mk 285 and 312).
VerifiedFirst ==
    [][\A i \in Crates : BPF_RLIB(i) \in jobs' \ jobs /\ VERIFY_ON =>
          /\ VIR(i) \in exists /\ outcome[VIR(i)] = "verified"
          /\ <<SRCS(i), value[SRCS(i)]>> \in made[VIR(i)]]_vars

\* Every make comes back: no recipe waits for another that waits for it.
MakeReturns == (phase # "idle") ~> (phase = "idle")

\* When `make verify` succeeds, Verus has rejected each mutant of the program as
\* it now is (rules.mk 331-333: "the build fails unless Verus rejects it -- with
\* a verification error, not a compile error").
MutantsRejected ==
    status = "ok" /\ goal = "verify" =>
        \A m \in Mutants :
            /\ outcome[MutantStamp(m)] = "errors"
            /\ {<<Patch(m), value[Patch(m)]>>, <<SRC, value[SRC]>>} \subseteq made[MutantStamp(m)]

\* The build implements its abstract specification.
ValuationsOfInputs == {val \in [Inputs -> Contents] : \A s \in Inputs : val[s] \in Values(s)}

VerifyWanted(val) == val[Config] \notin Unverified

ProductOf(val) == {<<s, val[s]>> : s \in CodeInputs}

Certified ==
    VERIFY_ON => \A t \in LIB_VIRS \union {VerifyStamp} : outcome[t] = "verified"

Nothing == [code |-> {}, verified |-> FALSE]

Claim == IF Delivered
         THEN [code |-> made[Obj], verified |-> VERIFY_ON /\ Certified]
         ELSE Nothing

Abstract == INSTANCE VerifiedBuild WITH
    Valuations <- ValuationsOfInputs,
    Wanted     <- VerifyWanted,
    Product    <- ProductOf,
    NoClaim    <- Nothing,
    inputs     <- value,
    pending    <- phase # "idle",
    claim      <- Claim

\* Each make all either refuses or delivers the verified product of the inputs
\* as they are (VerifiedBuild).
ImplementsVerifiedBuild == Abstract!Spec
==============================================================================
