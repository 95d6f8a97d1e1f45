------------------------------ MODULE LinkRounds ------------------------------
(***************************************************************************)
(* How the linked bitcode of a program is made: a copy of the program's    *)
(* own is linked five times with the objects of all crates, taking of each *)
(* only what is needed by then, and once with multi3.bc.  An object is     *)
(* gone through once a round, in the order find lists them, so what a later*)
(* object turns out to need of an earlier one waits for the next round.    *)
(*                                                                         *)
(* What stays undefined is declared as a kernel function by add_ksyms.py   *)
(* (Ksyms), whatever it is.                                                *)
(*                                                                         *)
(* A program is a record: main, the symbols prog.bc defines; objects, those*)
(* each object defines; and refs, those each definition refers to.  Objects*)
(* that define one symbol, as instances of one generic function, agree.    *)
(***************************************************************************)
EXTENDS Naturals, Sequences, FiniteSets, Functions

CONSTANTS
    Symbols,
    Programs,
    Orders(_),      \* the orders find may list the objects of a program in
    Within(_, _)    \* the symbols of a program so many hops from object to
                    \* object away

Multi3Symbol == "__multi3"

Defines(p, o) == p.objects[o]
RefsOf(p, S) == UNION {p.refs[s] : s \in S}

\* The part of object o that some symbols need: those of them it defines, and what
\* they refer to that it defines too.
ClosedIn(p, o, C) == RefsOf(p, C) \intersect Defines(p, o) \subseteq C
NeededOf(p, o, S) ==
    {s \in Defines(p, o) :
        \A C \in SUBSET Defines(p, o) :
            S \intersect Defines(p, o) \subseteq C /\ ClosedIn(p, o, C) => s \in C}

\* One hop from the symbols of S into each object.
Hop(p, S) == S \union UNION {NeededOf(p, o, RefsOf(p, S)) : o \in DOMAIN p.objects}

ASSUME LinkAssumption ==
    \A p \in Programs :
        /\ p.main \subseteq Symbols
        /\ p.objects \in [DOMAIN p.objects -> SUBSET Symbols]
        /\ p.refs \in [Symbols -> SUBSET Symbols]
        /\ Multi3Symbol \in Symbols /\ p.refs[Multi3Symbol] = {}
        /\ \A order \in Orders(p) :
              order \in Seq(DOMAIN p.objects) /\ Range(order) = DOMAIN p.objects
        /\ Within(p, 0) = p.main
        /\ \A n \in 0..5 : Within(p, n + 1) = Hop(p, Within(p, n))

VARIABLES
    program,    \* what is linked
    pc,         \* where the recipe is
    round,      \* the round of the loop
    lost,       \* how many rounds have failed
    linked,     \* the symbols the target defines
    loaded,     \* those of the module llvm-link has in memory
    todo        \* the objects it has still to go through

vars == <<program, pc, round, lost, linked, loaded, todo>>

Init ==
    /\ program \in Programs
    /\ pc = "copy" /\ round = 1 /\ lost = 0
    /\ linked = {} /\ loaded = {} /\ todo = <<>>

\* Mutant: one round.
OneRound == 1

Rounds == 5

\* cp of the program's bitcode.
Copy ==
    /\ pc = "copy" /\ pc' = "loop"
    /\ linked' = program.main
    /\ UNCHANGED <<program, round, lost, loaded, todo>>

\* llvm-link loads the target, all of it, and is given the objects.
StartRound ==
    /\ pc = "loop" /\ round <= Rounds /\ pc' = "link"
    /\ loaded' = linked
    /\ todo' \in Orders(program)
    /\ UNCHANGED <<program, round, lost, linked>>

\* Mutants: what is taken brings nothing with it; everything is taken.
DirectlyNeeded(p, m, o) == RefsOf(p, m) \intersect Defines(p, o)
AllOf(p, m, o) == Defines(p, o)

\* --only-needed: what the module refers to and does not define, and what that
\* refers to in the object.
OnlyNeeded(p, m, o) ==
    {s \in Defines(p, o) \ m :
        \A C \in SUBSET (Defines(p, o) \ m) :
            /\ (RefsOf(p, m) \intersect Defines(p, o)) \ m \subseteq C
            /\ (RefsOf(p, C) \intersect Defines(p, o)) \ m \subseteq C
            => s \in C}

LinkObject ==
    /\ pc = "link" /\ todo # <<>>
    /\ loaded' = loaded \union OnlyNeeded(program, loaded, Head(todo))
    /\ todo' = Tail(todo)
    /\ UNCHANGED <<program, pc, round, lost, linked>>

NextRound ==
    /\ round' = round + 1
    /\ pc' = IF round = Rounds THEN "multi3" ELSE "loop"

\* The result is moved over the target.
EndRound ==
    /\ pc = "link" /\ todo = <<>>
    /\ NextRound
    /\ linked' = loaded
    /\ UNCHANGED <<program, lost, loaded, todo>>

\* Mutant: a round that fails is tried again.
TryAgain ==
    /\ pc = "link" /\ pc' = "loop"
    /\ lost' = lost + 1
    /\ todo' = <<>>
    /\ UNCHANGED <<program, round, linked, loaded>>

\* llvm-link fails; the loop goes on, and only its last round counts.
RoundFails ==
    /\ pc = "link"
    /\ IF round = Rounds THEN pc' = "failed" /\ UNCHANGED round ELSE NextRound
    /\ lost' = lost + 1
    /\ todo' = <<>>
    /\ UNCHANGED <<program, linked, loaded>>

\* multi3.bc is linked as a whole; a second definition is an error.
LinkMulti3 ==
    /\ pc = "multi3"
    /\ IF Multi3Symbol \in linked
       THEN pc' = "failed" /\ UNCHANGED linked
       ELSE pc' = "done" /\ linked' = linked \union {Multi3Symbol}
    /\ UNCHANGED <<program, round, lost, loaded, todo>>

Next ==
    \/ Copy \/ StartRound \/ LinkObject \/ EndRound \/ RoundFails \/ LinkMulti3

Spec == Init /\ [][Next]_vars

------------------------------------------------------------------------------
(* Properties. *)

TypeOK ==
    /\ program \in Programs
    /\ pc \in {"copy", "loop", "link", "multi3", "done", "failed"}
    /\ round \in 1..(Rounds + 1) /\ lost \in 0..round
    /\ linked \subseteq Symbols /\ loaded \subseteq Symbols
    /\ todo \in Seq(DOMAIN program.objects)

\* Each round that succeeds links what is one hop further away, in whatever order
\* the objects are listed, and one that fails loses nothing (rules.mk 437-442).
EachRoundReaches ==
    pc \in {"loop", "multi3"} => Within(program, round - 1 - lost) \subseteq linked

\* A link that succeeds leaves nothing undefined that an object defines, if no
\* symbol is more hops away than rounds have succeeded, five when none has failed:
\* what is left for add_ksyms.py to declare is no function of a crate
\* (rules.mk 20 and 436-443).
NothingLeftBehind ==
    pc = "done" /\ Within(program, 5 - lost) = Within(program, 6 - lost) =>
        \A o \in DOMAIN program.objects :
            RefsOf(program, linked) \intersect Defines(program, o) \subseteq linked

\* Nothing is linked that the program does not need, directly or not (rules.mk 439).
NothingUnneeded ==
    \A C \in SUBSET Symbols :
        /\ program.main \subseteq C
        /\ RefsOf(program, C) \intersect UNION Range(program.objects) \subseteq C
        => linked \subseteq C \union {Multi3Symbol}
==============================================================================
