--------------------------- MODULE LinkRoundsProofs ---------------------------
(***************************************************************************)
(* What the rounds of the link reach and leave, for any program, any number*)
(* of objects and symbols, and any order in which find lists the objects.  *)
(***************************************************************************)
EXTENDS LinkRounds, TLAPS

------------------------------------------------------------------------------
(* What one object adds. *)

\* A symbol an object defines that some loaded symbols need is loaded after the
\* object, however many others are.
LEMMA ObjectReaches ==
    ASSUME NEW p, NEW o, NEW linkedSyms, NEW m, linkedSyms \subseteq m
    PROVE  NeededOf(p, o, RefsOf(p, linkedSyms)) \subseteq m \union OnlyNeeded(p, m, o)
<1> SUFFICES ASSUME NEW s \in NeededOf(p, o, RefsOf(p, linkedSyms)), s \notin m
             PROVE  s \in OnlyNeeded(p, m, o)
  OBVIOUS
<1> DEFINE D == Defines(p, o)
           S == RefsOf(p, linkedSyms)
<1>1. /\ s \in D
      /\ \A C \in SUBSET D : S \intersect D \subseteq C /\ ClosedIn(p, o, C) => s \in C
  BY DEF NeededOf
<1>2. ASSUME NEW C \in SUBSET (D \ m),
             (RefsOf(p, m) \intersect D) \ m \subseteq C,
             (RefsOf(p, C) \intersect D) \ m \subseteq C
      PROVE  s \in C
  <2> DEFINE E == C \union (m \intersect D)
  <2>1. E \in SUBSET D
    OBVIOUS
  <2>2. S \subseteq RefsOf(p, m)
    BY DEF RefsOf
  <2>3. S \intersect D \subseteq E
    BY <1>2, <2>2
  <2>4. RefsOf(p, E) \subseteq RefsOf(p, C) \union RefsOf(p, m)
    BY DEF RefsOf
  <2>5. RefsOf(p, E) \intersect D \subseteq E
    BY <1>2, <2>4
  <2>6. ClosedIn(p, o, E)
    BY <2>5 DEF ClosedIn
  <2>7. s \in E
    BY <1>1, <2>1, <2>3, <2>6
  <2> QED  BY <2>7
<1> QED  BY <1>1, <1>2 DEF OnlyNeeded

\* More is needed by more.
LEMMA NeededGrows ==
    ASSUME NEW p, NEW o, NEW S, NEW T, S \subseteq T
    PROVE  NeededOf(p, o, RefsOf(p, S)) \subseteq NeededOf(p, o, RefsOf(p, T))
<1>1. RefsOf(p, S) \subseteq RefsOf(p, T)
  BY DEF RefsOf
<1> QED  BY <1>1 DEF NeededOf

\* What an object adds is in every set that has what is loaded and is closed.
LEMMA ObjectStaysInside ==
    ASSUME NEW p, NEW o \in DOMAIN p.objects, NEW m, NEW C, m \subseteq C,
           RefsOf(p, C) \intersect Defines(p, o) \subseteq C
    PROVE  OnlyNeeded(p, m, o) \subseteq C
<1> DEFINE D == Defines(p, o)
           E == (C \intersect D) \ m
<1>1. E \in SUBSET (D \ m)
  OBVIOUS
<1>2. RefsOf(p, m) \subseteq RefsOf(p, C) /\ RefsOf(p, E) \subseteq RefsOf(p, C)
  BY DEF RefsOf
<1>3. (RefsOf(p, m) \intersect D) \ m \subseteq E /\ (RefsOf(p, E) \intersect D) \ m \subseteq E
  BY <1>2
<1>4. OnlyNeeded(p, m, o) \subseteq E
  BY <1>1, <1>3 DEF OnlyNeeded
<1> QED  BY <1>4

------------------------------------------------------------------------------
(* Types. *)

\* The loop is left after the last round, and fewer rounds have failed than begun.
RoundInv ==
    /\ pc \in {"copy", "loop", "link"} => round <= Rounds
    /\ pc \in {"multi3", "done"} => round = Rounds + 1
    /\ pc # "failed" => lost < round

TypeInv == TypeOK /\ RoundInv

LEMMA TypeInit == Init => TypeInv
BY LinkAssumption DEF Init, TypeInv, TypeOK, RoundInv, Rounds

LEMMA TypeStep == TypeInv /\ [Next]_vars => TypeInv'
<1> SUFFICES ASSUME TypeInv, [Next]_vars PROVE TypeInv'
  OBVIOUS
<1> USE DEF TypeInv, TypeOK, RoundInv, Rounds
<1>p. /\ program \in Programs /\ program.main \subseteq Symbols
      /\ program.objects \in [DOMAIN program.objects -> SUBSET Symbols]
      /\ \A order \in Orders(program) : order \in Seq(DOMAIN program.objects)
      /\ Multi3Symbol \in Symbols
  BY LinkAssumption
<1>1. CASE Copy
  BY <1>p, <1>1 DEF Copy
<1>2. CASE StartRound
  BY <1>p, <1>2 DEF StartRound
<1>3. CASE LinkObject
  <2>1. Head(todo) \in DOMAIN program.objects /\ Tail(todo) \in Seq(DOMAIN program.objects)
    BY <1>3 DEF LinkObject
  <2>2. Defines(program, Head(todo)) \subseteq Symbols
    BY <1>p, <2>1 DEF Defines
  <2> QED  BY <1>3, <2>1, <2>2 DEF LinkObject, OnlyNeeded
<1>4. CASE EndRound
  BY <1>4 DEF EndRound, NextRound
<1>5. CASE RoundFails
  BY <1>5 DEF RoundFails, NextRound
<1>6. CASE LinkMulti3
  <2>1. linked' \subseteq Symbols /\ pc' \in {"done", "failed"}
    BY <1>p, <1>6 DEF LinkMulti3
  <2> QED  BY <1>6, <2>1 DEF LinkMulti3
<1>7. CASE UNCHANGED vars
  BY <1>7 DEF vars
<1> QED  BY <1>1, <1>2, <1>3, <1>4, <1>5, <1>6, <1>7 DEF Next

\* The link keeps its types, for any program.
THEOREM TypeCorrect == Spec => []TypeOK
<1>1. TypeInv => TypeOK
  BY DEF TypeInv
<1> QED  BY TypeInit, TypeStep, <1>1, PTL DEF Spec

------------------------------------------------------------------------------
(* What the rounds reach. *)

Hops == round - 1 - lost

\* Between rounds what is so many hops away is in the target; within one, it and
\* what the objects gone through have of the next hop is in memory.
ReachInv ==
    /\ pc = "copy" => round = 1 /\ lost = 0
    /\ pc \notin {"copy", "failed"} => Within(program, Hops) \subseteq linked
    /\ pc = "link" =>
          /\ linked \subseteq loaded
          /\ \A o \in DOMAIN program.objects :
                o \in Range(todo) \/ NeededOf(program, o, RefsOf(program, linked)) \subseteq loaded

LEMMA ReachInit == Init => ReachInv
BY DEF Init, ReachInv, Rounds

LEMMA ReachStep == TypeInv /\ ReachInv /\ [Next]_vars => ReachInv'
<1> SUFFICES ASSUME TypeInv, ReachInv, [Next]_vars PROVE ReachInv'
  OBVIOUS
<1> USE DEF ReachInv, Rounds, Hops
<1>t. /\ program \in Programs /\ round \in Nat /\ lost \in Nat
      /\ todo \in Seq(DOMAIN program.objects)
      /\ pc \in {"copy", "loop", "link"} => round <= Rounds
      /\ pc # "failed" => lost < round
  BY DEF TypeInv, TypeOK, RoundInv
<1>1. CASE Copy
  <2>1. round' = 1 /\ lost' = 0 /\ program' = program /\ pc' = "loop"
    BY <1>1 DEF Copy
  <2>2. Within(program, 0) = program.main
    BY <1>t, LinkAssumption
  <2> QED  BY <1>1, <1>t, <2>1, <2>2 DEF Copy
<1>2. CASE StartRound
  <2>1. Range(todo') = DOMAIN program.objects
    BY <1>2, <1>t, LinkAssumption DEF StartRound
  <2> QED  BY <1>2, <1>t, <2>1 DEF StartRound
<1>3. CASE LinkObject
  <2>1. todo # <<>> /\ \A o \in Range(todo) : o = Head(todo) \/ o \in Range(Tail(todo))
    <3>1. Len(todo) > 0 /\ Len(Tail(todo)) = Len(todo) - 1
      BY <1>3, <1>t DEF LinkObject
    <3>2. ASSUME NEW i \in 1..Len(todo) PROVE todo[i] = Head(todo) \/ todo[i] \in Range(Tail(todo))
      <4>1. CASE i = 1
        BY <1>3, <1>t, <4>1 DEF LinkObject
      <4>2. CASE i # 1
        <5>1. i - 1 \in 1..Len(Tail(todo)) /\ Tail(todo)[i - 1] = todo[i]
          BY <1>t, <3>1, <4>2
        <5>2. DOMAIN Tail(todo) = 1..Len(Tail(todo))
          BY <1>t, <3>1
        <5> QED  BY <5>1, <5>2 DEF Range
      <4> QED  BY <4>1, <4>2
    <3> QED  BY <1>3, <1>t, <3>2 DEF LinkObject, Range
  <2>2. NeededOf(program, Head(todo), RefsOf(program, linked))
          \subseteq loaded \union OnlyNeeded(program, loaded, Head(todo))
    BY <1>3, ObjectReaches DEF LinkObject
  <2> QED  BY <1>3, <1>t, <2>1, <2>2 DEF LinkObject
<1>4. CASE EndRound
  <2>1. \A o \in DOMAIN program.objects :
            NeededOf(program, o, RefsOf(program, linked)) \subseteq loaded
    <3>1. Range(todo) = {}
      BY <1>4 DEF EndRound, Range
    <3> QED  BY <1>4, <3>1 DEF EndRound
  <2>2. \A o \in DOMAIN program.objects :
            NeededOf(program, o, RefsOf(program, Within(program, Hops))) \subseteq loaded
    BY <1>4, <2>1, NeededGrows DEF EndRound
  <2>3. Hop(program, Within(program, Hops)) \subseteq loaded
    BY <1>4, <2>2 DEF EndRound, Hop
  <2>4. Hops \in 0..5 /\ Hops' = Hops + 1
    BY <1>4, <1>t DEF EndRound, NextRound
  <2>5. Within(program, Hops') \subseteq loaded
    BY <1>t, <2>3, <2>4, LinkAssumption
  <2> QED  BY <1>4, <1>t, <2>5 DEF EndRound, NextRound
<1>5. CASE RoundFails
  <2>1. CASE round = Rounds
    BY <1>5, <1>t, <2>1 DEF RoundFails
  <2>2. CASE round # Rounds
    <3>1. Hops' = Hops
      BY <1>5, <1>t, <2>2 DEF RoundFails, NextRound
    <3> QED  BY <1>5, <1>t, <2>2, <3>1 DEF RoundFails, NextRound
  <2> QED  BY <2>1, <2>2
<1>6. CASE LinkMulti3
  BY <1>6, <1>t DEF LinkMulti3
<1>7. CASE UNCHANGED vars
  BY <1>7 DEF vars
<1> QED  BY <1>1, <1>2, <1>3, <1>4, <1>5, <1>6, <1>7 DEF Next

\* Each round that succeeds links what is one hop further away, for any program and
\* order of its objects (rules.mk 437-442).
THEOREM RoundsReach == Spec => []EachRoundReaches
<1>1. TypeInv /\ ReachInv => EachRoundReaches
  BY DEF ReachInv, EachRoundReaches, Hops
<1> QED  BY TypeInit, TypeStep, ReachInit, ReachStep, <1>1, PTL DEF Spec

------------------------------------------------------------------------------
(* What they leave alone, and what they leave behind. *)

\* A set of symbols that has the program's and what they refer to in the objects.
Closes(C) ==
    program.main \subseteq C /\ RefsOf(program, C) \intersect UNION Range(program.objects) \subseteq C

InsideInv ==
    \A C \in SUBSET Symbols :
        Closes(C) =>
            /\ loaded \subseteq C
            /\ linked \subseteq C \union {Multi3Symbol}
            /\ pc # "done" => linked \subseteq C

LEMMA InsideInit == Init => InsideInv
BY DEF Init, InsideInv

LEMMA InsideStep == TypeInv /\ InsideInv /\ [Next]_vars => InsideInv'
<1> SUFFICES ASSUME TypeInv, InsideInv, [Next]_vars,
                    NEW C \in SUBSET Symbols, Closes(C)'
             PROVE  /\ loaded' \subseteq C
                    /\ linked' \subseteq C \union {Multi3Symbol}
                    /\ pc' # "done" => linked' \subseteq C
  BY DEF InsideInv
<1>0. program' = program
  BY DEF Next, Copy, StartRound, LinkObject, EndRound, RoundFails, LinkMulti3, vars
<1>c. Closes(C)
  BY <1>0 DEF Closes
<1>i. /\ loaded \subseteq C
      /\ linked \subseteq C \union {Multi3Symbol}
      /\ pc # "done" => linked \subseteq C
  BY <1>c DEF InsideInv
<1>1. CASE Copy
  BY <1>1, <1>i, <1>c DEF Copy, Closes
<1>2. CASE StartRound
  BY <1>2, <1>i DEF StartRound
<1>3. CASE LinkObject
  <2>1. Head(todo) \in DOMAIN program.objects
    BY <1>3 DEF LinkObject, TypeInv, TypeOK
  <2>2. Defines(program, Head(todo)) \in Range(program.objects)
    BY <2>1 DEF Defines, Range
  <2>3. RefsOf(program, C) \intersect Defines(program, Head(todo)) \subseteq C
    BY <1>c, <2>2 DEF Closes
  <2>4. OnlyNeeded(program, loaded, Head(todo)) \subseteq C
    BY <1>i, <2>1, <2>3, ObjectStaysInside
  <2> QED  BY <1>3, <1>i, <2>4 DEF LinkObject
<1>4. CASE EndRound
  BY <1>4, <1>i DEF EndRound
<1>5. CASE RoundFails
  BY <1>5, <1>i DEF RoundFails
<1>6. CASE LinkMulti3
  BY <1>6, <1>i DEF LinkMulti3
<1>7. CASE UNCHANGED vars
  BY <1>7, <1>i DEF vars
<1> QED  BY <1>1, <1>2, <1>3, <1>4, <1>5, <1>6, <1>7 DEF Next

\* Nothing comes in that the program does not need, for any program (rules.mk 439).
THEOREM OnlyWhatIsNeeded == Spec => []NothingUnneeded
<1>1. InsideInv => NothingUnneeded
  BY DEF InsideInv, NothingUnneeded, Closes
<1>2. TypeInv /\ InsideInv /\ [Next]_vars => InsideInv'
  BY InsideStep
<1> QED  BY TypeInit, TypeStep, InsideInit, <1>1, <1>2, PTL DEF Spec

\* The hops stay among the symbols, and the program's own are in all of them.
LEMMA WithinBounds ==
    ASSUME NEW p \in Programs
    PROVE  \A n \in 0..6 : p.main \subseteq Within(p, n) /\ Within(p, n) \subseteq Symbols
<1> DEFINE Bounds(n) == p.main \subseteq Within(p, n) /\ Within(p, n) \subseteq Symbols
<1>1. Bounds(0)
  BY LinkAssumption
<1>2. ASSUME NEW n \in 0..5, Bounds(n) PROVE Bounds(n + 1)
  <2>1. \A o \in DOMAIN p.objects : NeededOf(p, o, RefsOf(p, Within(p, n))) \subseteq Symbols
    BY LinkAssumption DEF NeededOf, Defines
  <2>2. Within(p, n + 1) = Hop(p, Within(p, n))
    BY LinkAssumption
  <2> QED  BY <1>2, <2>1, <2>2 DEF Hop
<1> HIDE DEF Bounds
<1>3. Bounds(1) /\ Bounds(2) /\ Bounds(3)
  <2>1. Bounds(0 + 1)
    BY <1>1, <1>2
  <2>2. Bounds(1 + 1)
    BY <1>2, <2>1
  <2>3. Bounds(2 + 1)
    BY <1>2, <2>2
  <2> QED  BY <2>1, <2>2, <2>3
<1>4. Bounds(4) /\ Bounds(5) /\ Bounds(6)
  <2>1. Bounds(3 + 1)
    BY <1>2, <1>3
  <2>2. Bounds(4 + 1)
    BY <1>2, <2>1
  <2>3. Bounds(5 + 1)
    BY <1>2, <2>2
  <2> QED  BY <2>1, <2>2, <2>3
<1>5. \A n \in 0..6 : n \in {0, 1, 2, 3, 4, 5, 6}
  OBVIOUS
<1>6. \A n \in 0..6 : Bounds(n)
  BY <1>1, <1>3, <1>4, <1>5
<1> QED  BY <1>6 DEF Bounds

\* What an object defines of what is referred to is needed of it.
LEMMA DirectlyReferred ==
    ASSUME NEW p, NEW o, NEW S
    PROVE  S \intersect Defines(p, o) \subseteq NeededOf(p, o, S)
BY DEF NeededOf

LEMMA NothingBehind == TypeInv /\ ReachInv /\ InsideInv => NothingLeftBehind
<1> SUFFICES ASSUME TypeInv, ReachInv, InsideInv, pc = "done",
                    Within(program, 5 - lost) = Within(program, 6 - lost),
                    NEW o \in DOMAIN program.objects
             PROVE  RefsOf(program, linked) \intersect Defines(program, o) \subseteq linked
  BY DEF NothingLeftBehind
<1> DEFINE C == Within(program, 5 - lost)
<1>1. program \in Programs /\ lost \in 0..5 /\ Hops = 5 - lost
  BY DEF TypeInv, TypeOK, RoundInv, Rounds, Hops
<1>2. C \subseteq linked
  BY <1>1 DEF ReachInv
<1>3. program.main \subseteq C /\ C \subseteq Symbols
  BY <1>1, WithinBounds
<1>4. C = Hop(program, C)
  <2>1. 5 - lost \in 0..5 /\ 6 - lost = (5 - lost) + 1
    BY <1>1
  <2> QED  BY <1>1, <2>1, LinkAssumption
<1> HIDE DEF C
<1>5. \A q \in DOMAIN program.objects : RefsOf(program, C) \intersect Defines(program, q) \subseteq C
  BY <1>4, DirectlyReferred DEF Hop
<1>6. Closes(C)
  <2>1. \A D \in Range(program.objects) : RefsOf(program, C) \intersect D \subseteq C
    BY <1>5 DEF Range, Defines
  <2> QED  BY <1>3, <2>1 DEF Closes
<1>7. linked \subseteq C \union {Multi3Symbol}
  BY <1>3, <1>6 DEF InsideInv
<1>8. program.refs[Multi3Symbol] = {}
  BY <1>1, LinkAssumption
<1>9. RefsOf(program, linked) \subseteq RefsOf(program, C)
  BY <1>7, <1>8 DEF RefsOf
<1> QED  BY <1>2, <1>5, <1>9

\* If nothing is more hops away than rounds have succeeded, what an object could
\* define is defined: what add_ksyms.py then declares is no function of a crate
\* (rules.mk 436-443).
THEOREM NoneLeftBehind == Spec => []NothingLeftBehind
BY TypeInit, TypeStep, ReachInit, ReachStep, InsideInit, InsideStep, NothingBehind, PTL DEF Spec
==============================================================================
