----------------------------- MODULE KsymsProofs -----------------------------
(***************************************************************************)
(* What the two runs of add_ksyms.py do to a module in which the names     *)
(* they introduce are not in use already, for any names, any number of     *)
(* functions and any combination of what is to be lowered; and that libbpf *)
(* takes the prototypes, for any kernels.                                  *)
(***************************************************************************)
EXTENDS KernelProto, WellFoundedInduction, TLAPS

\* All modules that are given to the script are plain.
PlainOnly == \A m \in Modules : Plain(m)

(* How far the two runs have come. *)
Past(steps) == run = 2 \/ pc \notin steps

Copied == Past({"tag", "mem"})
LibcallsGone == Past({"tag", "mem", "rename"})
Trapped == Past({"tag", "mem", "rename", "trap"})
Dropped == Past({"tag", "mem", "rename", "trap", "drop"})
Resumed == Past({"tag", "mem", "rename", "trap", "drop", "resume"})

\* What the script declares besides the arena helpers.
Thrown == {"bpf_throw", "_Unwind_Resume"}

\* Each name is defined once, and none is one the script treats in a way of its own.
DefsInv ==
    /\ \A f, g \in defs : f.sym = g.sym => f = g
    /\ \A f \in defs : f.sym \notin Libcalls \union Thrown
    /\ pc # "tag" => defined = {f.sym : f \in defs}

\* What is gone after each substitution stays gone in the second run.
GoneInv ==
    /\ Copied => calls \intersect Mem = {}
    /\ LibcallsGone => calls \intersect Libcalls = {}
    /\ Trapped /\ TrapToThrow => Trap \notin calls
    /\ Resumed => "resume" \notin terms
    /\ pc \in {"write", "assemble", "done"} => terms = {}
    /\ pc = "done" => run = 2

\* Each name is declared once, and once the clashes are dropped, not defined.
DeclsInv ==
    /\ \A d, e \in decls : d.sym = e.sym => d = e
    /\ \A d \in decls :
          /\ d.id[1] < 2
          /\ LibcallsGone => d.sym \notin Libcalls
          /\ ~LibcallsGone => d.sym \notin Introduced
          /\ run = 1 /\ pc # "assemble" => d.sym \notin Thrown
          /\ Dropped => \A f \in defs : d.sym # f.sym

\* What is about to be declared, in the first run only, is neither defined nor
\* declared, nor renamed from what is declared.
ExtraInv ==
    /\ extra # {} => run = 1 /\ pc \notin {"tag", "mem", "assemble"}
    /\ \A d \in extra :
          /\ d = [sym |-> d.sym, id |-> <<1, d.sym>>, ksym |-> TRUE, sp |-> d.sym, spNew |-> TRUE]
          /\ \/ d.sym = "bpf_arena_memcpy"
             \/ Trapped /\ d.sym = "bpf_throw"
             \/ Resumed /\ d.sym = "_Unwind_Resume"
          /\ \A f \in defs : d.sym # f.sym
          /\ \A e \in decls : d.sym # e.sym
          /\ pc = "rename" => \A e \in decls : e.sym # "memcpy"
    /\ ~Copied /\ calls \intersect Mem # {} => \A e \in decls : e.sym # "memcpy"

\* Each call has a definition or a declaration; the declarations have their
\* section, and the name in their debug info follows the one they have.
BoundInv ==
    /\ \A n \in calls \ Intrinsics :
          /\ n # Personality
          /\ \/ \E f \in defs : f.sym = n
             \/ \E d \in decls \union extra : d.sym = n
    /\ \A d \in decls :
          /\ run = 2 \/ pc = "assemble" => ~d.spNew
          /\ d.sym # Personality =>
                /\ d.ksym <=> run = 2 \/ pc # "tag"
                /\ run = 1 /\ pc \notin {"tag", "assemble"} =>
                      d.spNew /\ NewName(d.sp) = NewName(d.sym)
                /\ run = 2 \/ pc = "assemble" => NewName(d.sp) = d.sym
                /\ run = 2 /\ pc \notin {"tag", "mem", "rename"} => d.sp = d.sym

Safe == DefsInv /\ GoneInv /\ DeclsInv /\ ExtraInv /\ BoundInv

------------------------------------------------------------------------------
(* Types. *)

LEMMA Renaming ==
    /\ Libcalls = {"memcmp", "memcpy"}
    /\ Introduced = {"bpf_arena_memcmp", "bpf_arena_memcpy"} \union Thrown
    /\ NewName("memcmp") = "bpf_arena_memcmp"
    /\ NewName("memcpy") = "bpf_arena_memcpy"
    /\ \A n : n \notin Libcalls => NewName(n) = n
BY DEF Libcalls, libcall_renames, Introduced, Thrown, NewName

LEMMA NamesRenamed ==
    /\ Libcalls \subseteq Names /\ Introduced \subseteq Names /\ Personality \in Names
    /\ \A n \in Names : NewName(n) \in Names
    /\ NewName(None) = None
BY Renaming, KsymsAssumption DEF Names, Introduced, Libcalls, libcall_renames, NewName

LEMMA TypeInit == Init => TypeOK
<1> SUFFICES ASSUME NEW m \in Modules,
                    run = 1, pc = "tag",
                    defs = {Definition(m, n) : n \in m.defines},
                    decls = {Declaration(n) : n \in Declared(m)},
                    calls = m.calls, terms = m.terms,
                    defined = {}, extra = {}
             PROVE  TypeOK
  BY DEF Init
<1>1. m.defines \subseteq Names /\ m.calls \subseteq Names \union Intrinsics /\ m.terms \subseteq Terminators
  BY KsymsAssumption
<1>2. Declared(m) \subseteq Names
  BY <1>1, NamesRenamed DEF Declared
<1>3. defs \subseteq Functions
  <2>1. ASSUME NEW n \in Names PROVE Definition(m, n) \in Functions
    BY DEF Definition, Functions
  <2> QED  BY <1>1, <2>1
<1>4. decls \subseteq Declarations
  <2>1. ASSUME NEW n \in Names PROVE Declaration(n) \in Declarations
    <3>1. <<0, n>> \in {0, 1, 2} \X Names
      OBVIOUS
    <3> QED  BY <3>1, Zenon DEF Declaration, Declarations
  <2> QED  BY <1>2, <2>1
<1> QED  BY <1>1, <1>3, <1>4 DEF TypeOK

LEMMA TypeStep == TypeOK /\ [Next]_vars => TypeOK'
<1> SUFFICES ASSUME TypeOK, [Next]_vars PROVE TypeOK'
  OBVIOUS
<1> USE DEF TypeOK, Step
<1>0. ASSUME NEW n \in Names PROVE Made(n) \in Declarations
  BY <1>0 DEF Made, Declarations
<1>1. CASE Tag
  <2>1. decls' \subseteq Declarations
    <3>1. ASSUME NEW d \in Declarations
          PROVE  [d EXCEPT !.ksym = TRUE, !.sp = d.sym, !.spNew = TRUE] \in Declarations
      BY DEF Declarations
    <3> QED  BY <1>1, <3>1 DEF Tag
  <2>2. defined' \subseteq Names
    BY <1>1 DEF Tag, Functions
  <2> QED  BY <1>1, <2>1, <2>2 DEF Tag
<1>2. CASE LowerMem
  BY <1>0, <1>2, NamesRenamed, Renaming DEF LowerMem, DeclareHelper
<1>3. CASE RenameLibcalls
  <2>1. defs' \subseteq Functions
    <3>1. ASSUME NEW f \in Functions PROVE Renamed(f) \in Functions
      BY NamesRenamed DEF Renamed, Functions
    <3> QED  BY <1>3, <3>1 DEF RenameLibcalls
  <2>2. decls' \subseteq Declarations
    <3>1. ASSUME NEW d \in Declarations PROVE Renamed(d) \in Declarations
      BY NamesRenamed DEF Renamed, Declarations
    <3>2. ASSUME NEW d \in Declarations
          PROVE  [d EXCEPT !.sym = NewName(@)] \in Declarations
      BY NamesRenamed DEF Declarations
    <3> QED  BY <1>3, <3>1, <3>2 DEF RenameLibcalls
  <2>3. calls' \subseteq Names \union Intrinsics
    BY <1>3, NamesRenamed, Renaming DEF RenameLibcalls
  <2> QED  BY <1>3, <2>1, <2>2, <2>3 DEF RenameLibcalls
<1>4. CASE LowerTrap
  BY <1>0, <1>4, NamesRenamed, Renaming DEF LowerTrap, Thrown
<1>5. CASE DropDefinedDeclares
  BY <1>5 DEF DropDefinedDeclares
<1>6. CASE LowerResume
  <2>1. CASE "resume" \in terms
    <3>1. "_Unwind_Resume" \in Names
      BY NamesRenamed, Renaming DEF Thrown
    <3>2. Made("_Unwind_Resume") \in Declarations
      BY <1>0, <3>1
    <3> QED  BY <1>6, <2>1, <3>1, <3>2 DEF LowerResume, Terminators
  <2>2. CASE "resume" \notin terms
    BY <1>6, <2>2 DEF LowerResume
  <2> QED  BY <2>1, <2>2
<1>7. CASE MarkStatic
  <2>1. defs' \subseteq Functions
    <3>1. ASSUME NEW f \in Functions
          PROVE  [f EXCEPT !.static = @ \/ Marked(f)] \in Functions
      BY DEF Functions, Marked
    <3> QED  BY <1>7, <3>1 DEF MarkStatic
  <2> QED  BY <1>7, <2>1 DEF MarkStatic
<1>8. CASE LowerTerminators
  BY <1>8 DEF LowerTerminators
<1>9. CASE WriteOut
  <2>1. decls' \subseteq Declarations
    <3>1. ASSUME NEW d \in Declarations PROVE [d EXCEPT !.spNew = FALSE] \in Declarations
      BY DEF Declarations
    <3> QED  BY <1>9, <3>1 DEF WriteOut
  <2> QED  BY <1>9, <2>1 DEF WriteOut
<1>10. CASE SimplifyCfg
  BY <1>10 DEF SimplifyCfg, Terminators
<1>11. CASE Assemble
  BY <1>11 DEF Assemble
<1>12. CASE UNCHANGED vars
  BY <1>12 DEF vars
<1> QED
  BY <1>1, <1>2, <1>3, <1>4, <1>5, <1>6, <1>7, <1>8, <1>9, <1>10, <1>11, <1>12 DEF Next, add_ksyms

\* The names stay those the script can meet (add_ksyms.py, all substitutions).
THEOREM TypeCorrect == Spec => []TypeOK
BY TypeInit, TypeStep, PTL DEF Spec

------------------------------------------------------------------------------
(* The invariant: one lemma for each substitution. *)

LEMMA SafeInit == ASSUME PlainOnly PROVE Init => Safe
<1> SUFFICES ASSUME NEW m \in Modules,
                    run = 1, pc = "tag",
                    defs = {Definition(m, n) : n \in m.defines},
                    decls = {Declaration(n) : n \in Declared(m)},
                    calls = m.calls, terms = m.terms,
                    defined = {}, extra = {}
             PROVE  Safe
  BY DEF Init
<1>1. Plain(m)
  BY DEF PlainOnly
<1> USE DEF Past, Copied, LibcallsGone, Trapped, Dropped, Resumed
<1>2. \A n : Definition(m, n).sym = n
  BY DEF Definition
<1>3. DefsInv
  BY <1>1, <1>2 DEF DefsInv, Plain, Thrown
<1>4. GoneInv
  BY DEF GoneInv
<1>5. \A n : /\ Declaration(n).sym = n /\ Declaration(n).id[1] = 0
             /\ ~Declaration(n).spNew /\ ~Declaration(n).ksym
  BY DEF Declaration
<1>6. /\ Declared(m) \intersect Introduced = {}
      /\ m.calls \intersect Mem # {} => "memcpy" \notin Declared(m)
  BY <1>1, Renaming DEF Plain, Declared, Personality, Libcalls, libcall_renames, Thrown
<1>7. DeclsInv
  BY <1>5, <1>6, Renaming DEF DeclsInv
<1>8. ExtraInv
  BY <1>5, <1>6 DEF ExtraInv
<1>9. BoundInv
  <2>1. ASSUME NEW n \in calls \ Intrinsics
        PROVE  n # Personality /\ (n \in m.defines \/ n \in Declared(m))
    BY <1>1 DEF Plain, Declared
  <2> QED  BY <1>2, <1>5, <2>1 DEF BoundInv
<1> QED  BY <1>3, <1>4, <1>7, <1>8, <1>9 DEF Safe

LEMMA TagStep == TypeOK /\ Safe /\ Tag => Safe'
<1> SUFFICES ASSUME TypeOK, Safe, Tag PROVE Safe'
  OBVIOUS
<1> USE DEF Step, Safe, Past, Copied, LibcallsGone, Trapped, Dropped, Resumed
<1> DEFINE tagged(d) == IF d.ksym \/ d.sym = Personality THEN d
                        ELSE [d EXCEPT !.ksym = TRUE, !.sp = d.sym, !.spNew = TRUE]
<1>1. \A d \in decls :
         /\ tagged(d).sym = d.sym /\ tagged(d).id = d.id
         /\ d.sym # Personality => tagged(d).ksym
         /\ d.ksym \/ d.sym = Personality => tagged(d) = d
         /\ ~d.ksym /\ d.sym # Personality => tagged(d).sp = d.sym /\ tagged(d).spNew
  BY DEF TypeOK, Declarations
<1>2. \A e \in decls' : \E d \in decls : e = tagged(d)
  BY DEF Tag
<1>0. \A d \in decls : tagged(d) \in decls'
  BY DEF Tag
<1>s. /\ pc = "tag" /\ pc' = "mem" /\ UNCHANGED <<run, defs, calls, terms, extra>>
      /\ defined' = {f.sym : f \in defs}
  BY DEF Tag
<1> HIDE DEF tagged
<1>3. DefsInv'
  BY DEF Tag, DefsInv
<1>4. GoneInv'
  BY DEF Tag, GoneInv
<1>5. DeclsInv'
  <2>1. ASSUME NEW x \in decls', NEW y \in decls', x.sym = y.sym PROVE x = y
    BY <1>1, <1>2, <2>1 DEF DeclsInv
  <2>2. ASSUME NEW x \in decls'
        PROVE  /\ x.id[1] < 2
               /\ LibcallsGone' => x.sym \notin Libcalls
               /\ ~LibcallsGone' => x.sym \notin Introduced
               /\ run' = 1 /\ pc' # "assemble" => x.sym \notin Thrown
               /\ Dropped' => \A f \in defs' : x.sym # f.sym
    BY <1>1, <1>2, <1>s DEF DeclsInv
  <2> QED  BY <2>1, <2>2, Zenon DEF DeclsInv
<1>6. ExtraInv'
  BY <1>1, <1>2, <1>s DEF ExtraInv
<1>7. BoundInv'
  <2>1. ASSUME NEW n \in calls \ Intrinsics
        PROVE  /\ n # Personality
               /\ (\E f \in defs : f.sym = n) \/ (\E d \in decls' \union extra : d.sym = n)
    BY <1>0, <1>1 DEF BoundInv
  <2>2. ASSUME NEW x \in decls'
        PROVE  /\ run = 2 => ~x.spNew
               /\ x.sym # Personality =>
                     /\ x.ksym
                     /\ run = 1 => x.spNew /\ NewName(x.sp) = NewName(x.sym)
                     /\ run = 2 => NewName(x.sp) = x.sym
    BY <1>1, <1>2, <1>s DEF BoundInv, TypeOK
  <2> QED  BY <1>s, <2>1, <2>2 DEF BoundInv
<1> QED  BY <1>3, <1>4, <1>5, <1>6, <1>7

LEMMA LowerMemStep == TypeOK /\ Safe /\ LowerMem => Safe'
<1> SUFFICES ASSUME TypeOK, Safe, LowerMem PROVE Safe'
  OBVIOUS
<1> USE DEF Step, Safe, Past, Copied, LibcallsGone, Trapped, Dropped, Resumed
<1>1. CASE calls \intersect Mem = {}
  <2>1. UNCHANGED <<run, defs, decls, calls, terms, defined, extra>> /\ pc = "mem" /\ pc' = "rename"
    BY <1>1 DEF LowerMem
  <2> QED  BY <1>1, <2>1 DEF DefsInv, GoneInv, DeclsInv, ExtraInv, BoundInv
<1>2. CASE calls \intersect Mem # {}
  <2>1. /\ UNCHANGED <<run, defs, decls, terms, defined>> /\ pc = "mem" /\ pc' = "rename" /\ run = 1
        /\ calls' = (calls \ Mem) \union {"bpf_arena_memcpy"}
        /\ extra = {} /\ extra' = DeclareHelper("bpf_arena_memcpy")
    BY <1>2 DEF LowerMem, GoneInv, TypeOK, ExtraInv
  <2>2. Made("bpf_arena_memcpy") =
            [sym |-> "bpf_arena_memcpy", id |-> <<1, "bpf_arena_memcpy">>, ksym |-> TRUE,
             sp |-> "bpf_arena_memcpy", spNew |-> TRUE]
    BY <2>1 DEF Made
  <2>3. \A d \in extra' : d = Made("bpf_arena_memcpy") /\ "bpf_arena_memcpy" \notin defined
    BY <2>1 DEF DeclareHelper
  <2>4. "bpf_arena_memcpy" \in defined \/ Made("bpf_arena_memcpy") \in extra'
    BY <2>1 DEF DeclareHelper
  <2>5. DefsInv' /\ GoneInv' /\ DeclsInv'
    BY <2>1 DEF DefsInv, GoneInv, DeclsInv, Mem
  <2>6. ExtraInv'
    <3>1. \A d \in decls : d.sym # "bpf_arena_memcpy" /\ d.sym # "memcpy"
      BY <1>2, <2>1, Renaming DEF DeclsInv, ExtraInv
    <3>2. ASSUME NEW d \in extra'
          PROVE  /\ d.sym = "bpf_arena_memcpy"
                 /\ d = [sym |-> d.sym, id |-> <<1, d.sym>>, ksym |-> TRUE, sp |-> d.sym, spNew |-> TRUE]
                 /\ \A f \in defs : d.sym # f.sym
      BY <2>1, <2>2, <2>3 DEF DefsInv
    <3> QED  BY <2>1, <3>1, <3>2 DEF ExtraInv
  <2>7. BoundInv'
    <3>1. \/ \E f \in defs : f.sym = "bpf_arena_memcpy"
          \/ \E d \in extra' : d.sym = "bpf_arena_memcpy"
      BY <2>1, <2>2, <2>4 DEF DefsInv
    <3> QED  BY <2>1, <3>1 DEF BoundInv, Personality
  <2> QED  BY <2>5, <2>6, <2>7
<1> QED  BY <1>1, <1>2

LEMMA RenameStep == TypeOK /\ Safe /\ RenameLibcalls => Safe'
<1> SUFFICES ASSUME TypeOK, Safe, RenameLibcalls PROVE Safe'
  OBVIOUS
<1> USE DEF Step, Safe, Past, Copied, LibcallsGone, Trapped, Dropped, Resumed
<1> DEFINE renamed(d) == IF d.spNew THEN [d EXCEPT !.sym = NewName(@)] ELSE Renamed(d)
<1>1. \A d \in decls :
         /\ renamed(d).sym = NewName(d.sym) /\ renamed(d).id = d.id
         /\ renamed(d).ksym = d.ksym /\ renamed(d).spNew = d.spNew
         /\ renamed(d).sp = IF d.spNew THEN d.sp ELSE NewName(d.sp)
  BY DEF TypeOK, Declarations, Renamed
<1>2. \A e \in decls' : \E d \in decls : e = renamed(d)
  BY DEF RenameLibcalls
<1>3. \A d \in decls : renamed(d) \in decls'
  BY DEF RenameLibcalls
<1> HIDE DEF renamed
<1>4. /\ pc = "rename" /\ pc' = "trap" /\ UNCHANGED <<run, terms, defined, extra>>
      /\ calls' = {NewName(n) : n \in calls}
  BY DEF RenameLibcalls
<1>5. \A f \in defs : Renamed(f).sym = f.sym
  BY Renaming DEF TypeOK, Functions, Renamed, DefsInv
<1>6. /\ \A g \in defs' : \E f \in defs : g = Renamed(f)
      /\ \A f \in defs : Renamed(f) \in defs'
  BY DEF RenameLibcalls
<1>7. {f.sym : f \in defs'} = {f.sym : f \in defs}
  BY <1>5, <1>6
<1>8. \A n : NewName(n) \notin Libcalls /\ NewName(NewName(n)) = NewName(n)
  BY Renaming
<1>9. \A d, e \in decls : NewName(d.sym) = NewName(e.sym) => d = e
  <2>1. CASE run = 1
    BY <1>4, <2>1, Renaming DEF DeclsInv
  <2>2. CASE run = 2
    BY <2>2, Renaming DEF DeclsInv
  <2> QED  BY <2>1, <2>2 DEF TypeOK
<1>10. DefsInv'
  <2>1. ASSUME NEW x \in defs', NEW y \in defs', x.sym = y.sym PROVE x = y
    BY <1>5, <1>6, <2>1 DEF DefsInv
  <2>2. ASSUME NEW x \in defs' PROVE x.sym \notin Libcalls \union Thrown
    BY <1>5, <1>6 DEF DefsInv
  <2> QED  BY <1>4, <1>7, <2>1, <2>2 DEF DefsInv
<1>11. GoneInv'
  <2>1. \A n \in calls' : n \notin Mem /\ n \notin Libcalls /\ (n = Trap => n \in calls)
    <3>1. ASSUME NEW n \in calls
          PROVE  NewName(n) \notin Mem /\ (NewName(n) = Trap => n = Trap)
      BY <1>4, Renaming DEF GoneInv, Mem, Trap
    <3> QED  BY <1>4, <1>8, <3>1
  <2> QED  BY <1>4, <2>1 DEF GoneInv
<1>12. DeclsInv'
  <2>1. ASSUME NEW x \in decls', NEW y \in decls', x.sym = y.sym PROVE x = y
    BY <1>1, <1>2, <1>9, <2>1
  <2>2. ASSUME NEW x \in decls'
        PROVE  /\ x.id[1] < 2
               /\ x.sym \notin Libcalls
               /\ run = 1 => x.sym \notin Thrown
               /\ run = 2 => \A f \in defs' : x.sym # f.sym
    <3>1. PICK d \in decls : x = renamed(d)
      BY <1>2
    <3>2. x.sym = NewName(d.sym) /\ x.id = d.id
      BY <1>1, <3>1
    <3>3. run = 1 => x.sym \notin Thrown
      BY <1>4, <3>2, Renaming DEF DeclsInv, Thrown
    <3>4. ASSUME run = 2 PROVE \A f \in defs' : x.sym # f.sym
      BY <1>5, <1>6, <3>2, <3>4, Renaming DEF DeclsInv
    <3> QED  BY <1>8, <3>2, <3>3, <3>4 DEF DeclsInv
  <2> QED  BY <1>4, <2>1, <2>2 DEF DeclsInv
<1>13. ExtraInv'
  <2>1. ASSUME NEW d \in extra
        PROVE  /\ d.sym = "bpf_arena_memcpy"
               /\ d = [sym |-> d.sym, id |-> <<1, d.sym>>, ksym |-> TRUE, sp |-> d.sym, spNew |-> TRUE]
               /\ \A f \in defs' : d.sym # f.sym
    BY <1>4, <1>5, <1>6 DEF ExtraInv
  <2>2. ASSUME NEW d \in extra, NEW e \in decls' PROVE d.sym # e.sym
    <3>1. PICK c \in decls : e.sym = NewName(c.sym)
      BY <1>1, <1>2
    <3>2. c.sym # "memcpy" /\ c.sym # "bpf_arena_memcpy"
      BY <1>4, <2>1 DEF ExtraInv
    <3> QED  BY <2>1, <3>1, <3>2, Renaming
  <2>3. extra # {} => run = 1
    BY DEF ExtraInv
  <2> QED  BY <1>4, <2>1, <2>2, <2>3 DEF ExtraInv
<1>14. BoundInv'
  <2>1. ASSUME NEW n \in calls, NewName(n) \notin Intrinsics
        PROVE  /\ NewName(n) # Personality
               /\ \/ \E f \in defs' : f.sym = NewName(n)
                  \/ \E d \in decls' \union extra : d.sym = NewName(n)
    <3>1. n \notin Intrinsics
      BY <2>1, Renaming DEF Intrinsics, Mem, Trap
    <3>2. n # Personality
      BY <3>1 DEF BoundInv
    <3>3. NewName(n) # Personality
      BY <3>2, Renaming DEF Personality
    <3>4. CASE \E f \in defs : f.sym = n
      <4>1. PICK f \in defs : f.sym = n
        BY <3>4
      <4>2. Renamed(f) \in defs' /\ Renamed(f).sym = NewName(n)
        BY <1>5, <1>6, <4>1, Renaming DEF DefsInv
      <4> QED  BY <3>3, <4>2
    <3>5. CASE \E d \in decls : d.sym = n
      <4>1. PICK d \in decls : d.sym = n
        BY <3>5
      <4>2. renamed(d) \in decls' /\ renamed(d).sym = NewName(n)
        BY <1>1, <1>3, <4>1
      <4> QED  BY <3>3, <4>2
    <3>6. CASE \E d \in extra : d.sym = n
      <4>1. PICK d \in extra : d.sym = n
        BY <3>6
      <4>2. n = "bpf_arena_memcpy"
        BY <1>4, <4>1 DEF ExtraInv
      <4>3. NewName(n) = n
        BY <4>2, Renaming
      <4> QED  BY <3>3, <4>1, <4>3
    <3> QED  BY <3>1, <3>3, <3>4, <3>5, <3>6 DEF BoundInv
  <2>2. ASSUME NEW x \in decls'
        PROVE  /\ run = 2 => ~x.spNew
               /\ x.sym # Personality =>
                     /\ x.ksym
                     /\ run = 1 => x.spNew /\ NewName(x.sp) = NewName(x.sym)
                     /\ run = 2 => x.sp = x.sym /\ NewName(x.sp) = x.sym
    <3>1. PICK d \in decls : x = renamed(d)
      BY <1>2
    <3>2. x.sym # Personality => d.sym # Personality
      BY <1>1, <3>1, Renaming DEF Personality
    <3>3. CASE run = 1
      BY <1>1, <1>4, <1>8, <3>1, <3>2, <3>3 DEF BoundInv
    <3>4. CASE run = 2
      <4>1. NewName(d.sym) = d.sym
        BY <3>4, Renaming DEF DeclsInv
      <4> QED  BY <1>1, <1>4, <1>8, <3>1, <3>2, <3>4, <4>1 DEF BoundInv
    <3> QED  BY <3>3, <3>4 DEF TypeOK
  <2> QED  BY <1>4, <2>1, <2>2 DEF BoundInv, TypeOK
<1> QED  BY <1>10, <1>11, <1>12, <1>13, <1>14
\* A declaration made in the first run is what ExtraInv says of it.
LEMMA MadeInFirst ==
    ASSUME run = 1, NEW n
    PROVE  /\ Made(n).sym = n
           /\ Made(n) = [sym |-> n, id |-> <<1, n>>, ksym |-> TRUE, sp |-> n, spNew |-> TRUE]
BY DEF Made

LEMMA LowerTrapStep == TypeOK /\ Safe /\ LowerTrap => Safe'
<1> SUFFICES ASSUME TypeOK, Safe, LowerTrap PROVE Safe'
  OBVIOUS
<1> USE DEF Step, Safe, Past, Copied, LibcallsGone, Trapped, Dropped, Resumed
<1>1. CASE ~(TrapToThrow /\ Trap \in calls)
  <2>1. UNCHANGED <<run, defs, decls, calls, terms, defined, extra>> /\ pc = "trap" /\ pc' = "drop"
    BY <1>1 DEF LowerTrap
  <2> QED  BY <1>1, <2>1 DEF DefsInv, GoneInv, DeclsInv, ExtraInv, BoundInv
<1>2. CASE TrapToThrow /\ Trap \in calls
  <2>1. /\ UNCHANGED <<run, defs, decls, terms, defined>> /\ pc = "trap" /\ pc' = "drop" /\ run = 1
        /\ calls' = (calls \ {Trap}) \union {"bpf_throw"}
        /\ extra' = extra \union {Made("bpf_throw")}
    BY <1>2 DEF LowerTrap, GoneInv, TypeOK
  <2>2. DefsInv' /\ DeclsInv'
    BY <2>1 DEF DefsInv, DeclsInv
  <2>3. GoneInv'
    BY <2>1 DEF GoneInv, Mem, Libcalls, libcall_renames, Trap
  <2>4. ExtraInv'
    <3>1. \A d \in extra : d \in extra' /\ d.sym = "bpf_arena_memcpy"
      BY <2>1 DEF ExtraInv
    <3>2. \A f \in defs : f.sym # "bpf_throw"
      BY DEF DefsInv, Thrown
    <3>3. \A e \in decls : e.sym # "bpf_throw"
      BY <2>1 DEF DeclsInv, Thrown
    <3> QED  BY <2>1, <3>1, <3>2, <3>3, MadeInFirst DEF ExtraInv
  <2>5. BoundInv'
    <3>1. \E d \in decls' \union extra' : d.sym = "bpf_throw"
      BY <2>1, MadeInFirst
    <3> QED  BY <2>1, <3>1 DEF BoundInv, Personality
  <2> QED  BY <2>2, <2>3, <2>4, <2>5
<1> QED  BY <1>1, <1>2

LEMMA DropStep == TypeOK /\ Safe /\ DropDefinedDeclares => Safe'
<1> SUFFICES ASSUME TypeOK, Safe, DropDefinedDeclares PROVE Safe'
  OBVIOUS
<1> USE DEF Step, Safe, Past, Copied, LibcallsGone, Trapped, Dropped, Resumed
<1>1. /\ pc = "drop" /\ pc' = "resume" /\ UNCHANGED <<run, defs, calls, terms, defined, extra>>
      /\ decls' = {d \in decls : d.sym \notin defined}
      /\ defined = {f.sym : f \in defs}
  BY DEF DropDefinedDeclares, DefsInv
<1>2. DefsInv' /\ GoneInv'
  BY <1>1 DEF DefsInv, GoneInv
<1>3. DeclsInv'
  BY <1>1 DEF DeclsInv
<1>4. ExtraInv'
  BY <1>1 DEF ExtraInv
<1>5. BoundInv'
  <2>1. ASSUME NEW n \in calls \ Intrinsics
        PROVE  (\E f \in defs : f.sym = n) \/ (\E d \in decls' \union extra : d.sym = n)
    BY <1>1 DEF BoundInv
  <2> QED  BY <1>1, <2>1 DEF BoundInv
<1> QED  BY <1>2, <1>3, <1>4, <1>5

LEMMA LowerResumeStep == TypeOK /\ Safe /\ LowerResume => Safe'
<1> SUFFICES ASSUME TypeOK, Safe, LowerResume PROVE Safe'
  OBVIOUS
<1> USE DEF Step, Safe, Past, Copied, LibcallsGone, Trapped, Dropped, Resumed
<1>1. CASE "resume" \notin terms
  <2>1. UNCHANGED <<run, defs, decls, calls, terms, defined, extra>> /\ pc = "resume" /\ pc' = "static"
    BY <1>1 DEF LowerResume
  <2> QED  BY <1>1, <2>1 DEF DefsInv, GoneInv, DeclsInv, ExtraInv, BoundInv
<1>2. CASE "resume" \in terms
  <2>1. /\ UNCHANGED <<run, defs, decls, defined>> /\ pc = "resume" /\ pc' = "static" /\ run = 1
        /\ terms' = (terms \ {"resume"}) \union {"unreachable"}
        /\ calls' = calls \union {"_Unwind_Resume"}
        /\ extra' = extra \union {Made("_Unwind_Resume")}
    BY <1>2 DEF LowerResume, GoneInv, TypeOK
  <2>2. DefsInv' /\ DeclsInv'
    BY <2>1 DEF DefsInv, DeclsInv
  <2>3. GoneInv'
    BY <2>1 DEF GoneInv, Mem, Libcalls, libcall_renames, Trap
  <2>4. ExtraInv'
    <3>1. \A f \in defs : f.sym # "_Unwind_Resume"
      BY DEF DefsInv, Thrown
    <3>2. \A e \in decls : e.sym # "_Unwind_Resume"
      BY <2>1 DEF DeclsInv, Thrown
    <3> QED  BY <2>1, <3>1, <3>2, MadeInFirst DEF ExtraInv
  <2>5. BoundInv'
    <3>1. \E d \in decls' \union extra' : d.sym = "_Unwind_Resume"
      BY <2>1, MadeInFirst
    <3> QED  BY <2>1, <3>1 DEF BoundInv, Personality
  <2> QED  BY <2>2, <2>3, <2>4, <2>5
<1> QED  BY <1>1, <1>2

LEMMA MarkStaticStep == TypeOK /\ Safe /\ MarkStatic => Safe'
<1> SUFFICES ASSUME TypeOK, Safe, MarkStatic PROVE Safe'
  OBVIOUS
<1> USE DEF Step, Safe, Past, Copied, LibcallsGone, Trapped, Dropped, Resumed
<1> DEFINE marked(f) == [f EXCEPT !.static = @ \/ Marked(f)]
<1>1. \A f \in defs : marked(f).sym = f.sym
  BY DEF TypeOK, Functions
<1>2. /\ \A g \in defs' : \E f \in defs : g = marked(f)
      /\ \A f \in defs : marked(f) \in defs'
      /\ pc = "static" /\ pc' = "terms" /\ UNCHANGED <<run, decls, calls, terms, defined, extra>>
  BY DEF MarkStatic
<1> HIDE DEF marked
<1>3. {f.sym : f \in defs'} = {f.sym : f \in defs}
  BY <1>1, <1>2
<1>4. DefsInv'
  <2>1. ASSUME NEW x \in defs', NEW y \in defs', x.sym = y.sym PROVE x = y
    BY <1>1, <1>2, <2>1 DEF DefsInv
  <2>2. ASSUME NEW x \in defs' PROVE x.sym \notin Libcalls \union Thrown
    BY <1>1, <1>2 DEF DefsInv
  <2> QED  BY <1>2, <1>3, <2>1, <2>2 DEF DefsInv
<1>5. GoneInv'
  BY <1>2 DEF GoneInv
<1>6. DeclsInv'
  <2>1. ASSUME NEW d \in decls, NEW g \in defs' PROVE d.sym # g.sym
    BY <1>1, <1>2 DEF DeclsInv
  <2> QED  BY <1>2, <2>1 DEF DeclsInv
<1>7. ExtraInv'
  <2>1. ASSUME NEW d \in extra, NEW g \in defs' PROVE d.sym # g.sym
    BY <1>1, <1>2 DEF ExtraInv
  <2> QED  BY <1>2, <2>1 DEF ExtraInv
<1>8. BoundInv'
  <2>1. ASSUME NEW n, \E f \in defs : f.sym = n PROVE \E f \in defs' : f.sym = n
    BY <1>1, <1>2, <2>1
  <2> QED  BY <1>2, <2>1 DEF BoundInv
<1> QED  BY <1>4, <1>5, <1>6, <1>7, <1>8

LEMMA LowerTerminatorsStep == TypeOK /\ Safe /\ LowerTerminators => Safe'
<1> SUFFICES ASSUME TypeOK, Safe, LowerTerminators PROVE Safe'
  OBVIOUS
<1> USE DEF Step, Safe, Past, Copied, LibcallsGone, Trapped, Dropped, Resumed
<1>1. /\ pc = "terms" /\ pc' = "write" /\ UNCHANGED <<run, defs, decls, calls, defined, extra>>
      /\ terms' = terms \ {"invoke", "unreachable"}
  BY DEF LowerTerminators
<1>2. terms' = {}
  BY <1>1 DEF GoneInv, TypeOK, Terminators
<1> QED  BY <1>1, <1>2 DEF DefsInv, GoneInv, DeclsInv, ExtraInv, BoundInv

LEMMA WriteOutStep == TypeOK /\ Safe /\ WriteOut => Safe'
<1> SUFFICES ASSUME TypeOK, Safe, WriteOut PROVE Safe'
  OBVIOUS
<1> USE DEF Step, Safe, Past, Copied, LibcallsGone, Trapped, Dropped, Resumed
<1> DEFINE written(d) == [d EXCEPT !.spNew = FALSE]
<1>1. \A d \in decls \union extra :
         /\ written(d).sym = d.sym /\ written(d).id = d.id /\ written(d).ksym = d.ksym
         /\ written(d).sp = d.sp /\ ~written(d).spNew
  BY DEF TypeOK, Declarations
<1>2. /\ \A e \in decls' : \E d \in decls \union extra : e = written(d)
      /\ \A d \in decls \union extra : written(d) \in decls'
      /\ pc = "write" /\ pc' = "assemble" /\ extra' = {}
      /\ UNCHANGED <<run, defs, calls, terms, defined>>
  BY DEF WriteOut
<1> HIDE DEF written
<1>3. \A d, e \in decls \union extra : d.sym = e.sym => d = e
  BY DEF DeclsInv, ExtraInv
<1>4. DefsInv' /\ GoneInv' /\ ExtraInv'
  BY <1>2 DEF DefsInv, GoneInv, ExtraInv
<1>5. DeclsInv'
  <2>1. ASSUME NEW x \in decls', NEW y \in decls', x.sym = y.sym PROVE x = y
    BY <1>1, <1>2, <1>3, <2>1
  <2>2. ASSUME NEW d \in extra
        PROVE  d.id[1] < 2 /\ d.sym \notin Libcalls /\ \A f \in defs : d.sym # f.sym
    <3>1. d.id = <<1, d.sym>>
      BY DEF ExtraInv
    <3>2. d.sym \in {"bpf_arena_memcpy"} \union Thrown
      BY DEF ExtraInv, Thrown
    <3> QED  BY <3>1, <3>2, Renaming DEF ExtraInv, Thrown
  <2>3. ASSUME NEW x \in decls'
        PROVE  x.id[1] < 2 /\ x.sym \notin Libcalls /\ \A f \in defs : x.sym # f.sym
    BY <1>1, <1>2, <2>2 DEF DeclsInv
  <2> QED  BY <1>2, <2>1, <2>3 DEF DeclsInv
<1>6. BoundInv'
  <2>1. ASSUME NEW n, \E d \in decls \union extra : d.sym = n
        PROVE  \E d \in decls' \union extra' : d.sym = n
    BY <1>1, <1>2, <2>1
  <2>2. ASSUME NEW d \in decls \union extra, d.sym # Personality
        PROVE  /\ d.ksym
               /\ NewName(d.sp) = d.sym
               /\ run = 2 => d.sp = d.sym
    <3>1. d.sym \notin Libcalls
      <4>1. CASE d \in decls
        BY <1>2, <4>1 DEF DeclsInv
      <4>2. CASE d \in extra
        BY <4>2, Renaming DEF ExtraInv
      <4> QED  BY <4>1, <4>2
    <3>2. NewName(d.sym) = d.sym
      BY <3>1, Renaming
    <3>3. CASE d \in decls
      BY <1>2, <2>2, <3>2, <3>3 DEF BoundInv, TypeOK
    <3>4. CASE d \in extra
      BY <3>2, <3>4 DEF ExtraInv
    <3> QED  BY <3>3, <3>4
  <2> QED  BY <1>1, <1>2, <2>1, <2>2 DEF BoundInv
<1> QED  BY <1>4, <1>5, <1>6

LEMMA SimplifyCfgStep == TypeOK /\ Safe /\ SimplifyCfg => Safe'
<1> SUFFICES ASSUME TypeOK, Safe, SimplifyCfg PROVE Safe'
  OBVIOUS
<1> USE DEF Step, Safe, Past, Copied, LibcallsGone, Trapped, Dropped, Resumed
<1>1. /\ pc = "assemble" /\ pc' = "tag" /\ run = 1 /\ run' = 2
      /\ calls' \subseteq calls /\ terms' \subseteq terms \union {"unreachable"}
      /\ UNCHANGED <<defs, decls, defined, extra>> /\ extra = {}
  BY DEF SimplifyCfg, ExtraInv
<1>2. DefsInv' /\ DeclsInv' /\ ExtraInv'
  BY <1>1 DEF DefsInv, DeclsInv, ExtraInv, GoneInv
<1>3. GoneInv'
  BY <1>1 DEF GoneInv
<1>4. BoundInv'
  BY <1>1 DEF BoundInv
<1> QED  BY <1>2, <1>3, <1>4

LEMMA SafeStep == TypeOK /\ Safe /\ [Next]_vars => Safe'
<1> SUFFICES ASSUME TypeOK, Safe, [Next]_vars PROVE Safe'
  OBVIOUS
<1>1. CASE add_ksyms
  BY <1>1, TagStep, LowerMemStep, RenameStep, LowerTrapStep, DropStep, LowerResumeStep,
     MarkStaticStep, LowerTerminatorsStep, WriteOutStep DEF add_ksyms
<1>2. CASE SimplifyCfg
  BY <1>2, SimplifyCfgStep
<1>3. CASE Assemble
  BY <1>3 DEF Assemble, Step, Safe, DefsInv, GoneInv, DeclsInv, ExtraInv, BoundInv,
     Past, Copied, LibcallsGone, Trapped, Dropped, Resumed
<1>4. CASE UNCHANGED vars
  BY <1>4 DEF vars, Safe, DefsInv, GoneInv, DeclsInv, ExtraInv, BoundInv,
     Past, Copied, LibcallsGone, Trapped, Dropped, Resumed
<1> QED  BY <1>1, <1>2, <1>3, <1>4 DEF Next

------------------------------------------------------------------------------
(* What a plain module comes out as. *)

LEMMA PlainSafe == ASSUME PlainOnly PROVE Spec => [](TypeOK /\ Safe)
BY SafeInit, TypeInit, TypeStep, SafeStep, PTL DEF Spec

\* Each run writes a module in which every name is introduced once (add_ksyms.py
\* 373-376).
THEOREM NamesIntroducedOnce == ASSUME PlainOnly PROVE Spec => []NoClash
<1>1. TypeOK /\ Safe => NoClash
  BY DEF Safe, NoClash, WellFormed, DefsInv, DeclsInv, Dropped, Past
<1> QED  BY <1>1, PlainSafe, PTL

\* Every call in what llc is given is bound, under the name BTF has for it
\* (add_ksyms.py 406-412).
THEOREM EveryCallResolves == ASSUME PlainOnly PROVE Spec => []CallsResolve
<1>1. ASSUME TypeOK, Safe, pc = "done", NEW n \in calls \ Intrinsics
      PROVE  \/ \E f \in defs : f.sym = n
             \/ \E d \in decls : d.sym = n /\ d.ksym /\ d.sp = n
  <2>1. run = 2 /\ extra = {}
    BY <1>1 DEF Safe, GoneInv, ExtraInv
  <2> QED  BY <1>1, <2>1 DEF Safe, BoundInv
<1>2. TypeOK /\ Safe => CallsResolve
  BY <1>1 DEF CallsResolve
<1> QED  BY <1>2, PlainSafe, PTL

\* The second run over the output of the first declares nothing (rules.mk 459, 463).
THEOREM SecondRunIsIdle == ASSUME PlainOnly PROVE Spec => []SecondRunAddsNothing
<1>1. ASSUME TypeOK, Safe, NEW d \in decls \union extra
      PROVE  d.id[1] < 2
  <2>1. CASE d \in decls
    BY <1>1, <2>1 DEF Safe, DeclsInv
  <2>2. CASE d \in extra
    <3>1. d.id = <<1, d.sym>>
      BY <1>1, <2>2 DEF Safe, ExtraInv
    <3> QED  BY <3>1
  <2> QED  BY <2>1, <2>2
<1>2. TypeOK /\ Safe => SecondRunAddsNothing
  BY <1>1 DEF SecondRunAddsNothing
<1> QED  BY <1>2, PlainSafe, PTL

\* Nothing BPF does not have is left, also of what simplifycfg brought in
\* (add_ksyms.py 414-577).
THEOREM AllIsLowered == ASSUME PlainOnly PROVE Spec => []NothingLeft
<1>1. TypeOK /\ Safe => NothingLeft
  BY DEF Safe, NothingLeft, GoneInv, Past, Copied, LibcallsGone, Trapped
<1> QED  BY <1>1, PlainSafe, PTL

------------------------------------------------------------------------------
(* Numbers, and steps that are repeated. *)

\* What holds of zero and of the successor of each number it holds of holds of all.
LEMMA Counting ==
    ASSUME NEW T, 0 \in T, \A n \in Nat : n \in T => n + 1 \in T
    PROVE  \A n \in Nat : n \in T
<1> SUFFICES ASSUME Nat \ T # {} PROVE FALSE
  OBVIOUS
<1>1. PICK x \in Nat \ T : \A y \in Nat \ T : ~(<<y, x>> \in OpToRel(<, Nat))
  BY WFMin, NatLessThanWellFounded, Zenon
<1>2. x \in Nat \ {0} /\ x - 1 \in Nat /\ x - 1 < x
  OBVIOUS
<1>3. x - 1 \in T
  BY <1>1, <1>2 DEF OpToRel
<1> QED  BY <1>2, <1>3

\* A set of numbers has a least.
LEMMA Least ==
    ASSUME NEW S, S \subseteq Nat, S # {}
    PROVE  \E x \in S : \A y \in S : x <= y
<1>1. PICK x \in S : \A y \in S : ~(<<y, x>> \in OpToRel(<, Nat))
  BY WFMin, NatLessThanWellFounded, Zenon
<1>2. ASSUME NEW y \in S PROVE x <= y
  <2>1. ~(y < x)
    BY <1>1 DEF OpToRel
  <2> QED  BY <2>1
<1> QED  BY <1>2

\* A step is repeated N times.
Iterates(g, S, init, step, N) ==
    g \in [0..N -> S] /\ g[0] = init /\ \A k \in 1..N : g[k] = step[g[k - 1]]

LEMMA IterationExists ==
    ASSUME NEW S, NEW init \in S, NEW step \in [S -> S], NEW N \in Nat
    PROVE  \E g : Iterates(g, S, init, step, N)
<1> DEFINE Upto(m, g) == g \in [0..m -> S] /\ g[0] = init /\ \A k \in 1..m : g[k] = step[g[k - 1]]
           T == {m \in Nat : \E g : Upto(m, g)}
<1>1. 0 \in T
  <2>1. Upto(0, [k \in 0..0 |-> init])
    OBVIOUS
  <2> HIDE DEF Upto
  <2> QED  BY <2>1
<1>2. \A m \in Nat : m \in T => m + 1 \in T
  <2> HIDE DEF Upto
  <2> SUFFICES ASSUME NEW m \in Nat, NEW g, Upto(m, g) PROVE \E h : Upto(m + 1, h)
    OBVIOUS
  <2> USE DEF Upto
  <2> DEFINE h == [k \in 0..(m + 1) |-> IF k = m + 1 THEN step[g[m]] ELSE g[k]]
  <2>1. g[m] \in S /\ step[g[m]] \in S
    OBVIOUS
  <2>2. h \in [0..(m + 1) -> S]
    BY <2>1
  <2>3. h[m + 1] = step[g[m]] /\ \A k \in 0..m : h[k] = g[k]
    OBVIOUS
  <2> HIDE DEF h
  <2>4. h[0] = init
    BY <2>3
  <2>5. ASSUME NEW k \in 1..(m + 1) PROVE h[k] = step[h[k - 1]]
    <3>1. CASE k = m + 1
      BY <2>3, <3>1
    <3>2. CASE k \in 1..m
      BY <2>3, <3>2
    <3> QED  BY <3>1, <3>2
  <2>6. Upto(m + 1, h)
    BY <2>2, <2>4, <2>5
  <2> QED  BY <2>6
<1>3. N \in T
  <2> HIDE DEF T
  <2> QED  BY <1>1, <1>2, Counting
<1> QED  BY <1>3 DEF Iterates

------------------------------------------------------------------------------
(* The types of the kernel. *)

\* What is not a modifier is what it resolves to.
LEMMA SkipSelf ==
    ASSUME NEW f, NEW base, NEW tid, NodeIn(f, base, tid).kind \notin MODS
    PROVE  Skip(f, base, tid) = tid
<1> DEFINE Rhs(g, k) == IF k = 0 THEN tid
                        ELSE LET t == g[k - 1]
                                 n == NodeIn(f, base, t) IN
                             IF n.kind \in MODS THEN n.type ELSE t
           Is(g) == g = [k \in 0..MaxMods |-> Rhs(g, k)]
           behind == CHOOSE g : Is(g)
           all == [k \in 0..MaxMods |-> tid]
           T == {k \in Nat : k <= MaxMods => behind[k] = tid}
<1>1. Is(all)
  <2>1. \A k \in 0..MaxMods : Rhs(all, k) = tid
    <3>1. \A k \in 0..MaxMods : k # 0 => all[k - 1] = tid
      BY DEF MaxMods
    <3> HIDE DEF all
    <3> QED  BY <3>1
  <2> QED  BY <2>1
<1>2. Is(behind)
  <2> HIDE DEF Is
  <2> QED  BY <1>1
<1>3. Skip(f, base, tid) = behind[MaxMods]
  BY DEF Skip
<1> HIDE DEF behind
<1>4. \A k \in 0..MaxMods : behind[k] = Rhs(behind, k)
  <2> HIDE DEF Rhs
  <2> QED  BY <1>2
<1>5. 0 \in T
  BY <1>4 DEF MaxMods
<1>6. \A k \in Nat : k \in T => k + 1 \in T
  <2> SUFFICES ASSUME NEW k \in Nat, k + 1 <= MaxMods, behind[k] = tid PROVE behind[k + 1] = tid
    BY DEF MaxMods
  <2>1. behind[k + 1] = Rhs(behind, k + 1) /\ k + 1 # 0 /\ (k + 1) - 1 = k
    BY <1>4 DEF MaxMods
  <2> QED  BY <2>1
<1>7. MaxMods \in T
  <2> HIDE DEF T
  <2> QED  BY <1>5, <1>6, Counting DEF MaxMods
<1> QED  BY <1>3, <1>7 DEF MaxMods

\* The types of a kernel, and what they are made of.
LEMMA NodesTyped ==
    ASSUME build \in Builds, NEW f \in DOMAIN files, NEW tid
    PROVE  LET n == KernelType(f, tid) IN
           /\ n.type \in Nat /\ n.params \in Seq(Nat)
           /\ Parts(n) \in Seq(Nat)
           /\ n.kind \notin {"PTR", "ARRAY", "FUNC_PROTO"} => Parts(n) = <<>>
<1> DEFINE n == KernelType(f, tid)
<1>1. 1 \in DOMAIN files
  BY BuildsAssumption DEF files
<1>2. ASSUME NEW g \in DOMAIN files, NEW t \in DOMAIN files[g].types
      PROVE  files[g].types[t].type \in Nat /\ files[g].types[t].params \in Seq(Nat)
  BY BuildsAssumption DEF files
<1>3. NoNode.type \in Nat /\ NoNode.params \in Seq(Nat)
  BY DEF NoNode
<1>4. n.type \in Nat /\ n.params \in Seq(Nat)
  BY <1>1, <1>2, <1>3 DEF KernelType, NodeIn
<1> HIDE DEF n
<1>5. Parts(n) \in Seq(Nat)
  BY <1>4 DEF Parts
<1>6. n.kind \notin {"PTR", "ARRAY", "FUNC_PROTO"} => Parts(n) = <<>>
  BY DEF Parts
<1> QED  BY <1>4, <1>5, <1>6 DEF n

\* Zero is void in every file.
LEMMA ZeroIsVoid ==
    ASSUME build \in Builds, NEW f \in DOMAIN files
    PROVE  KernelType(f, 0).kind = "VOID"
<1>1. 1 \in DOMAIN files
  BY BuildsAssumption DEF files
<1>2. 0 \notin DOMAIN files[f].types /\ 0 \notin DOMAIN files[1].types
  <2>1. \A g \in DOMAIN files : DOMAIN files[g].types \subseteq Nat \ {0}
    BY BuildsAssumption DEF files
  <2> QED  BY <1>1, <2>1
<1>3. NodeIn(f, 1, 0) = NoNode
  BY <1>2 DEF NodeIn
<1>4. Skip(f, 1, 0) = 0
  BY <1>3, SkipSelf DEF NoNode, MODS
<1> QED  BY <1>3, <1>4 DEF KernelType, NoNode

\* The types within a type, level by level.
LEMMA TypesUnfold ==
    ASSUME build \in Builds, NEW f \in DOMAIN files, NEW tid \in Nat
    PROVE  LET types == TypesIn(f, tid) IN
           /\ types \in [0..(MaxDepth + 1) -> SUBSET Nat]
           /\ types[0] = {tid}
           /\ \A depth \in 1..(MaxDepth + 1) :
                 types[depth] = UNION {Range(Parts(KernelType(f, t))) : t \in types[depth - 1]}
<1> DEFINE S == SUBSET Nat
           below(T) == UNION {Range(Parts(KernelType(f, t))) : t \in T}
           step == [T \in S |-> below(T)]
           Rhs(g, depth) == IF depth = 0 THEN {tid}
                            ELSE UNION {Range(Parts(KernelType(f, t))) : t \in g[depth - 1]}
           Is(g) == g = [depth \in 0..(MaxDepth + 1) |-> Rhs(g, depth)]
           types == CHOOSE g : Is(g)
<1>0. MaxDepth + 1 \in Nat
  BY DEF MaxDepth
<1>1. step \in [S -> S]
  <2>1. ASSUME NEW t PROVE Range(Parts(KernelType(f, t))) \subseteq Nat
    BY NodesTyped DEF Range
  <2> QED  BY <2>1
<1>2. PICK g : Iterates(g, S, {tid}, step, MaxDepth + 1)
  <2> DEFINE init == {tid}
             N == MaxDepth + 1
  <2>1. init \in S /\ N \in Nat
    BY <1>0
  <2> HIDE DEF S, step, init, N
  <2>2. \E g : Iterates(g, S, init, step, N)
    BY <1>1, <2>1, IterationExists
  <2> QED  BY <2>2 DEF init, N
<1>2a. g \in [0..(MaxDepth + 1) -> S] /\ g[0] = {tid}
      /\ \A k \in 1..(MaxDepth + 1) : g[k] = step[g[k - 1]]
  BY <1>2 DEF Iterates
<1>3. \A k \in 0..(MaxDepth + 1) : g[k] = Rhs(g, k)
  <2>1. ASSUME NEW k \in 1..(MaxDepth + 1) PROVE g[k] = below(g[k - 1])
    <3>1. k - 1 \in 0..(MaxDepth + 1)
      BY <1>0
    <3>2. g[k - 1] \in S
      BY <1>2a, <3>1
    <3> HIDE DEF below
    <3> QED  BY <1>2a, <3>2
  <2>2. \A k \in 0..(MaxDepth + 1) : k = 0 \/ k \in 1..(MaxDepth + 1)
    BY <1>0
  <2> QED  BY <1>2a, <2>1, <2>2
<1>4. Is(g)
  <2> HIDE DEF Rhs
  <2> QED  BY <1>2a, <1>3
<1>5. Is(types)
  <2> HIDE DEF Is
  <2> QED  BY <1>4
<1>6. TypesIn(f, tid) = types
  BY DEF TypesIn
<1> HIDE DEF types
<1>7. types = [depth \in 0..(MaxDepth + 1) |-> types[depth]]
  <2> HIDE DEF Rhs
  <2> QED  BY <1>5
<1>8. types[0] = {tid} /\ \A k \in 1..(MaxDepth + 1) : types[k] = below(types[k - 1])
  <2>1. \A k \in 0..(MaxDepth + 1) : types[k] = Rhs(types, k)
    <3> HIDE DEF Rhs
    <3> QED  BY <1>5
  <2>2. 0 \in 0..(MaxDepth + 1) /\ \A k \in 1..(MaxDepth + 1) : k \in 0..(MaxDepth + 1) /\ k # 0
    BY <1>0
  <2> QED  BY <2>1, <2>2
<1>9. \A k \in 0..(MaxDepth + 1) : types[k] = g[k]
  <2> DEFINE T == {k \in Nat : k <= MaxDepth + 1 => types[k] = g[k]}
  <2>1. 0 \in T
    BY <1>2a, <1>8
  <2>2. \A k \in Nat : k \in T => k + 1 \in T
    <3> SUFFICES ASSUME NEW k \in Nat, k + 1 <= MaxDepth + 1, types[k] = g[k]
                 PROVE  types[k + 1] = g[k + 1]
      BY <1>0
    <3>1. k + 1 \in 1..(MaxDepth + 1) /\ (k + 1) - 1 = k /\ k \in 0..(MaxDepth + 1)
      BY <1>0
    <3>2. types[k + 1] = below(g[k])
      BY <1>8, <3>1
    <3>3. g[k + 1] = step[g[k]] /\ g[k] \in S
      BY <1>2a, <3>1
    <3> HIDE DEF below
    <3> QED  BY <3>2, <3>3
  <2> HIDE DEF T
  <2>3. \A k \in Nat : k \in T
    BY <2>1, <2>2, Counting
  <2> QED  BY <1>0, <2>3 DEF T
<1>10. types \in [0..(MaxDepth + 1) -> S]
  BY <1>2a, <1>7, <1>9
<1> QED  BY <1>6, <1>8, <1>10

------------------------------------------------------------------------------
(* The mirror, and what libbpf compares. *)

\* The definition of the mirror, unfolded.
LEMMA MirrorUnfold ==
    ASSUME NEW f
    PROVE  \A left \in 0..(MaxDepth + 1) : \A tid \in Nat :
              LET n == node(f, resolve(f, tid)) IN
              MirrorOf(f)[left][tid] =
                  IF left = 0 \/ tid = 0 \/ n.kind \notin Mirrored THEN Void
                  ELSE Di(n.kind, [i \in DOMAIN Parts(n) |-> MirrorOf(f)[left - 1][Parts(n)[i]]])
<1> DEFINE Kind(tid) == node(f, resolve(f, tid)).kind
           P(tid) == Parts(node(f, resolve(f, tid)))
           Rhs(g, left) ==
               [tid \in Nat |->
                   LET n == node(f, resolve(f, tid)) IN
                   IF left = 0 \/ tid = 0 \/ n.kind \notin Mirrored THEN Void
                   ELSE Di(n.kind, [i \in DOMAIN Parts(n) |-> g[left - 1][Parts(n)[i]]])]
           Upto(m, g) == g = [left \in 0..m |-> Rhs(g, left)]
           T == {m \in Nat : \E g : Upto(m, g)}
           mirror == CHOOSE g : Upto(MaxDepth + 1, g)
<1>0. MaxDepth + 1 \in Nat
  BY DEF MaxDepth
<1>1. 0 \in T
  <2> DEFINE h == [left \in 0..0 |-> [tid \in Nat |-> Void]]
  <2>1. \A left \in 0..0 : h[left] = Rhs(h, left)
    OBVIOUS
  <2> HIDE DEF Rhs
  <2>2. Upto(0, h)
    BY <2>1
  <2> HIDE DEF Upto
  <2> QED  BY <2>2
<1>2. \A m \in Nat : m \in T => m + 1 \in T
  <2> HIDE DEF Upto
  <2> SUFFICES ASSUME NEW m \in Nat, NEW g, Upto(m, g) PROVE \E h : Upto(m + 1, h)
    OBVIOUS
  <2> HIDE DEF Rhs
  <2> DEFINE h == [left \in 0..(m + 1) |-> IF left = m + 1 THEN Rhs(g, m + 1) ELSE g[left]]
  <2>1. h[m + 1] = Rhs(g, m + 1) /\ \A left \in 0..m : h[left] = g[left]
    OBVIOUS
  <2>2. \A left \in 0..m : g[left] = Rhs(g, left)
    BY DEF Upto
  <2>3. ASSUME NEW left \in 0..(m + 1) PROVE Rhs(h, left) = Rhs(g, left)
    <3>1. CASE left = 0
      BY <3>1 DEF Rhs
    <3>2. CASE left \in 1..(m + 1)
      <4>1. left # 0 /\ left - 1 \in 0..m
        BY <3>2
      <4>2. h[left - 1] = g[left - 1]
        BY <2>1, <4>1
      <4> HIDE DEF h
      <4> QED  BY <4>1, <4>2 DEF Rhs
    <3> QED  BY <3>1, <3>2
  <2>4. \A left \in 0..(m + 1) : h[left] = Rhs(h, left)
    <3> HIDE DEF h
    <3>1. \A left \in 0..(m + 1) : left = m + 1 \/ left \in 0..m
      OBVIOUS
    <3> QED  BY <2>1, <2>2, <2>3, <3>1
  <2>5. Upto(m + 1, h)
    BY <2>4 DEF Upto
  <2> QED  BY <2>5
<1>3. \E g : Upto(MaxDepth + 1, g)
  <2> HIDE DEF T
  <2>1. MaxDepth + 1 \in T
    BY <1>0, <1>1, <1>2, Counting
  <2> HIDE DEF Upto
  <2> QED  BY <2>1 DEF T
<1>4. Upto(MaxDepth + 1, mirror)
  <2> HIDE DEF Upto
  <2> QED  BY <1>3
<1>5. MirrorOf(f) = mirror
  BY DEF MirrorOf
<1> HIDE DEF mirror
<1>6. ASSUME NEW left \in 0..(MaxDepth + 1) PROVE mirror[left] = Rhs(mirror, left)
  <2> HIDE DEF Rhs
  <2> QED  BY <1>4
<1>7. ASSUME NEW left \in 0..(MaxDepth + 1), NEW tid \in Nat
      PROVE  LET n == node(f, resolve(f, tid)) IN
             mirror[left][tid] =
                 IF left = 0 \/ tid = 0 \/ n.kind \notin Mirrored THEN Void
                 ELSE Di(n.kind, [i \in DOMAIN Parts(n) |-> mirror[left - 1][Parts(n)[i]]])
  BY <1>6
<1> QED  BY <1>5, <1>7

\* What libbpf compares is what simulates it.
LEMMA Simulation ==
    ASSUME NEW f, NEW local, NEW tid, NEW Good,
           <<local, tid>> \in Good,
           \A p \in Good : Matches(p[1], KernelType(f, p[2])) /\ PairsIn(f, p) \subseteq Good
    PROVE  Compatible(local, f, tid)
<1> DEFINE first == {<<local, tid>>}
           S == SUBSET Good
           more(before) == before \union UNION {PairsIn(f, p) : p \in before}
           step == [T \in S |-> more(T)]
           Rhs(g, level) == IF level = 0 THEN first
                            ELSE LET before == g[level - 1] IN
                                 before \union UNION {PairsIn(f, p) : p \in before}
           Is(g) == g = [level \in 0..Levels |-> Rhs(g, level)]
           pairs == CHOOSE g : Is(g)
<1>0. Levels \in Nat /\ first \in S
  BY DEF Levels, MaxDepth
<1>1. \A T \in S : more(T) \in S
  OBVIOUS
<1>2. PICK g : Iterates(g, S, first, step, Levels)
  <2>1. step \in [S -> S]
    <3> HIDE DEF more, S
    <3> QED  BY <1>1
  <2> HIDE DEF S, step, first
  <2> QED  BY <1>0, <2>1, IterationExists
<1>3. /\ g \in [0..Levels -> S] /\ g[0] = first
      /\ \A k \in 1..Levels : g[k] = step[g[k - 1]]
  BY <1>2 DEF Iterates
<1>4. \A k \in 0..Levels : g[k] = Rhs(g, k)
  <2>1. ASSUME NEW k \in 1..Levels PROVE g[k] = more(g[k - 1])
    <3>1. k - 1 \in 0..Levels
      BY <1>0
    <3>2. g[k - 1] \in S
      BY <1>3, <3>1
    <3> HIDE DEF more
    <3> QED  BY <1>3, <3>2
  <2>2. \A k \in 0..Levels : k = 0 \/ k \in 1..Levels
    BY <1>0
  <2> QED  BY <1>3, <2>1, <2>2
<1>5. Is(pairs)
  <2>1. Is(g)
    <3> HIDE DEF Rhs
    <3> QED  BY <1>3, <1>4
  <2> HIDE DEF Is
  <2> QED  BY <2>1
<1>6. Compared(local, f, tid) = pairs
  BY DEF Compared
<1> HIDE DEF pairs
<1>7. \A k \in 0..Levels : pairs[k] = Rhs(pairs, k)
  <2> HIDE DEF Rhs
  <2> QED  BY <1>5
<1> DEFINE T == {k \in Nat : k <= Levels => pairs[k] \subseteq Good}
<1>8. 0 \in T
  <2>1. 0 \in 0..Levels
    BY <1>0
  <2>2. pairs[0] = Rhs(pairs, 0)
    <3> HIDE DEF Rhs
    <3> QED  BY <1>7, <2>1
  <2>3. pairs[0] = first
    BY <2>2
  <2> QED  BY <1>0, <2>3
<1>9. \A k \in Nat : k \in T => k + 1 \in T
  <2> SUFFICES ASSUME NEW k \in Nat, k + 1 <= Levels, pairs[k] \subseteq Good
               PROVE  pairs[k + 1] \subseteq Good
    BY <1>0
  <2>1. k + 1 \in 0..Levels /\ k + 1 # 0 /\ (k + 1) - 1 = k
    BY <1>0
  <2>2. pairs[k + 1] = more(pairs[k])
    BY <1>7, <2>1
  <2> QED  BY <1>1, <2>2
<1>10. pairs[Levels] \subseteq Good
  <2> HIDE DEF T
  <2>1. Levels \in T
    BY <1>0, <1>8, <1>9, Counting
  <2> QED  BY <1>0, <2>1 DEF T
<1> QED  BY <1>6, <1>10 DEF Compatible

------------------------------------------------------------------------------
(* Where a name is found. *)

\* The file a name is found in.
LEMMA FileFound ==
    ASSUME build \in Builds, NEW name, NEW among, among \subseteq DOMAIN files,
           FileOf(name, among) # 0
    PROVE  LET f == FileOf(name, among) IN
           f \in among /\ Has(f, name) /\ \A g \in among : Has(g, name) => f <= g
<1> DEFINE having == {f \in among : Has(f, name)}
<1>1. having \subseteq Nat /\ having # {}
  BY BuildsAssumption DEF files, FileOf
<1>2. \E f \in having : \A g \in having : f <= g
  <2> HIDE DEF having
  <2> QED  BY <1>1, Least
<1>3. FileOf(name, among) = CHOOSE f \in having : \A g \in having : f <= g
  BY <1>1 DEF FileOf
<1> HIDE DEF having
<1>4. FileOf(name, among) \in having /\ \A g \in having : FileOf(name, among) <= g
  BY <1>2, <1>3
<1> QED  BY <1>4 DEF having

\* The script finds a name where libbpf does, when it has the file; vmlinux, when it
\* has that, is the first it has.
LEMMA SameFile ==
    ASSUME build \in Builds, dumped \subseteq DOMAIN files, NEW name,
           FileOf(name, DOMAIN files) # 0,
           {1, FileOf(name, DOMAIN files)} \subseteq dumped
    PROVE  FileOf(name, dumped) = FileOf(name, DOMAIN files) /\ First = 1
<1> DEFINE f == FileOf(name, DOMAIN files)
           h == FileOf(name, dumped)
<1>1. DOMAIN files \subseteq Nat \ {0}
  BY BuildsAssumption DEF files
<1>2. f \in DOMAIN files /\ Has(f, name) /\ \A g \in DOMAIN files : Has(g, name) => f <= g
  BY FileFound
<1>3. h # 0
  <2> DEFINE having == {g \in dumped : Has(g, name)}
  <2>1. f \in having /\ having \subseteq Nat \ {0}
    BY <1>1, <1>2
  <2>2. \E g \in having : \A x \in having : g <= x
    <3> HIDE DEF having
    <3> QED  BY <2>1, Least
  <2>3. h = CHOOSE g \in having : \A x \in having : g <= x
    BY <2>1 DEF FileOf
  <2> HIDE DEF having, h
  <2>4. h \in having
    BY <2>2, <2>3
  <2> QED  BY <2>1, <2>4
<1>4. h \in dumped /\ Has(h, name) /\ \A g \in dumped : Has(g, name) => h <= g
  BY <1>3, FileFound
<1> HIDE DEF f, h
<1>5. h <= f /\ f <= h /\ h \in Nat /\ f \in Nat
  BY <1>1, <1>2, <1>4 DEF f
<1>6. h = f
  BY <1>5
<1>7. First = 1
  <2>1. \A g \in dumped : g \in Nat /\ 1 <= g
    BY <1>1
  <2>2. First \in dumped /\ \A g \in dumped : First <= g
    BY <2>1 DEF First
  <2>3. First <= 1 /\ 1 <= First /\ First \in Nat
    BY <2>1, <2>2
  <2> QED  BY <2>3
<1> QED  BY <1>6, <1>7 DEF f, h

\* The type of a kernel function is a prototype.
LEMMA TypeFound ==
    ASSUME build \in Builds, NEW f \in DOMAIN files, NEW name, Has(f, name)
    PROVE  TypeIn(f, name) \in Nat /\ KernelType(f, TypeIn(f, name)).kind = "FUNC_PROTO"
<1> DEFINE funcs == files[f].funcs
           I == {i \in 1..Len(funcs) : funcs[i].name = name}
           i == SelectInSeq(funcs, LAMBDA x : x.name = name)
<1>1. funcs \in Seq(Range(funcs)) /\ 1 \in DOMAIN files
  BY BuildsAssumption DEF files
<1>2. I \subseteq Nat /\ I # {}
  <2> HIDE DEF funcs
  <2> QED  BY <1>1 DEF Has, funcs
<1>3. \E x \in I : \A y \in I : x <= y
  <2> HIDE DEF I
  <2> QED  BY <1>2, Least
<1>4. i = CHOOSE x \in I : \A y \in I : x <= y
  BY <1>2 DEF SelectInSeq, Min
<1>5. i \in I
  <2> HIDE DEF I, i
  <2> QED  BY <1>3, <1>4
<1> DEFINE tid == funcs[i].type
<1>6. TypeIn(f, name) = tid
  BY DEF TypeIn
<1>7. /\ tid \in Nat
      /\ \/ tid \in DOMAIN files[f].types /\ files[f].types[tid].kind = "FUNC_PROTO"
         \/ /\ tid \in DOMAIN files[1].types \ DOMAIN files[f].types
            /\ files[1].types[tid].kind = "FUNC_PROTO"
  <2>1. \A func \in Range(funcs) :
           /\ func.type \in Nat
           /\ \/ func.type \in DOMAIN files[f].types /\ files[f].types[func.type].kind = "FUNC_PROTO"
              \/ /\ func.type \in DOMAIN files[1].types \ DOMAIN files[f].types
                 /\ files[1].types[func.type].kind = "FUNC_PROTO"
    BY BuildsAssumption DEF files
  <2> HIDE DEF i, funcs
  <2>2. i \in DOMAIN funcs
    BY <1>1, <1>5 DEF I
  <2>3. funcs[i] \in Range(funcs)
    BY <2>2 DEF Range
  <2> QED  BY <2>1, <2>3
<1> HIDE DEF i, funcs, tid
<1>8. NodeIn(f, 1, tid).kind = "FUNC_PROTO"
  BY <1>7 DEF NodeIn
<1>9. Skip(f, 1, tid) = tid
  BY <1>8, SkipSelf DEF MODS
<1> QED  BY <1>6, <1>7, <1>8, <1>9 DEF KernelType

------------------------------------------------------------------------------
(* What is compatible. *)

\* A type that fits is compatible with its mirror.
LEMMA MirrorCompatible ==
    ASSUME build \in Builds, NEW f \in DOMAIN files, NEW tid \in Nat, First = 1, Fits(f, tid)
    PROVE  Compatible(di_from_kernel(f, tid), f, tid)
<1> DEFINE N == MaxDepth + 1
           types == TypesIn(f, tid)
           M(d, t) == MirrorOf(f)[N - d][t]
           Good == UNION {{<<M(d, t), t>> : t \in types[d]} : d \in 0..N}
<1>0. N = 9 /\ MaxDepth = 8
  BY DEF MaxDepth
<1>1. /\ types \in [0..N -> SUBSET Nat]
      /\ types[0] = {tid}
      /\ \A d \in 1..N : types[d] = UNION {Range(Parts(KernelType(f, t))) : t \in types[d - 1]}
  BY TypesUnfold
<1>2. \A d \in 0..N : \A t \in types[d] :
         LET kind == KernelType(f, t).kind IN kind \in Comparable /\ (d = N => kind = "VOID")
  BY <1>0 DEF Fits
<1>3. ASSUME NEW d \in 0..N, NEW t \in Nat
      PROVE  LET n == KernelType(f, t) IN
             M(d, t) = IF N - d = 0 \/ t = 0 \/ n.kind \notin Mirrored THEN Void
                       ELSE Di(n.kind, [i \in DOMAIN Parts(n) |-> M(d + 1, Parts(n)[i])])
  <2>1. N - d \in 0..(MaxDepth + 1) /\ (N - d) - 1 = N - (d + 1)
    BY <1>0
  <2>2. node(f, resolve(f, t)) = KernelType(f, t)
    BY DEF node, resolve, KernelType
  <2> HIDE DEF N
  <2> QED  BY <2>1, <2>2, MirrorUnfold
<1> HIDE DEF types, M, N
<1>4. ASSUME NEW d \in 0..N, NEW t \in types[d]
      PROVE  LET n == KernelType(f, t) IN
             /\ Matches(M(d, t), n)
             /\ PairsIn(f, <<M(d, t), t>>) \subseteq Good
  <2> DEFINE n == KernelType(f, t)
  <2>1. t \in Nat /\ Parts(n) \in Seq(Nat)
    BY <1>1, NodesTyped
  <2>2. n.kind \in Comparable /\ (d = N => n.kind = "VOID") /\ (t = 0 => n.kind = "VOID")
    BY <1>2, ZeroIsVoid
  <2>3. n.kind \notin {"PTR", "ARRAY", "FUNC_PROTO"} => Parts(n) = <<>>
    BY NodesTyped
  <2>4. CASE n.kind = "VOID"
    <3>1. M(d, t) = Void
      BY <1>3, <2>1, <2>4 DEF Mirrored
    <3>2. Parts(n) = <<>>
      BY <2>3, <2>4
    <3>3. Matches(Void, n)
      <4> HIDE DEF n
      <4> QED  BY <2>2, <2>4, <3>2 DEF Matches, Alike, Void, Di
    <3>4. PairsIn(f, <<M(d, t), t>>) = {}
      BY <3>2 DEF PairsIn
    <3> QED  BY <3>1, <3>3, <3>4
  <2>5. CASE n.kind # "VOID"
    <3>1. n.kind \in Mirrored /\ d # N /\ t # 0
      BY <2>2, <2>5 DEF Comparable
    <3>2. d + 1 \in 1..N /\ (d + 1) - 1 = d /\ N - d # 0
      BY <1>0, <3>1
    <3> DEFINE of == [i \in DOMAIN Parts(n) |-> M(d + 1, Parts(n)[i])]
    <3>3. M(d, t) = Di(n.kind, of)
      BY <1>3, <2>1, <3>1, <3>2
    <3>4. Len(of) = Len(Parts(n))
      <4> HIDE DEF n
      <4> QED  BY <2>1
    <3>5. ASSUME NEW i \in DOMAIN Parts(n)
          PROVE  <<of[i], Parts(n)[i]>> \in Good
      <4>1. Parts(n)[i] \in types[d + 1]
        <5>1. types[d + 1] = UNION {Range(Parts(KernelType(f, u))) : u \in types[d]}
          BY <1>1, <3>2
        <5>2. Parts(n)[i] \in Range(Parts(n))
          BY DEF Range
        <5> QED  BY <5>1, <5>2
      <4>2. of[i] = M(d + 1, Parts(n)[i]) /\ d + 1 \in 0..N
        BY <1>0, <3>2
      <4> HIDE DEF of, n
      <4> QED  BY <4>1, <4>2
    <3>6. Matches(M(d, t), n)
      <4> HIDE DEF n, of
      <4> QED  BY <2>2, <3>3, <3>4 DEF Matches, Alike, Di
    <3>7. PairsIn(f, <<M(d, t), t>>) \subseteq Good
      <4> HIDE DEF of, Good
      <4>1. M(d, t).of = of
        BY <3>3 DEF Di
      <4> QED  BY <3>5, <4>1 DEF PairsIn
    <3> QED  BY <3>6, <3>7
  <2> QED  BY <2>4, <2>5
<1>5. \A p \in Good : Matches(p[1], KernelType(f, p[2])) /\ PairsIn(f, p) \subseteq Good
  <2> SUFFICES ASSUME NEW d \in 0..N, NEW t \in types[d]
               PROVE  /\ Matches(M(d, t), KernelType(f, t))
                      /\ PairsIn(f, <<M(d, t), t>>) \subseteq Good
    OBVIOUS
  <2> HIDE DEF Good
  <2> QED  BY <1>4
<1>6. <<di_from_kernel(f, tid), tid>> \in Good
  <2>1. di_from_kernel(f, tid) = M(0, tid)
    BY <1>0 DEF di_from_kernel, M, N
  <2>2. 0 \in 0..N /\ tid \in types[0]
    BY <1>0, <1>1
  <2> QED  BY <2>1, <2>2
<1> HIDE DEF Good
<1> QED  BY <1>5, <1>6, Simulation

\* One of each, flattened.
LEMMA FlattenSingles ==
    ASSUME NEW n \in Nat, NEW X, NEW x \in [1..n -> X]
    PROVE  FlattenSeq([i \in 1..n |-> <<x[i]>>]) = x
<1> DEFINE seqs == [i \in 1..n |-> <<x[i]>>]
           w(i) == [j \in 1..i |-> x[j]]
           all == [i \in 1..n |-> w(i)]
           Rhs(g, i) == IF i = 1 THEN seqs[i] ELSE g[i - 1] \o seqs[i]
           Is(g) == g = [i \in 1..n |-> Rhs(g, i)]
           flatten == CHOOSE g : Is(g)
<1>1. seqs \in Seq(Seq(X)) /\ Len(seqs) = n
  OBVIOUS
<1>2. CASE n = 0
  <2>1. seqs = x
    BY <1>2
  <2> QED  BY <1>1, <1>2, <2>1 DEF FlattenSeq
<1>3. CASE n # 0
  <2>1. \A i \in 1..n : w(i) \in Seq(X) /\ Len(w(i)) = i /\ seqs[i] = <<x[i]>> /\ x[i] \in X
    OBVIOUS
  <2>2. w(1) = seqs[1]
    <3>1. 1 \in 1..n
      BY <1>3
    <3>2. Len(w(1)) = 1 /\ w(1)[1] = x[1] /\ w(1) \in Seq(X)
      BY <2>1, <3>1
    <3> QED  BY <2>1, <3>1, <3>2
  <2>3. ASSUME NEW i \in 1..n, i # 1 PROVE w(i - 1) \o seqs[i] = w(i)
    <3>1. i - 1 \in 1..n /\ (i - 1) + 1 = i
      BY <2>3
    <3> DEFINE left == w(i - 1) \o seqs[i]
    <3>2. w(i - 1) \in Seq(X) /\ Len(w(i - 1)) = i - 1 /\ seqs[i] = <<x[i]>>
      BY <2>1, <3>1
    <3>3. \A j \in 1..(i - 1) : w(i - 1)[j] = x[j] /\ w(i)[j] = x[j]
      OBVIOUS
    <3>4. w(i)[i] = x[i] /\ w(i) \in Seq(X) /\ Len(w(i)) = i
      BY <2>1
    <3> HIDE DEF w, seqs
    <3>5. left \in Seq(X) /\ Len(left) = i
      BY <2>1, <3>1, <3>2
    <3>6. \A j \in 1..i : left[j] = w(i)[j]
      <4>1. \A j \in 1..(i - 1) : left[j] = w(i - 1)[j]
        BY <3>2
      <4>2. left[i] = x[i]
        BY <3>1, <3>2
      <4>3. \A j \in 1..i : j = i \/ j \in 1..(i - 1)
        OBVIOUS
      <4> QED  BY <3>3, <3>4, <4>1, <4>2, <4>3
    <3> HIDE DEF left
    <3>7. left = w(i)
      BY <3>4, <3>5, <3>6
    <3> QED  BY <3>7 DEF left
  <2>4. Is(all)
    <3>1. ASSUME NEW i \in 1..n PROVE Rhs(all, i) = w(i)
      <4>1. CASE i = 1
        BY <2>2, <4>1
      <4>2. CASE i # 1
        <5>1. i - 1 \in 1..n
          BY <4>2
        <5>2. all[i - 1] = w(i - 1)
          BY <5>1
        <5> HIDE DEF all, w, seqs
        <5> QED  BY <2>3, <4>2, <5>2
      <4> QED  BY <4>1, <4>2
    <3> HIDE DEF Rhs, w
    <3> QED  BY <3>1
  <2>5. Is(flatten)
    <3> HIDE DEF Is
    <3> QED  BY <2>4
  <2>6. FlattenSeq(seqs) = flatten[n]
    <3>1. FlattenSeq(seqs) = LET f == CHOOSE f : f = [i \in 1..Len(seqs) |-> IF i = 1 THEN seqs[i] ELSE f[i - 1] \o seqs[i]] IN f[Len(seqs)]
      <4> HIDE DEF seqs
      <4> QED  BY <1>1, <1>3 DEF FlattenSeq
    <3> QED  BY <1>1, <3>1
  <2> HIDE DEF flatten
  <2>7. \A i \in 1..n : flatten[i] = Rhs(flatten, i)
    <3> HIDE DEF Rhs
    <3> QED  BY <2>5
  <2> DEFINE T == {i \in Nat : i + 1 <= n => flatten[i + 1] = w(i + 1)}
  <2>8. 0 \in T
    <3>1. 1 \in 1..n
      BY <1>3
    <3>2. flatten[1] = seqs[1]
      BY <2>7, <3>1
    <3> QED  BY <2>2, <3>2
  <2>9. \A i \in Nat : i \in T => i + 1 \in T
    <3> HIDE DEF w, seqs
    <3> SUFFICES ASSUME NEW i \in Nat, (i + 1) + 1 <= n, flatten[i + 1] = w(i + 1)
                 PROVE  flatten[(i + 1) + 1] = w((i + 1) + 1)
      OBVIOUS
    <3> DEFINE k == (i + 1) + 1
    <3>1. k \in 1..n /\ k # 1 /\ k - 1 = i + 1
      OBVIOUS
    <3> HIDE DEF k
    <3>2. flatten[k] = flatten[k - 1] \o seqs[k]
      BY <2>7, <3>1
    <3>3. flatten[k] = w(k)
      BY <2>3, <3>1, <3>2
    <3> QED  BY <3>3 DEF k
  <2>10. flatten[n] = w(n)
    <3> HIDE DEF T
    <3>1. n - 1 \in Nat /\ (n - 1) + 1 = n
      BY <1>3
    <3>2. n - 1 \in T
      BY <2>8, <2>9, <3>1, Counting
    <3> HIDE DEF w
    <3> QED  BY <3>1, <3>2 DEF T
  <2>11. w(n) = x
    OBVIOUS
  <2> HIDE DEF w, seqs
  <2> QED  BY <2>6, <2>10, <2>11 DEF seqs
<1> QED  BY <1>2, <1>3

\* A prototype of scalars is compatible with what its declaration suggests.
LEMMA ScalarsCompatible ==
    ASSUME build \in Builds, NEW f \in DOMAIN files, NEW tid \in Nat, NEW sig,
           sig.args \in Seq(Range(sig.args)), sig.plain,
           KernelType(f, tid).kind = "FUNC_PROTO",
           Len(sig.args) = Len(KernelType(f, tid).params),
           Simple(sig.ret, f, KernelType(f, tid).type),
           \A i \in DOMAIN sig.args :
              /\ sig.args[i].commas = 0
              /\ Simple(sig.args[i].type, f, KernelType(f, tid).params[i])
    PROVE  Compatible(di_from_ir_sig(sig), f, tid)
<1> DEFINE k == KernelType(f, tid)
           n == Len(sig.args)
           made == [i \in 1..n |-> one(sig.args[i].type)]
           proto == di_from_ir_sig(sig)
           IRs == {"void", "ptr"} \union IR_INT_BITS
           Voids == {t \in Nat : KernelType(f, t).kind = "VOID"}
           Simples(ir) == {t \in Nat : Simple(ir, f, t)}
           Good == {<<proto, tid>>} \union {<<Void, t>> : t \in Voids}
                      \union UNION {{<<one(ir), t>> : t \in Simples(ir)} : ir \in IRs}
<1>1. n \in Nat /\ DOMAIN sig.args = 1..n
  OBVIOUS
<1>2. k.type \in Nat /\ k.params \in Seq(Nat) /\ Parts(k) = <<k.type>> \o k.params
  BY NodesTyped DEF Parts
<1>3. proto = Di("FUNC_PROTO", <<one(sig.ret)>> \o made)
  <2> DEFINE pieces(a) == <<one(a.type)>> \o [i \in 1..a.commas |-> Void]
  <2>1. ASSUME NEW i \in 1..n PROVE pieces(sig.args[i]) = <<made[i]>>
    <3>1. sig.args[i].commas = 0 /\ made[i] = one(sig.args[i].type)
      BY <1>1
    <3> DEFINE none == [j \in 1..0 |-> Void]
    <3>2. none = <<>>
      OBVIOUS
    <3> HIDE DEF none, made
    <3>3. pieces(sig.args[i]) = <<made[i]>> \o none
      BY <3>1 DEF none
    <3> QED  BY <3>2, <3>3
  <2>2. [i \in DOMAIN sig.args |-> pieces(sig.args[i])] = [i \in 1..n |-> <<made[i]>>]
    <3> HIDE DEF pieces, made
    <3> QED  BY <1>1, <2>1
  <2>3. FlattenSeq([i \in 1..n |-> <<made[i]>>]) = made
    <3> DEFINE X == {made[i] : i \in 1..n}
    <3>1. made \in [1..n -> X]
      OBVIOUS
    <3> HIDE DEF made, n, X
    <3> QED  BY <1>1, <3>1, FlattenSingles
  <2> HIDE DEF made, n
  <2> QED  BY <2>2, <2>3 DEF di_from_ir_sig
<1>4. ASSUME NEW ir, NEW t \in Nat, Simple(ir, f, t)
      PROVE  /\ <<one(ir), t>> \in Good
             /\ Matches(one(ir), KernelType(f, t))
             /\ PairsIn(f, <<one(ir), t>>) \subseteq Good
  <2> DEFINE m == KernelType(f, t)
  <2>0. <<one(ir), t>> \in Good
    <3>1. ir \in IRs /\ t \in Simples(ir)
      BY <1>4 DEF Simple
    <3> HIDE DEF IRs, Simples, proto
    <3> QED  BY <3>1
  <2>1. m.type \in Nat /\ (m.kind \notin {"PTR", "ARRAY", "FUNC_PROTO"} => Parts(m) = <<>>)
    BY NodesTyped
  <2>2. CASE ir = "void" /\ m.kind = "VOID"
    <3>1. one(ir) = Void /\ Parts(m) = <<>>
      BY <2>1, <2>2 DEF one, IR_INT_BITS
    <3>2. Matches(Void, m)
      <4> HIDE DEF m
      <4> QED  BY <2>2, <3>1 DEF Matches, Alike, Void, Di, Comparable
    <3>3. PairsIn(f, <<one(ir), t>>) = {}
      BY <3>1 DEF PairsIn
    <3> HIDE DEF Good
    <3> QED  BY <2>0, <3>1, <3>2, <3>3
  <2>3. CASE ir \in IR_INT_BITS /\ m.kind = "INT"
    <3>1. one(ir) = Di("INT", <<>>) /\ Parts(m) = <<>>
      BY <2>1, <2>3 DEF one, IR_INT_BITS
    <3>2. Matches(Di("INT", <<>>), m)
      <4> HIDE DEF m
      <4> QED  BY <2>3, <3>1 DEF Matches, Alike, Di, Comparable, Mirrored
    <3>3. PairsIn(f, <<one(ir), t>>) = {}
      BY <3>1 DEF PairsIn
    <3> HIDE DEF Good
    <3> QED  BY <2>0, <3>1, <3>2, <3>3
  <2>4. CASE ir = "ptr" /\ m.kind = "PTR" /\ KernelType(f, m.type).kind = "VOID"
    <3>1. one(ir) = Di("PTR", <<Void>>) /\ Parts(m) = <<m.type>>
      BY <2>4 DEF one, IR_INT_BITS, Parts
    <3>2. Matches(Di("PTR", <<Void>>), m)
      <4> HIDE DEF m
      <4> QED  BY <2>4, <3>1 DEF Matches, Alike, Di, Comparable, Mirrored
    <3>3. PairsIn(f, <<one(ir), t>>) \subseteq {<<Void, m.type>>}
      <4>1. one(ir).of = <<Void>>
        BY <3>1 DEF Di
      <4> HIDE DEF m
      <4> QED  BY <3>1, <4>1 DEF PairsIn, m
    <3>4. <<Void, m.type>> \in Good
      <4>1. m.type \in Voids
        BY <2>1, <2>4
      <4> HIDE DEF Voids, m, proto, IRs, Simples
      <4> QED  BY <4>1
    <3> HIDE DEF Good
    <3> QED  BY <2>0, <3>1, <3>2, <3>3, <3>4
  <2> HIDE DEF Good
  <2> QED  BY <1>4, <2>2, <2>3, <2>4 DEF Simple
<1>5. ASSUME NEW t \in Voids
      PROVE  Matches(Void, KernelType(f, t)) /\ PairsIn(f, <<Void, t>>) = {}
  <2> DEFINE m == KernelType(f, t)
  <2>1. m.kind = "VOID" /\ Parts(m) = <<>>
    BY NodesTyped
  <2>2. PairsIn(f, <<Void, t>>) = {}
    BY <2>1 DEF PairsIn
  <2>3. Matches(Void, m)
    <3> HIDE DEF m
    <3> QED  BY <2>1 DEF Matches, Alike, Void, Di, Comparable
  <2> QED  BY <2>2, <2>3
<1>6. Matches(proto, k) /\ PairsIn(f, <<proto, tid>>) \subseteq Good
  <2> DEFINE of == <<one(sig.ret)>> \o made
  <2>1. Len(of) = n + 1 /\ of[1] = one(sig.ret) /\ \A i \in 1..n : of[i + 1] = one(sig.args[i].type)
    <3> DEFINE X == {made[i] : i \in 1..n} \union {one(sig.ret)}
    <3>1. made \in Seq(X) /\ Len(made) = n /\ \A i \in 1..n : made[i] = one(sig.args[i].type)
      BY <1>1
    <3>2. <<one(sig.ret)>> \in Seq(X)
      OBVIOUS
    <3> HIDE DEF made, X, n
    <3> QED  BY <1>1, <3>1, <3>2
  <2>2. Len(Parts(k)) = n + 1 /\ Parts(k)[1] = k.type /\ \A i \in 1..n : Parts(k)[i + 1] = k.params[i]
    <3> HIDE DEF k
    <3> QED  BY <1>1, <1>2 DEF k
  <2>3. DOMAIN Parts(k) = 1..(n + 1)
    BY <2>2, NodesTyped
  <2> HIDE DEF of
  <2>4. Matches(proto, k)
    <3> HIDE DEF k, proto
    <3>1. k.kind = "FUNC_PROTO" /\ proto = Di("FUNC_PROTO", of)
      BY <1>3 DEF k, of
    <3> QED  BY <2>1, <2>2, <3>1 DEF Matches, Alike, Di, Comparable, Mirrored
  <2>5. ASSUME NEW i \in 1..(n + 1) PROVE <<of[i], Parts(k)[i]>> \in Good
    <3> HIDE DEF Good
    <3>1. CASE i = 1
      BY <1>2, <1>4, <2>1, <2>2, <3>1
    <3>2. CASE i # 1
      <4> DEFINE j == i - 1
      <4>1. j \in 1..n /\ j + 1 = i
        BY <1>1, <3>2
      <4>2. k.params[j] \in Nat
        BY <1>2, <4>1
      <4> HIDE DEF j
      <4>3. Simple(sig.args[j].type, f, k.params[j])
        BY <1>1, <4>1
      <4>4. of[i] = one(sig.args[j].type) /\ Parts(k)[i] = k.params[j]
        BY <2>1, <2>2, <4>1
      <4> QED  BY <1>4, <4>2, <4>3, <4>4
    <3> QED  BY <3>1, <3>2
  <2>6. proto.of = of
    BY <1>3 DEF Di, of
  <2> HIDE DEF Good, proto
  <2> QED  BY <2>3, <2>4, <2>5, <2>6 DEF PairsIn
<1>7. \A p \in Good : Matches(p[1], KernelType(f, p[2])) /\ PairsIn(f, p) \subseteq Good
  <2> SUFFICES ASSUME NEW p \in Good
               PROVE  Matches(p[1], KernelType(f, p[2])) /\ PairsIn(f, p) \subseteq Good
    OBVIOUS
  <2>1. CASE p = <<proto, tid>>
    <3> HIDE DEF Good, proto
    <3> QED  BY <1>6, <2>1
  <2>2. ASSUME NEW t \in Voids, p = <<Void, t>>
        PROVE  Matches(p[1], KernelType(f, p[2])) /\ PairsIn(f, p) \subseteq Good
    <3> HIDE DEF Good, Voids
    <3> QED  BY <1>5, <2>2
  <2>3. ASSUME NEW ir \in IRs, NEW t \in Simples(ir), p = <<one(ir), t>>
        PROVE  Matches(p[1], KernelType(f, p[2])) /\ PairsIn(f, p) \subseteq Good
    <3>1. t \in Nat /\ Simple(ir, f, t)
      OBVIOUS
    <3> HIDE DEF Good
    <3> QED  BY <1>4, <2>3, <3>1
  <2>4. p = <<proto, tid>> \/ (\E t \in Voids : p = <<Void, t>>)
        \/ \E ir \in IRs : \E t \in Simples(ir) : p = <<one(ir), t>>
    <3> HIDE DEF Voids, Simples, IRs, proto
    <3> QED  OBVIOUS
  <2> HIDE DEF Good, Voids, Simples, IRs, proto
  <2> QED  BY <2>1, <2>2, <2>3, <2>4
<1>8. <<proto, tid>> \in Good
  OBVIOUS
<1> HIDE DEF Good
<1> QED  BY <1>7, <1>8, Simulation

------------------------------------------------------------------------------
(* Prototypes libbpf takes. *)

\* The kernel stays, and the names of the declarations are names.
Setting == build \in Builds /\ dumped \subseteq DOMAIN files /\ TypeOK

LEMMA SettingStays == ProtoSpec => []Setting
<1>1. ProtoInit => Setting
  BY TypeInit DEF ProtoInit, Setting
<1>2. Setting /\ [ProtoNext]_protoVars => Setting'
  <2> SUFFICES ASSUME Setting, [ProtoNext]_protoVars PROVE Setting'
    OBVIOUS
  <2>1. [Next]_vars /\ build' = build /\ dumped' = dumped
    BY DEF ProtoNext, protoVars
  <2>2. TypeOK'
    BY <2>1, TypeStep DEF Setting
  <2> QED  BY <2>1, <2>2 DEF Setting, files
<1> QED  BY <1>1, <1>2, PTL DEF ProtoSpec

\* The prototype the script mirrors is one libbpf takes, on every kernel and whatever
\* else could not be dumped: a type and its mirror match, and so do their parts, down to
\* the depth the mirror ends at (add_ksyms.py 13-18 and 169-252).
THEOREM MirroredResolve == ProtoSpec => []MirrorResolves
<1>1. Setting => MirrorResolves
  <2> SUFFICES ASSUME build \in Builds, dumped \subseteq DOMAIN files, NEW d \in decls,
                      FileOf(d.sym, DOMAIN files) # 0,
                      {1, FileOf(d.sym, DOMAIN files)} \subseteq dumped,
                      Fits(FileOf(d.sym, DOMAIN files), TypeIn(FileOf(d.sym, DOMAIN files), d.sym))
               PROVE  Resolves(make_proto(d.sym), d.sym)
    BY DEF Setting, MirrorResolves, Extern
  <2> DEFINE f == FileOf(d.sym, DOMAIN files)
             tid == TypeIn(f, d.sym)
  <2>1. f \in DOMAIN files /\ Has(f, d.sym)
    BY FileFound
  <2>2. FileOf(d.sym, dumped) = f /\ First = 1
    BY SameFile
  <2>3. tid \in Nat /\ KernelType(f, tid).kind = "FUNC_PROTO"
    BY <2>1, TypeFound
  <2>4. proto_of(d.sym)
    BY <2>2, <2>3 DEF proto_of, node, resolve, KernelType
  <2>5. make_proto(d.sym) = di_from_kernel(f, tid)
    BY <2>2, <2>4 DEF make_proto
  <2>6. Compatible(di_from_kernel(f, tid), f, tid)
    BY <2>1, <2>2, <2>3, MirrorCompatible
  <2> QED  BY <2>5, <2>6 DEF Resolves
<1> QED  BY <1>1, SettingStays, PTL

\* The prototype the script derives from the declaration of a function of scalars is
\* one libbpf takes, on every kernel (add_ksyms.py 18-20 and 258-298).
THEOREM DerivedResolve == ProtoSpec => []ScalarsResolve
<1>1. Setting => ScalarsResolve
  <2> SUFFICES ASSUME Setting, NEW d \in decls, Extern(d), FileOf(d.sym, dumped) = 0, Scalars(d.sym)
               PROVE  Resolves(make_proto(d.sym), d.sym)
    BY DEF ScalarsResolve
  <2> DEFINE f == FileOf(d.sym, DOMAIN files)
             tid == TypeIn(f, d.sym)
             k == KernelType(f, tid)
             sig == build.signatures[d.sym]
  <2>1. build \in Builds /\ f # 0
    BY DEF Setting, Extern
  <2>2. f \in DOMAIN files /\ Has(f, d.sym)
    BY <2>1, FileFound
  <2>3. tid \in Nat /\ k.kind = "FUNC_PROTO"
    BY <2>1, <2>2, TypeFound
  <2>4. d.sym \in Names
    BY DEF Setting, TypeOK, Declarations
  <2>5. sig.args \in Seq(Range(sig.args))
    BY <2>1, <2>4, BuildsAssumption
  <2>6. make_proto(d.sym) = di_from_ir_sig(sig)
    BY DEF make_proto, proto_of
  <2>7. /\ sig.plain /\ Len(sig.args) = Len(k.params)
        /\ Simple(sig.ret, f, k.type)
        /\ \A i \in DOMAIN k.params : sig.args[i].commas = 0 /\ Simple(sig.args[i].type, f, k.params[i])
    BY DEF Scalars
  <2>8. k.params \in Seq(Nat)
    BY <2>1, <2>2, NodesTyped
  <2>9. DOMAIN sig.args = DOMAIN k.params
    <3> HIDE DEF sig, k
    <3> QED  BY <2>5, <2>7, <2>8
  <2> HIDE DEF f, tid, sig
  <2>10. Compatible(di_from_ir_sig(sig), f, tid)
    BY <2>1, <2>2, <2>3, <2>5, <2>7, <2>9, ScalarsCompatible
  <2> QED  BY <2>6, <2>10 DEF Resolves, f, tid
<1> QED  BY <1>1, SettingStays, PTL
==============================================================================
