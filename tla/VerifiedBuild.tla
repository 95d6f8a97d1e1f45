---------------------------- MODULE VerifiedBuild ----------------------------
(***************************************************************************)
(* What `make` promises a consumer of rules.mk, without files, time stamps *)
(* or caches.  Somebody changes the inputs of the build; somebody asks for *)
(* the object; the build either refuses, and claims nothing, or delivers   *)
(* an object that is the one a build from scratch would produce from the   *)
(* inputs as they are, and that Verus verified unless VERIFY=0 was set.    *)
(* A `make verify` delivers no object: here it is a refusal.               *)
(*                                                                         *)
(* MakeBuild is shown to implement this specification.                     *)
(***************************************************************************)
CONSTANTS
    Valuations,     \* every value the build's inputs can have together
    Wanted(_),      \* is verification asked for by these inputs?
    Product(_),     \* the object a build from scratch makes of them
    NoClaim         \* no object is claimed to be good

VARIABLES
    inputs,         \* the inputs of the build as they are now
    pending,        \* has an object been asked for and not been answered?
    claim           \* NoClaim, or the object delivered for these inputs

vars == <<inputs, pending, claim>>

Init == inputs \in Valuations /\ ~pending /\ claim = NoClaim

\* The inputs only change while nothing is being built, and a change takes
\* back the claim made about the old ones.
Change ==
    /\ ~pending
    /\ inputs' \in Valuations
    /\ claim' = NoClaim
    /\ UNCHANGED pending

Ask == ~pending /\ pending' = TRUE /\ claim' = NoClaim /\ UNCHANGED inputs

Refuse == pending /\ pending' = FALSE /\ UNCHANGED <<inputs, claim>>

Deliver ==
    /\ pending /\ pending' = FALSE
    /\ claim' = [code |-> Product(inputs), verified |-> Wanted(inputs)]
    /\ UNCHANGED inputs

Next == Change \/ Ask \/ Refuse \/ Deliver

\* Every request is answered, one way or the other.
Answered == pending ~> ~pending

Spec == Init /\ [][Next]_vars /\ Answered
==============================================================================
