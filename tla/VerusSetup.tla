------------------------------ MODULE VerusSetup ------------------------------
(***************************************************************************)
(* `make verus`: every consumer of the toolchain runs it before it         *)
(* verifies anything (rules.mk, toolchain-ready), and several consumers    *)
(* may share one Verus checkout.  It fetches Z3 when there is none, takes  *)
(* a file lock, and rebuilds the distribution with vargo unless a stamp    *)
(* says that the one on disk was built for the same key: the pin of the    *)
(* checkout and the setup configuration.  Then the lock is released and    *)
(* the consumer runs the verifier.                                         *)
(*                                                                         *)
(* The distribution is a set of files (Components) that vargo replaces one *)
(* at a time; dist[c] is the key the file on disk was built for.  vargo,   *)
(* get-z3.sh, git and flock are not in this repository: they appear as     *)
(* the Makefile uses them.  A key is the pair of the pin and the           *)
(* configuration hashed into it.                                           *)
(***************************************************************************)
EXTENDS Naturals

CONSTANTS
    Procs,              \* consumers: each is a `make` in a program directory
    Components,         \* files of the distribution
    Tested,             \* those whose presence the Makefile tests
    Pins,               \* states of the Verus checkout: commit and local diff
    SetupConfig,        \* SetupConfig[p]: Makefile, toolchain.mk, RUST_TOOLCHAIN of p
    Inodes,             \* identities of the lock file
    HostRunsRelease,    \* does upstream's Z3 binary run on this host?
    None

ASSUME SetupAssumption ==
    /\ Pins \subseteq Nat
    /\ Tested \subseteq Components
    /\ None \notin Inodes
    /\ HostRunsRelease \in BOOLEAN
    /\ None \notin Pins \X {SetupConfig[p] : p \in Procs}

VARIABLES
    pc,         \* pc[p]: where p is
    pin,        \* the state of the checkout
    key,        \* key[p]: the key p computed under the lock
    handle,     \* handle[p]: the inode behind p's file descriptor 9
    todo,       \* todo[p]: the components p's vargo has not replaced yet
    lockfile,   \* the inode .verus-bpf-lock names, None when there is no file
    dist,       \* dist[c]: what c was built for, None when there is no file
    stamp,      \* content of .verus-bpf-build, None when there is no file
    z3          \* "absent", "foreign" (does not run on this host) or "runs"

procvars == <<pc, key, handle, todo>>
filevars == <<lockfile, dist, stamp>>
vars == <<procvars, pin, filevars, z3>>

\* Mutant: the configuration is not hashed.
PinOnly(p) == <<pin, None>>

KeyOf(p) == <<pin, SetupConfig[p]>>
Keys == Pins \X {SetupConfig[p] : p \in Procs}

Init ==
    /\ pc = [p \in Procs |-> "idle"]
    /\ pin \in Pins
    /\ key = [p \in Procs |-> None]
    /\ handle = [p \in Procs |-> None]
    /\ todo = [p \in Procs |-> {}]
    /\ lockfile = None
    /\ dist = [c \in Components |-> None]
    /\ stamp = None
    /\ z3 = "absent"

Goto(p, l) == pc' = [pc EXCEPT ![p] = l]

------------------------------------------------------------------------------
(* The z3 prerequisite.  It is a file target: a file that exists is skipped. *)

Begin(p) ==
    /\ pc[p] = "idle"
    /\ Goto(p, IF z3 = "absent" THEN "fetch" ELSE "open")
    /\ UNCHANGED <<pin, key, handle, todo, filevars, z3>>

\* ./tools/get-z3.sh
FetchZ3(p) ==
    /\ pc[p] = "fetch"
    /\ z3' = IF HostRunsRelease THEN "runs" ELSE "foreign"
    /\ Goto(p, IF HostRunsRelease THEN "open" ELSE "wheel")
    /\ UNCHANGED <<pin, key, handle, todo, filevars>>

\* The wheel replaces a binary that does not run.
InstallWheel(p) ==
    /\ pc[p] = "wheel"
    /\ z3' = "runs"
    /\ Goto(p, "open")
    /\ UNCHANGED <<pin, key, handle, todo, filevars>>

------------------------------------------------------------------------------
(* The locked part. *)

\* 9> opens the lock file, and creates it when there is none.
OpenLock(p) ==
    /\ pc[p] = "open"
    /\ lockfile' \in (IF lockfile = None THEN Inodes \ {handle[q] : q \in Procs} ELSE {lockfile})
    /\ handle' = [handle EXCEPT ![p] = lockfile']
    /\ Goto(p, "wait")
    /\ UNCHANGED <<pin, key, todo, dist, stamp, z3>>

Locked(p) == pc[p] \in {"test", "build", "record"}

\* The processes that hold the lock on inode i.
Holders(i) == {p \in Procs : Locked(p) /\ handle[p] = i}

\* Mutant: flock -s 9.
AcquireShared(p) ==
    /\ pc[p] = "wait"
    /\ key' = [key EXCEPT ![p] = KeyOf(p)]
    /\ Goto(p, "test")
    /\ UNCHANGED <<pin, handle, todo, filevars, z3>>

\* flock -x 9, then the key is computed.
Acquire(p) ==
    /\ pc[p] = "wait"
    /\ Holders(handle[p]) = {}
    /\ key' = [key EXCEPT ![p] = KeyOf(p)]
    /\ Goto(p, "test")
    /\ UNCHANGED <<pin, handle, todo, filevars, z3>>

\* Mutants: a distribution that is there is current, whatever it was built for;
\* vargo is run each time.
AnyStampIsCurrent(k) == stamp # None /\ \A c \in Tested : dist[c] # None
NeverCurrent(k) == FALSE

\* -x VERUS_BIN && -f vstd.vir && -f $stamp && $(cat $stamp) == "$key"
Current(k) == stamp = k /\ \A c \in Tested : dist[c] # None

\* The end of the locked part closes descriptor 9.
Release(p) == handle' = [handle EXCEPT ![p] = None] /\ key' = [key EXCEPT ![p] = None]

LeaveCurrent(p) ==
    /\ pc[p] = "test" /\ Current(key[p])
    /\ Release(p) /\ Goto(p, "verify")
    /\ UNCHANGED <<pin, todo, filevars, z3>>

StartVargo(p) ==
    /\ pc[p] = "test" /\ ~Current(key[p])
    /\ todo' = [todo EXCEPT ![p] = Components]
    /\ Goto(p, "build")
    /\ UNCHANGED <<pin, key, handle, filevars, z3>>

\* vargo replaces a file, from the checkout as it is now.
Replace(p, c) ==
    /\ pc[p] = "build" /\ c \in todo[p]
    /\ dist' = [dist EXCEPT ![c] = KeyOf(p)]
    /\ todo' = [todo EXCEPT ![p] = @ \ {c}]
    /\ UNCHANGED <<pc, pin, key, handle, lockfile, stamp, z3>>

VargoDone(p) ==
    /\ pc[p] = "build" /\ todo[p] = {}
    /\ Goto(p, "record")
    /\ UNCHANGED <<pin, key, handle, todo, filevars, z3>>

\* Mutant: the stamp is written, but the lock is kept.
RecordKeepingLock(p) ==
    /\ pc[p] = "record"
    /\ stamp' = key[p]
    /\ UNCHANGED <<procvars, pin, lockfile, dist, z3>>

Record(p) ==
    /\ pc[p] = "record"
    /\ stamp' = key[p]
    /\ Release(p) /\ Goto(p, "verify")
    /\ UNCHANGED <<pin, todo, lockfile, dist, z3>>

\* vargo or the download of the wheel fails, or the process is killed: -e ends
\* the shell, which closes the lock; what has been replaced stays replaced, and
\* a Z3 that does not run stays where it is.
Stop(p) ==
    /\ pc[p] # "idle"
    /\ Release(p) /\ Goto(p, "idle")
    /\ todo' = [todo EXCEPT ![p] = {}]
    /\ UNCHANGED <<pin, filevars, z3>>

\* The consumer has run the verifier as often as it needs.
Verified(p) == pc[p] = "verify" /\ Stop(p)

------------------------------------------------------------------------------
(* The checkout. *)

Quiet == \A p \in Procs : pc[p] = "idle"

\* git pulls a newer Verus while nobody uses the checkout.
Advance ==
    /\ Quiet
    /\ pin' \in {n \in Pins : n > pin}
    /\ UNCHANGED <<procvars, filevars, z3>>

Clean ==
    /\ lockfile' = None /\ stamp' = None
    /\ dist' = [c \in Components |-> None]
    /\ UNCHANGED <<procvars, pin, z3>>

\* make verus-clean: target-verus is removed, with the lock file in it.
verus_clean == Quiet /\ lockfile # None /\ Clean

------------------------------------------------------------------------------
Setup(p) ==
    \/ FetchZ3(p) \/ InstallWheel(p)
    \/ OpenLock(p)
    \/ LeaveCurrent(p) \/ StartVargo(p)
    \/ \E c \in Components : Replace(p, c)
    \/ VargoDone(p) \/ Record(p)
    \/ Verified(p)

Next ==
    \/ \E p \in Procs : Begin(p) \/ Setup(p) \/ Acquire(p) \/ Stop(p)
    \/ Advance
    \/ verus_clean

\* Every command of the recipe ends; the kernel grants a file lock to whoever
\* has been waiting while others come and go.
Fairness == \A p \in Procs : WF_vars(Setup(p)) /\ SF_vars(Acquire(p))

Spec == Init /\ [][Next]_vars /\ Fairness

------------------------------------------------------------------------------
(* Properties. *)

Places == {"idle", "fetch", "wheel", "open", "wait", "test", "build", "record", "verify"}

TypeOK ==
    /\ pc \in [Procs -> Places]
    /\ pin \in Pins
    /\ key \in [Procs -> Keys \union {None}]
    /\ handle \in [Procs -> Inodes \union {None}]
    /\ todo \in [Procs -> SUBSET Components]
    /\ lockfile \in Inodes \union {None}
    /\ dist \in [Components -> Keys \union {None}]
    /\ stamp \in Keys \union {None}
    /\ z3 \in {"absent", "foreign", "runs"}

\* Two consumers never rebuild the distribution at once (Makefile 36-41;
\* TOOLCHAIN.md 18-19: "Setup is serialized so parallel consumers do not
\* overwrite the verifier binary").
Exclusive == \A p, q \in Procs : Locked(p) /\ Locked(q) => p = q

\* The verifier a consumer runs is, file by file, the one of the pin and of its
\* own configuration, from the moment its setup ends to its last run of it
\* (Makefile 47-55; TOOLCHAIN.md 17-18: "It rebuilds incrementally after the
\* pin, tracked Verus sources, or setup configuration changes").
UsesPinned == \A p \in Procs : pc[p] = "verify" => \A c \in Components : dist[c] = KeyOf(p)

\* Nobody runs vargo while another consumer runs the verifier, not even to put the
\* same files there (Makefile 36-38: "Re-running vargo replaces rust_verify, which
\* can break another verifier process when it re-execs itself").
NotUnderAVerifier == \A p, q \in Procs : pc[p] = "verify" => pc[q] # "build"

\* A setup that begins ends: no consumer waits for the lock for ever.
SetupEnds == \A p \in Procs : pc[p] \notin {"idle", "verify"} ~> pc[p] \in {"idle", "verify"}
==============================================================================
