# verus-bpf in TLA+

verus-bpf is a toolchain: a makefile library (`rules.mk`) that a BPF program
written in Rust includes. It verifies the program and its library crates with
Verus, compiles the same source for BPF with rustc, links the bitcode, repairs
the debug information, lowers field accesses to CO-RE relocations, declares the
kernel functions that are called, and emits an object the kernel accepts. This
directory holds a TLA+ development of it: specifications of its parts, the TLC
configurations that check them, and TLAPS proofs.

    tlc -workers 2 -config MCBuild.cfg MCMakeBuild     # one of the runs below
    tlapm MakeBuildProofs.tla                          # the proofs of one module

## The system

| part | sources | state it keeps | operations |
|---|---|---|---|
| build pipeline | `rules.mk` | files in `BUILD_DIR`, `DEPDIR`, `HOSTDIR` with their times; the toolchain stamp | `make all`, `verify`, `clean`, `distclean`; each recipe |
| verifier setup | `Makefile`, `toolchain.mk` | the Verus distribution, its stamp, a lock file, Z3 | `make verus`, `verus-clean` |
| debug-info repair | `btf_fixup.py` | the metadata graph of one LLVM module | four passes over it |
| kernel prototypes, control flow | `add_ksyms.py` | the symbols, declarations and debug info of one LLVM module; the type graph of kernel BTF | one run before, one after LLVM's simplifycfg |
| CO-RE lowering | `bpf-postproc` | the functions and types of one LLVM module | collect polyfill calls, replace each, write |
| field access | `btf`, `btf-macros` | a view: a base pointer, and in types only the root, the path and the mode | `#[btf]`, `btf_profile!`; accessors, `exists`, `get`, `as_ptr`, `as_mut_ptr`, `detect`, `view` |
| trust lint | `lint_trusted.py` | none | a scan of one source file |
| 128-bit multiply | `multi3.ll` | none | `__multi3` |
| editor project | `gen_rust_project.py` | none | formats one JSON file |

How they interact. A consumer's `make` first runs `make verus` of the toolchain
(`toolchain-ready`); several consumers may do so at once over one Verus
checkout. `rules.mk` then runs everything else as recipes; they exchange files.
The order in the pipeline of the object is: rustc (`prog.bc`), `llvm-link` with
the crates' objects (`linked.bc`), `bpf-postproc` (`reloc.bc`), `opt -O2`
(`opt.bc`), `add_ksyms.py`, `opt -passes=simplifycfg`, `add_ksyms.py` again and
`btf_fixup.py` (`ksyms.bc`), `llc` (`prog.o`) (`rules.mk` 436-476). The
post-processors communicate through the module alone: `bpf-postproc` numbers
struct members as it finds them, and `btf_fixup.py` sorts them afterwards; the
second `add_ksyms.py` reads what the first one declared.

What is hard in it.

* *The build*: make decides by time stamps whether content is current, and the
  whole claim of the toolchain ("verifies Rust source with Verus, then compiles
  the same source to BPF") rides on that decision over any history of edits,
  failures, kills, cleans and reconfigurations, with recipes running in
  parallel.
* *The setup*: several processes, one lock, a stamp, a rebuild that can stop
  anywhere, and a use of what was built that outlives the lock.
* *The post-processors*: sequential programs over a graph. What can go wrong is
  order (a set computed before a renaming and used after it, a node visited
  twice by two owners), running twice over the same module, and a pass undoing
  what an earlier one relied on.

What makes each part correct:

* build: what make skips is current; the object is the one of a build from
  scratch; nothing is in it that Verus did not verify; mutants are rejected for
  the right reason; a build settles; a build ends.
* setup: rebuilds exclude each other; a consumer verifies with the pinned
  distribution, whole, and nobody changes it under the verifier; nobody waits
  for ever; Z3 runs.
* debug-info repair: each function type keeps its arity, each argument ends
  with one name, members are in order and none is lost, a second pass changes
  nothing.
* kernel prototypes: no symbol is both defined and declared, each declaration
  carries the prototype the kernel's BTF gives it, the second run adds nothing.
* CO-RE lowering: all carriers are lowered or the output is not written; a
  relocation names the member the source named.
* field access: an address is that of the field the source names, in the object;
  what is read in a view of a profile is there; no reference is made of null.
* link: all that the program needs of its crates is linked, and nothing else.
* 128-bit multiply: no carry is lost.

## Modules

| module | what it is |
|---|---|
| `VerifiedBuild` | what `make` promises, without files: each request is refused, or answered by the verified product of the inputs as they are |
| `MakeBuild` | `rules.mk` run by GNU make; implements `VerifiedBuild` |
| `MCMakeBuild` | instances of it: a budget of disturbances |
| `MakeBuildProofs` | its theorems: the invariants, what a step may not do, the refinement |
| `VerusSetup` | `make verus` and `verus-clean` run by several consumers |
| `MCVerusSetup` | instances of it |
| `VerusSetupProofs` | its theorems |
| `LinkRounds` | the five rounds of `llvm-link` that make a program's bitcode whole |
| `Multi3` | `__multi3` of `multi3.ll`, which the link ends with |
| `MCLinkRounds` | instances of the two: programs over a few objects, one of which multiplies |
| `LinkRoundsProofs`, `Multi3Proofs` | their theorems |
| `Ksyms` | the symbols of one module over the two runs of `add_ksyms.py` |
| `KernelProto` | extends it with the prototypes of the declarations, and libbpf's comparison |
| `MCKsyms` | instances of both: the modules the script is given, and kernels |
| `KsymsProofs` | its theorems |
| `DebugInfo` | the metadata graph the post-processors share, and how they read it |
| `FieldView` | views and profiles as a program goes through them, on some kernel |
| `MCFieldView` | instances of it |
| `FieldViewProofs` | its theorems |
| `FieldAccess` | what the `btf` crates make of field accesses: calls and types |
| `FieldReloc` | `bpf-postproc`: calls to queries and accesses by index |
| `BtfFixup` | `btf_fixup.py`: its four passes over the graph |
| `PostLink` | these three composed, with LLVM and libbpf around them: from the source to the fields a kernel hands out |
| `MCPostLink` | instances of it: schemas, programs, kernels |
| `PostLinkProofs` | its theorems about the graph: references, lists, names, what the kernel takes |
| `PostLinkTargets` | its theorems about relocations: which fields they name, what loads |

### MakeBuild

*State.* `value` is what each input file holds: the sources of each crate, the
program, the userspace crate, the mutants' patches, and three inputs that are not
files: `Compiler`, the releases of rustc and LLVM, and `Config`, the variables of
the consumer's makefile, which together are what the toolchain stamp records
(`Recorded`, 629-639; some settings, `Unverified`, have `VERIFY=0`), and
`Tools`, the LLVM tools that are run, which it does not. For each target, `exists`, `newer[t]` (the
prerequisites written after it: the order of time stamps, which is all make
looks at), `made[t]` (the inputs and the values they had when the recipes that
led to it read them) and `outcome[t]`. make's own state is `phase`, `goal`,
`updated`, `jobs` and `reading`; it is lost when make ends or is killed, the
files are not.

*Actions.* `RunMake` begins a run; `Stamp` is the recipe of the toolchain stamp,
run each time, which replaces the stamp only when its content changed
(`rules.mk` 624-640); `PassOver` is make finding targets up to date; `Start(t)` and
`Finish(t)` are a recipe reading its inputs and writing its target, up to `Jobs`
of them at a time; the recipe of the tools cargo builds (`CargoTools`, 240-254)
only runs `cargo build`, which leaves what it made of the same compiler as it is,
time stamp included (`CargoFresh`); `Fail(t)` is a recipe whose command, or whose
`check_verified` (181-189), fails; `Exit` ends the run. `Edit`, `clean`,
`distclean` and `Kill` are the user's. The prerequisites of each rule are
`FilesRead` (what the recipe reads) and `VerifyDeps` (`VERIFY_DEP`,
`USER_CORE_DEP`, `$(c)_VERIFY_DEP`: the prerequisites that only order a
compile after the verification). A Verus run has one of four outcomes, because
the makefile tells four apart: `verified`, `errors`, `declined` (exit 0 and no
results line) and `nobuild`.

*Abstractions.* `libcore`, `compiler_builtins` and `libbtf` are one target
`Runtime`, and the macro library and `bpf-postproc`, both built by cargo, one target
`CargoTools`: within each group all are rebuilt for the same reason, except that a new
LLVM alone has cargo rebuild `bpf-postproc` and not the macros. The
`.rlib` of a crate for the host is written with its `.vir` by the same Verus run.
`reloc.bc`, `opt.bc` and `ksyms.bc` are read by the next rule only and are inside
the recipe of the object; what the recipe of `linked.bc` does is `LinkRounds`.
`lint-trusted` is an order-only check before it; when
it fails, the recipe fails. A chain of crates, each importing all the earlier
ones, stands for the import graph, which `rules.mk` derives from the order of
`LIB_CRATES` in the same way (110-113).

*When nothing is left to do.* After the stamp was replaced for a reason cargo does not
go by (`VERIFY`, `KEEP_SYMS`, a source directory), its target stays older than the
stamp, and each make runs cargo's recipe again. What depends on the target is not
remade: GNU make looks at the file's time again when the recipe has ended, and compares
that, as it does with the toolchain stamp, whose recipe runs each time and counts on
it (640). So `NothingToDo` is not that no recipe runs but that none but the stamp's
and cargo's does, and that these write nothing (`Settled`). Only later compilers
replace one: cargo keeps what an earlier one made, and would put it back with its old
time stamp.

*Disciplined environment.* `Spec` assumes of the environment what the recipes do
not guard against: nobody saves a source while make runs; Verus leaves no `.vir`
when it reports errors; the link is not cut short; the tools stay the same. Verus and
the LLVM tools are let go in the two violation runs `vir_left` and `tool_switch`. A
link cut short and a save during a build are not modelled: see *Seen while
modelling* for the first; as to the second, make compares time stamps only, so
a source saved between the start and the end of its verification is older than
the stamp and is taken for verified, which any build run by make has for a limit.

### VerusSetup

*State.* `pc[p]` is where consumer `p` is in the recipes of `z3` and `verus`;
`handle[p]` the inode behind its descriptor 9 and `lockfile` the inode the path
names, so that removing the lock file can be told from unlocking it; `key[p]` the
key `p` computed under the lock (`Makefile` 42-46); `dist[c]` what each file of
the distribution was built for; `stamp`, `z3`, and `pin`, the state of the Verus
checkout. *Actions:* `Begin`, `FetchZ3`, `InstallWheel`, `OpenLock`, `Acquire`,
`LeaveCurrent`, `StartVargo`, `Replace(p, c)` (vargo replaces one file),
`VargoDone`, `Record`, `Verified` and `Stop` (any command fails, or a kill, at
any of these places); `Advance` moves the pin forward and `verus_clean` removes
the distribution, both while no consumer is active.

### Ksyms

*State.* `defs` and `decls` are the functions the text of the module defines and
declares, each with the name it has and the name its debug info gives it, which
is the name in BTF; `calls` the names called, `terms` the terminators BPF lacks
that occur. The script's own state is `defined` (`defined_syms`, computed before
anything is renamed) and `extra` (`extra_decls`, appended when the file is
written, so that no substitution of the same run sees it); `spNew` marks the
debug info made in this run, which for the same reason escapes the renaming.

*Actions.* One per substitution, in the script's order: `Tag`, `LowerMem`,
`RenameLibcalls`, `LowerTrap`, `DropDefinedDeclares`, `LowerResume`,
`MarkStatic`, `LowerTerminators`, `WriteOut` (`add_ksyms.py` 342-577); between
the runs `SimplifyCfg`, external, which may drop any calls and bring in an
`unreachable`; `Assemble` is `llvm-as`, which accepts a module in which every
name is introduced once. Text and attributes are left out, prototypes are in
`KernelProto`; a parenthesis in a name is kept (`paren`), since a pattern stops at it.

*Which modules.* `Plain` modules do not use the names the script introduces for
something else; that is what a Rust program without a libc of its own hands
over. `ksyms_copy` takes modules that are not. In the run `ksyms` no debug name holds
a parenthesis; `ksyms_tuple` is about one that does.

### KernelProto

`Ksyms` with two more variables, which the script does not change: `build`, the
BTF files of `KSYM_BTF_FILES`, vmlinux first, each with its types and functions,
and the signatures of the declarations in the module; and `dumped`, the files
`bpftool` could dump, any of them. `NodeIn` is the lookup of an id in a module
file and, failing that, in its base, which the script takes to be the first file
it could dump (`maps[0]`, `add_ksyms.py` 61-118). `di_from_kernel` mirrors a
prototype, without its modifiers and no deeper than eight levels (169-252);
`di_from_ir_sig` is the fallback for a function no file has (258-298). `Compatible`
is external: libbpf's comparison of a declaration with the kernel's function,
which tells only the kinds and the number of parameters apart, and does not know floats.
Both follow types by levels: `MirrorOf` by the levels that are left, as the `depth` of
the code counts them up; `Compared` is the pairs of types libbpf gets to within so many.
`Skip` follows as many modifiers as the loop in `resolve` does, 33, and leaves the last
one where there are more. `Fits` says which types the mirror is meant for: those that end
within its depth, in kinds libbpf compares.

### LinkRounds and Multi3

*State.* `linked`, the symbols `linked.bc` defines; `loaded` and `todo`, those of
the module a running `llvm-link` has in memory and the objects it has still to go
through; `round`, and how many rounds were `lost`. *Actions.* `Copy`, `StartRound`,
`LinkObject`, `EndRound` and `LinkMulti3` are the lines of the recipe (`rules.mk`
436-443); `RoundFails` is a round whose `llvm-link` fails, which the loop passes
over unless it is the last. `find` lists the objects in any order, another in
each round. `OnlyNeeded` is external: what `--only-needed` takes of an object, which
is what is undefined in `loaded` and what that needs within the object. `Within(p,
n)` is what can be reached in `n` hops from object to object; it is given as a
table, and `LinkAssumption` says what it has to be.

`Multi3` is `__multi3`, line by line, on words of four digits to the base `B`
(2^32 in the file); registers keep two digits and drop what is above. The
instance calls it where a program of `LinkRounds` has it linked.

### FieldView

*State.* `view`, what the program holds: the root schema, the path of fields from
it, the schema (or type) it is at, the mode, and the base pointer; only the base
exists when the program runs, the rest is in types. `witnesses`, the profiles
`detect()` found; `last`, the last terminal operation and its result; `kernel`, which
is chosen first and answers each query when the program is loaded. *Actions:*
`Accessor` and `ViewAccessor` (the methods `#[btf]` makes of fields), `ProbeRoot`,
`detect` and `ProfileView` (of `btf_profile!`), `exists`, `get` and `as_ptr`. What rustc
refuses for a missing trait is a guard: `AccessMode` (`get` in a probe view),
`InModule` (a profile and a schema of another module), `OfValue` (`get` of an
aggregate). `written` is the path as the source writes it; nothing but the
properties reads it. `__btf_probe` is hidden from the documentation and public, so
a program may use it (`ProbeRoot`).

What a profile promises is an assumption about kernels the macro's user makes
(`KeepsPromise`), not one of the model: the instances have a kernel on which the
profile is wrong.

### DebugInfo, FieldAccess, FieldReloc, BtfFixup, PostLink

*State.* `md` maps the id of a metadata node to its body: composites, derived
types, basic types, subprograms, variables, blocks, and the tuples that are
their lists, which several nodes may share. `code` holds the calls of field-info
polyfills and what becomes of them: a call, then (`FieldReloc`) a query with the
type and the index of each step, then (LLVM) a relocation of a root type and an
index path. `source` keeps what the program asked for; no pass reads it, the
properties do. `at` is the call `bpf-postproc` looks at; `visited` and `extra` are
the subprograms pass 4 of `btf_fixup.py` has seen and the nodes it has made, which are
added when the file is written. `stage` is the place in the pipeline, `kernel` the
set of fields of the kernel the program is loaded for.

*Actions.* `Init` is the module rustc makes of a program (`FieldAccess`): a carrier
and its markers for each `#[btf]` struct, a helper instance for each access,
whose second parameter's type is the chain `FieldPath<FieldPath<RootPath, ..>, ..>`
that alone says which field is meant. A field is of a primitive type, a schema, a
pointer, also to a schema, whose carrier then refers to itself, or an array;
pointers and arrays end a path. `PassOver`, `lower_polyfill`, `GiveUp` and
`WriteModule` are `field_reloc.rs` 82-107 and `main.rs`: the calls of a function are
collected before any is erased, so the iterators of `llvm.rs` reach each of them
(`Following`), and the first call that cannot be lowered ends the program and
nothing is written. All its errors
(wrong number of arguments, no helper around the call, no carrier, no such
field) have the same consequence and are one action. `opt` (external) makes
relocations of the queries. `SanitizeNames`, `RecodeBasicTypes` and `SortMembers`
are one step each, `NameParameters(sp)` one step for each subprogram, in any order,
and `WriteFixed` the end of `btf_fixup.py`. `Load` (external) is `llc`, libbpf and the
kernel: the BTF has to pass the kernel's checks, and every offset that is
reached has to be of a field the kernel has.

*Abstractions.* Ids say what a node is (`<<"carrier", s>>`) instead of being
numbers. The functions on names (the carrier prefix taken off, the characters
BTF lacks replaced, the flavor taken off) are constants, given as tables: what
matters is which names they leave alone and which they make equal. The
`DISubroutineType` between a function and its list of types is left out, and so
is padding: the offsets in a `#[repr(C)]` carrier grow as declared with or
without it. Members of zero size are in, since they have equal offsets. A query
below a branch carries the queries that branch tests (`after`), which stands for
the control flow of `detect()`.

## Runs

| run | shows |
|---|---|
| `build` | two crates, a userspace crate and the program, `-j2`, VERIFY on and off, two compilers, three disturbances anywhere in an unbounded number of makes: `ObjectFresh`, `ObjectVerified`, `CleanMeansCurrent`, `DeliveredIsSettled`, `StaysSettled`, `VerifiedFirst` |
| `build_refines` | one crate, a mutant, goals `all` and `verify`, `-j2`, two compilers, two disturbances: `ImplementsVerifiedBuild` (liveness included), `MakeReturns`, `MutantsRejected` |
| `setup` | three consumers, a distribution of three files of which two are tested for, two pins, Z3's release binary not running here: `Exclusive`, `UsesPinned`, `NotUnderAVerifier`, `SetupEnds` |
| `link` | every way to spread two functions over two objects and let them refer to each other, chains of functions in three, five and six objects, a crate with a `__multi3` of its own, a program that multiplies; `find` listing the objects in any order (of the chains: first to last or last to first), any round failing: `EachRoundReaches`, `NothingLeftBehind`, `NothingUnneeded`; and every product of two words of four digits to base three: `ProductExact` |
| `ksyms` | every `Plain` module over an entry point, a subprogram, the two arena helpers, six callees and three terminators: `NoClash`, `CallsResolve`, `SecondRunAddsNothing`, `NothingLeft`; one module on every kernel of `TheBuilds`, with any of the BTF files not dumped: `MirrorResolves`, `ScalarsResolve` |
| `views` | any sequence of accessors, queries, reads and detections in five schemas and two profiles on six kernels: `RequiredReadsExist`, `AddressIsField`, `NullNotReferenced` |
| `postlink` | programs with up to two probes and two accesses in two schemas of one kernel struct, with a pointer and an array in them, Rust types with members out of order, functions with named, unnamed and unlisted arguments, malformed calls, three kernels: `RelocsNameTheSource`, `NothingHalfLowered`, `KernelTakesBtf`, `RequiredLoads`, `ListsKept`, `ArgumentNamesKept` |
| `vir_left` | violation of `ObjectVerified`: see findings |
| `tool_switch` | violation of `ObjectFresh` |
| `ksyms_copy` | violation of `NoClash` |
| `ksyms_tuple` | violation of `InternalIsStatic` |
| `ordinary_get` | violation of `OrdinaryGetAsks` |

*Why the bounds are enough.* Two crates are the least for which a crate is both
imported and importing; two versions are the least for which a stale value can
be told from a current one, and no rule looks at more than one earlier value.
Two compilers are the least with which cargo has something to do; each behaviour begins
with the first (`MCInit`), since one that begins with the last never replaces it; and
all sources begin with the same version, since versions of one are never compared with
those of another.
Two jobs are the least for which a compile can overtake a verification. Three
disturbances allow a build without verification, a reconfiguration, and a kill
or failure in the build after it. Where the proofs reach, the bounds do not
matter. In `setup`, three consumers are one more than needed for one to wait
while another builds and a third verifies; three files let the mixture of a
half-done rebuild pass the test of the two the makefile looks at.

`ksyms` takes each name the script treats in a way of its own once, and every
combination of them; names it does not know are all treated alike, so one
kernel function and one subprogram stand for all. The kernels have the function in
vmlinux, in one module, in two, or in one without a base; its prototype has types
of every kind, behind a modifier or not, pointers to pointers as deep as the
mirror goes and deeper, and ids that mean something else in another file. In
`link`, six objects in a chain are one more than five rounds reach when `find`
lists them last to first, and five just what they reach; two objects are the least
in which what one takes is needed of another it came before, and are spread in
every way. Base three is the least with a digit that is neither none nor the
largest; the proof is for every base. In `views`, the kernels have what the old
schema declares, the new, both, neither's own fields, a subset, and what misleads
a profile. In `postlink`, the two schemas
`task` and `task___new` declare the same members in different orders, so that an
index taken in the wrong one names another field; a path of two steps is the
least with an inner struct; `se` begins with a member of no size, so that two
members have one offset; the Rust type has its members in and out of order, at
equal offsets, and with a method and a base class between them; the functions
have all, some or none of their arguments named, no list, an empty list shared
with another function, or an argument without a type. The kernels have all fields, all
but the inner one, and neither `pid` nor the inner ones.

*Fairness.* `MakeBuild`: weak fairness of what make does once asked. Recipes run
commands that end; nothing in `rules.mk` waits for the user or for another make.
`VerusSetup`: weak fairness of each consumer's own steps for the same reason, and
strong fairness of `Acquire`: the kernel queues those that wait for a file lock,
so a waiter gets it although others take and release it in between. There is no
fairness on edits, kills, failures or pulls. `Ksyms`: weak fairness of its next
step, the script being a sequence; `PostLink`, `LinkRounds` and `FieldView` have
safety properties only. All but the last end in a last state or in a failure, where
nothing more happens; their configurations do not check for deadlock.

## Findings

* `vir_left`. The recipe of a `.vir` has Verus write the target and looks at the
  log afterwards (`rules.mk` 296-303). There is no `.DELETE_ON_ERROR`: when the
  log says errors, or that Verus declined the crate, the recipe fails but its
  target stays, newer than its sources, and the next make compiles the crate as
  verified.
* `tool_switch`. The stamp records `LLVM_PREFIX` but not `LLC`, `OPT`,
  `LLVM_LINK`, ... which can each be overridden; nothing is rebuilt then,
  although `TOOLCHAIN.md` 90-91 says that selected tools are covered.
* `ksyms_copy`. `defined_syms` is computed (377) before `memcpy` is renamed to
  `bpf_arena_memcpy` (417-421), and the declarations the script makes are added after the
  clashing ones were dropped: a module that defines `memcpy` and uses
  `llvm.memcpy` ends with `bpf_arena_memcpy` both declared and defined, which 373-376
  exclude.
* `ksyms_tuple`. The pattern that finds the `DISubprogram` of an internal function
  stops at the first `)` (500), also when that is in its name, as in that of a
  generic function of a tuple; the function stays global in BTF, although 492-494
  say that every internal function is marked.

* `ordinary_get`. `btf/src/lib.rs` 379 says that ordinary views return an option
  "after an existence query"; `get` makes none (431-435) and wraps the address in
  `Some`. Where the field is missing, libbpf poisons the instruction and the program
  does not load. `RequiredReadsExist` and `RequiredLoads` are about required views
  only for that reason.

Seen while modelling, and not the subject of a run:

* `linked.bc` starts as a copy of `prog.bc` and is linked into in place (`rules.mk`
  437-443): when the last `llvm-link` fails, or make is killed, an unlinked file newer
  than its prerequisites remains. A failed round before the last is passed over.
* While vargo replaces files the old stamp stays (`Makefile` 54-55): if it fails half
  way and the pin goes back to the one of the stamp, a mixture is called current.
* `get-z3.sh` puts the binary in place before it is tried (`Makefile` 59-71); if the
  wheel cannot be fetched then, the next make skips the target and a binary that does
  not run stays.
* `as_ptr` of a probe view, which only the hidden constructor makes, gives an address
  relative to null (`btf/src/lib.rs` 57-62, 331, 404); `NullNotReferenced` is about
  references.
* The fallback for a prototype splits the arguments at every comma, also at one within
  an attribute such as `range(i64 1, 0)`, and then has a `void` parameter too many;
  `ScalarsResolve` excludes it (`Scalars`).
* `add_ksyms.py` 344 looks up the prototype of a libcall under the name it has before
  it is renamed: `bpf_arena_memcpy`, which returns nothing, gets `memcpy`'s, which
  returns a pointer.
* A prototype is mirrored eight levels deep and has void below (`add_ksyms.py` 172-173),
  where libbpf compares on, although 14-18 call it "compatible by construction"; and a
  vmlinux that cannot be dumped makes the first file that can be `maps[0]` (79-80), the
  base of all others (116-117): an id of vmlinux is then not there, which is void, or is
  a type of the wrong file. Either function does not resolve; on the instances of
  `MCKsyms` TLC finds both when the conditions of `MirrorResolves` (`Fits`, and vmlinux
  dumped) are dropped. With them it is true, and proved.
* `multi3.bc` is linked before `llc` makes the calls of `__multi3`: if nothing in the
  bitcode refers to it by then, a pass that drops unreferenced functions may drop it.
* `btf_fixup.py` 260 appends variables to a list that may also be the empty
  `elements` of a type.
* `lint_trusted.py` skips lines that begin with `*`, which can also be code.
* Two consumers that share `DEPDIR` share `extracted/`: one may remove what the other
  is linking from (`rules.mk` 426).

## Proofs

`MakeBuildProofs`, for any number of crates, mutants, versions and jobs
(`ConstantsOK` is all that is assumed):

* `TypeCorrect`, `CleanIsCurrent`, `DeliveredSettled`, `ObjectIsFresh`,
  `ObjectIsVerified`: `Spec => []P` for the properties of the same names.

The inductive invariant is `IInv == TypeOK /\ RunInv /\ CleanMeansCurrent /\
OutcomeInv`. `CleanMeansCurrent` alone is not inductive: a job that is running
has read its inputs some time ago, so `RunInv` says that what it read is what it
would read now (nothing it reads may be written while it runs, since its
prerequisites are in `updated` and no target in `updated` is written again), that
the targets in `updated` are settled, that is, up to date with their prerequisites or
made by cargo with the compiler there is, and what a finished run has left. All
other targets in `updated` know both things the stamp records (`Knows`): what depends on
the stamp gets them from there, what does not from a target that does, and never from
cargo's alone. `OutcomeInv` says that every file but `linked.bc`, which is
written in place, came from a recipe that passed: a `.vir` from a run that verified,
a mutant's log from one with errors. From the invariant to `ObjectFresh` is an
induction along the crates, which compares the content of each target with
`FromScratch` from the bottom up; it is a least-counterexample argument (`Smallest`):
take the first crate whose target is wrong, look at its prerequisites.

From the same invariant:

* `EveryMutantRejected`: `Spec => []MutantsRejected`.
* `VerifiedBeforeCompiled`: `Spec => VerifiedFirst`. When a compile starts, the
  verification of its crate is in `updated`, is therefore clean, and what it read is
  what the compile reads.
* `SettledStays`: `Spec => StaysSettled`. Only a recipe that ends could bring something
  new, and `JobsPending` adds to the invariant that what a job is about to write is still
  behind: its target, or, as the recipe of `linked.bc` writes that at once, the object.
  So where all that `make all` needs is up to date, a job's target is not
  needed for it (`make verify` has such), and nothing needed is made of it.
* `DeliversTheVerified`: each behaviour is step by step one of `VerifiedBuild`, by the
  refinement mapping of `MakeBuild`: an edit or a clean is a `Change`, the start of a run
  an `Ask`, the end of a successful `make all` a `Deliver` (what `ObjectFresh` and
  `ObjectVerified` are needed for), every other end, and a kill, a `Refuse`; all recipes
  stutter.
* `BuildRefines`: `Spec /\ MakeReturns => ImplementsVerifiedBuild`. That each run ends
  is liveness under fairness and stays with TLC, which checks both formulas; the theorem
  says that nothing else of the refinement does.

`VerusSetupProofs`, for any set of consumers, pins and files: `TypeCorrect`;
`MutualExclusion` (invariant: the processes in the locked part share the inode
`lockfile`, because the file is only removed while all are idle);
`RightVerifier` and `VerifierUndisturbed`, under `OneConfig` (all consumers have
one setup configuration; without it they rebuild under each other, which is what
`Makefile` 44 asks for). Their invariant says what the stamp means: when it
equals the current key, every file of the distribution was built for that key and
nobody is rebuilding; and no stamp names a pin that is still to come, which is
where going back to an older pin would break it.

`PostLinkProofs`, for any programs, schemas, names, kernels and number of nodes:

* `AllLowered`, `Spec => []NothingHalfLowered`. The property looks at modules that were
  written, and is not inductive; `Progress` adds that while the pass goes on, there is no
  polyfill call in front of `at`, that no step changes how many calls there are, and that
  `opt` turns a query into a relocation and nothing into a call.
* `TypeCorrect`, `BtfTaken` (`KernelTakesBtf`), `ListsStay` (`ListsKept`) and
  `ArgumentNamesStay` (`ArgumentNamesKept`), all from one invariant, `GraphInv`. It
  cannot be about `md` alone: pass 4 refers from it to nodes that it has only put in
  `extra`, so the invariant is about `Nodes == md ++ extra`, what would be written if the
  pass ended now. It says what each pass has established and the later ones leave alone:
  references lead to nodes, allowed names, allowed encodings. `Pass4` is what
  holds in the middle of the last pass: no list has two variables of one argument, each
  node in `extra` was made for a visited subprogram, and each
  argument of a visited subprogram is shown with a name. The last is the one that
  another subprogram with the same list could break; it does not, because variables are
  only added at the end of a list, and only for arguments no variable in it names.
  `ListsKept` and the order of members rest on `Ranking`: in a finite set with a strict
  total order, the numbers of elements below are 0 to the size less one, each once, so
  that sorting by them is a permutation of the members among their slots.
  `ArgumentNamesKept` allows pass 1 to sanitize the name.

`PostLinkTargets`, for the same:

* `TargetsRight`, `Spec => []RelocsNameTheSource`. Its invariant is `TargetInv`. `Held` is
  what no pass may change: each carrier has its list, the list its members in the order
  of the declaration, and each member its name and type; derived types and blocks lead
  where they led; and no function's list of variables is a list of members (`Apart`),
  or pass 4 would add to it. `Carries` says of a step what keeps that, and is proved of
  each pass. Sorting leaves carriers alone because a `#[repr(C)]` struct has its fields in
  the order of their offsets (`OffsetsGrow`, `OrderedSame`). `Meant` says that a call that
  is left is one of an access whose helper, path types and markers are as the macros
  made them, or is none (`Other`); lowering it then finds the path the source wrote
  (`PathNames`), and the members it leads through (`PathSteps`). `RightInstr` says that
  a query or relocation has the carrier of the root for type, with the name of the
  struct, and for indexes the places of the fields in their declarations; `NamesAlong`
  follows them back to the names. `OtherFails` is the other half: nothing is made of a
  call that no access is behind.
* `RequiredLoad`, `Spec => []RequiredLoads`, from `TargetsRight`, `CodeInv` (what a
  program requires is behind each probe of its profile) and what `BtfTaken` says.

`FieldNames` follows the types of a path up to its root, `UnderlyingComposite` and
`HelperOf` follow references that might go round: as recursive functions they have a
value where there is a function that satisfies their definition, and `Walks` shows that
there is one also on a graph with cycles, since a node from which the walk never ends may
have any.

That the module rustc makes of a program satisfies `GraphInv` is proved for the nodes the
`btf` crates are behind (`AccessNodes`: carriers, markers, helper instances and path
types). What is assumed of the constants: `NodesAssumption`, that the same holds of the
program's own nodes, and these are none of the former; it says what LLVM's debug info of a
Rust crate is (references lead to nodes; a function's list of variables has each argument
once, and is not a list of types; only structs, unions and variants have members), none
of which the passes test.
`SanitizedAssumption`, that what `sanitize` makes is made of allowed characters
and that allowed names are left alone, as its pattern has it. `LayoutAssumption`, that
the fields of a struct are a list with offsets, which in Rust is to say that no struct
contains itself. `ProgramsAssumption`, that only `detect()` probes and that what a
profile requires is read under its `detect()`, as the macros write it; that each field of
a path is declared in the struct the one before has for type (`WellTyped`), or rustc
refuses the access; and that other calls are of other functions, or in functions whose
first parameter is no pointer. `NamesAssumption`, that struct and field names are
allowed in BTF and only carriers have the prefix of carriers, which nothing enforces: a
struct declared as `__BtfCarrierForX` would get two prefixes and lose both, one with each
access.

`LinkRoundsProofs`, for any program, any number of objects and symbols, and `find` listing
the objects in any order (`LinkAssumption`): `TypeCorrect`, `RoundsReach`, `NoneLeftBehind`
and `OnlyWhatIsNeeded`, which are all properties of `LinkRounds` the run `link` checks.
What matters is one object (`ObjectReaches`): whatever else has been loaded in the
meantime, after an object is gone through, what the symbols loaded at the start of the
round need of it is there. The invariant says so of the objects a round has behind it,
and of `linked` between rounds that it contains `Within` of the number of rounds that
succeeded. `NoneLeftBehind` follows at the fixed point: when five hops reach what six
do, what is linked is closed.

`FieldViewProofs`, for any schemas, profiles and kernels: `TypeCorrect`,
`AddressesAreOfFields`, `NoNullReference` and `PromisedReads`. The invariant, `PlaceInv`,
relates the path in a view's type to the one the source wrote and its base to its mode,
for the view that is held and the one the last operation was on. For `PromisedReads`
(`RequiredReadsExist`), `ReadInv` says that each field of a view's path is one of the
schema the path has got to, that a view in a profile's mode has a witness and starts in a
schema of its module, and that what a witness's discriminators ask for is there. The
schemas the promise is about are closed under the fields in them, so a path that
starts in one stays in them (`PromisedPath`). The type and the offset of a path are
functions by recursion along it; `Counting` (a set with zero and the successors of its
members has all numbers) is the induction that shows they are defined for every length.

`Multi3Proofs`, for any base: `ProductsExact`. The sums of the middle products are bounded
(`Halves`: a product of two digits leaves room for two more digits), so none is cut;
what `shl` drops is what `mulhu` has counted; and sums modulo a register agree with
those of whole numbers (`AddModulo`).

`KsymsProofs`, for any names, functions and combination of what is to be lowered:
`TypeCorrect`; and, when all modules are plain (`PlainOnly`), `NamesIntroducedOnce`,
`EveryCallResolves`, `SecondRunIsIdle` and `AllIsLowered`, which are the four properties
of the run `ksyms` about symbols. One invariant, `Safe`, proves all: what is gone
after a substitution stays gone in the second run, therefore the second run's
substitutions find nothing; before the renaming no declared name is one the script
introduces, therefore it makes no two names equal; what is about to be declared is neither
defined nor declared; and the name in the debug info of a declaration is, up to the
renaming that reaches it a run later, the name it has. `PlainOnly` cannot be left out:
`ksyms_copy` has modules without it.

And for any kernels, with any types in any number of files, and whatever could not be
dumped: `MirroredResolve` (`ProtoSpec => []MirrorResolves`) and `DerivedResolve`
(`ProtoSpec => []ScalarsResolve`). Both rest on `Simulation`: libbpf takes two types when
they are in a set of pairs that match, each of which is made of pairs of the set. For a
mirrored prototype these are a type within the kernel's and its mirror with as many levels
as are left there (`MirrorCompatible`): the two agree in kind because the first file
dumped is vmlinux, so that ids and modifiers lead both to the same type, and at the depth
the mirror ends at there is nothing but void. For a derived one they are a scalar and what
`one` makes of it (`ScalarsCompatible`). `SameFile` says that a name is found in the file
libbpf finds it in, and `TypeFound` that there is a prototype there, so that nothing is
derived. The definitions that follow types recur over numbers up to a bound; that such
functions exist is `IterationExists`. `BuildsAssumption` says what the BTF of a kernel is:
ids from one on, function types that are prototypes in the same file or in vmlinux, and
lists of parameters.

*Only model-checked*: liveness (`MakeReturns`, `SetupEnds`, and with them the `Answered`
half of `ImplementsVerifiedBuild`), which rests on fairness and `ENABLED`. Every invariant
and every action property a passing run checks is a theorem.

## Not modelled, and the plan

Next:

1. Two consumers over one `DEPDIR`, in `MakeBuild`; `verus-clean` during a setup, in
   `VerusSetup`, for which the lock file's inode is there already.
2. In `PostLink`, lists shared between a type and a function.

Left out, and why:

* `lint_trusted.py`: one pass over the lines of a file with no state but the line
  before. What could be wrong in it is which text its patterns match, which is a
  matter of characters; a model would be a copy of the patterns.
* `gen_rust_project.py` formats one file for editors from its arguments.
* `USER_BIN`, the userspace binary: rules of the same form as the userspace crate's,
  which is modelled, at the end of the graph. `verify-mutants` is a prerequisite of
  `verify` in the model and not a goal of its own.
* Modules in subdirectories that `$(wildcard)` does not see (`rules.mk` 280): a crate is
  one input file, as it is for the rule.
* Reading and parsing of modules by `bpf-postproc` and the errors of the macros'
  parsers: they end the program before anything is changed.
* The target JSON, Cargo files and fixtures, which are data.
