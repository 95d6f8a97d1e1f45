----------------------------- MODULE MCFieldView -----------------------------
(***************************************************************************)
(* Instances of FieldView for TLC: two profiles of one kernel struct whose *)
(* discriminators share a field, a schema without a flavor for the same    *)
(* struct, one embedded in all of them, and fields that end a path.        *)
(***************************************************************************)
EXTENDS FieldView

Schema(fields, module) == [fields |-> fields, module |-> module]

TheSchemas ==
    [task |-> Schema([pid |-> "u32", parent |-> "*const task", se |-> "se"], NoModule),
     task___old |-> Schema([state |-> "u64", se |-> "se"], "old"),
     task___new |-> Schema([pid |-> "u32", se |-> "se", cpus |-> "[u64; 2]"], "new"),
     se |-> Schema([on |-> "bool", avg |-> "avg"], NoModule),
     avg |-> Schema([load |-> "u64"], NoModule)]
TheEssential ==
    [task |-> "task", task___old |-> "task", task___new |-> "task", se |-> "se", avg |-> "avg"]

At(root, path) == [root |-> root, path |-> path]
TheProfiles ==
    [Old |-> [module |-> "old", probes |-> <<At("task", <<"se", "on">>), At("task___old", <<"state">>)>>],
     New |-> [module |-> "new", probes |-> <<At("task", <<"se", "on">>),
                                             At("task___new", <<"cpus">>)>>]]

Kernel(task, se, avg) == [task |-> task, se |-> se, avg |-> avg]
Se == [on |-> 0, avg |-> 8]
Avg == [load |-> 16]
\* An old one, a new one, one with what both have, one with neither's own field, one
\* of a subset of the fields, and one on which the profile of the new is wrong.
TheKernels ==
    {Kernel([state |-> 0, se |-> 64, parent |-> 128], Se, Avg),
     Kernel([pid |-> 4, se |-> 16, cpus |-> 80, parent |-> 160], Se, Avg),
     Kernel([state |-> 0, pid |-> 4, se |-> 16, cpus |-> 80], [on |-> 8, avg |-> 16], [load |-> 0]),
     Kernel([pid |-> 4, se |-> 16], Se, Avg),
     Kernel([pid |-> 4], <<>>, <<>>),
     Kernel([se |-> 16, cpus |-> 80], Se, Avg)}
==============================================================================
