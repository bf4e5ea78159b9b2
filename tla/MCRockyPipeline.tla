---------------------------- MODULE MCRockyPipeline ----------------------------
(* RockyPipeline for TLC: three calls on one database, an action for each    *)
(* outcome of the pipeline, among them a change labelled as read-only, and   *)
(* an owner who enables everything or what the repository enables.           *)
EXTENDS RockyPipeline, TLC

A(kind, risk, command) ==
    [kind |-> kind, risk |-> risk, command |-> command, pattern |-> FALSE, form |-> "valid"]

MCActions ==
    {A("debian.command", "read_only", "ls"), A("debian.command", "read_only", "mount"),
     A("debian.command", "write", "git"), A("memory.write", "write", "none"),
     A("memory.write", "read_only", "none"),
     [A("notify", "read_only", "none") EXCEPT !.form = "invalid"],
     [A("debian.command", "read_only", "ls") EXCEPT !.form = "odd"]}

MCCapSets ==
    {Capabilities, {"shell_read", "file_read", "memory_read", "memory_write"}}

CallSymmetry == Permutations(Invocations)
=============================================================================
