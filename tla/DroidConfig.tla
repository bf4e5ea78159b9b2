------------------------------ MODULE DroidConfig ------------------------------
(***************************************************************************)
(* Config of core/config.py: droidos.yaml, read with miniyaml and merged   *)
(* over the defaults. It is what BootConfig takes as ConfigOf, and         *)
(* MiniYaml's reader and writer are what it takes as YamlLoad and          *)
(* YamlDump.                                                               *)
(***************************************************************************)
EXTENDS BootConfig, MiniYaml

CONSTANTS
    SystemDefaults,  \* DEFAULT_SYSTEM_CONFIG
    Paths            \* key sequences asked for with Config.get

(* _deep_merge *)
RECURSIVE DeepMerge(_, _), MergeFrom(_, _, _)

MergeFrom(out, override, k) ==
    IF k > Len(override.entries) THEN out
    ELSE LET e == override.entries[k] IN
         MergeFrom(IF e.key \in Keys(out) /\ Lookup(out, e.key).kind = "map" /\ e.val.kind = "map"
                   THEN Put(out, e.key, DeepMerge(Lookup(out, e.key), e.val))
                   ELSE Put(out, e.key, e.val),
                   override, k + 1)

DeepMerge(base, override) == MergeFrom(base, override, 1)

(* Config.load: an empty file is an empty mapping. *)
ConfigLoad(c) ==
    LET loaded == Parse(c.text) IN
    IF loaded = None \/ IsEmpty(loaded) THEN SystemDefaults
    ELSE IF loaded.kind # "map" THEN Bad
    ELSE DeepMerge(SystemDefaults, loaded)

Missing == [kind |-> "missing"]

(* Config.get *)
RECURSIVE Get(_, _)
Get(node, path) ==
    IF path = << >> THEN node
    ELSE IF node.kind # "map" THEN Missing
    ELSE IF Head(path) \notin Keys(node) THEN Missing
    ELSE Get(Lookup(node, Head(path)), Tail(path))

-----------------------------------------------------------------------------
(* What must hold *)

AsWritten(c) ==
    \A path \in Paths :
        LET written == Get(c.doc, path) used == Get(Loaded[c], path) IN
        CASE written.kind = "map"     -> used.kind = "map"
          [] written.kind = "missing" ->
                \/ used = Get(SystemDefaults, path)
                \/ \E k \in 1 .. Len(path) - 1 :     \* cut off by a value further up
                      /\ Get(c.doc, SubSeq(path, 1, k)).kind \notin {"map", "missing"}
                      /\ used = Missing
          [] OTHER -> used = written

FilesAsWritten == {c \in DOMAIN Loaded : Loaded[c] # Bad /\ AsWritten(c)}

(* The configuration is the one a reader of droidos.yaml expects: a value
   written there, at whatever depth and in whichever of the forms the parser
   supports, is the one that is used; a value that is not written there is the
   default. *)
ConfigIsAsWritten == (\E p \in Procs : pc[p] # "off") => conf \in FilesAsWritten
=============================================================================
