------------------------------ MODULE YamlValues ------------------------------
(***************************************************************************)
(* What YAML texts and documents are made of (util/miniyaml.py): values,   *)
(* the tokens of a line, and lines. A text is a sequence of lines, a line  *)
(* is its indentation, its dash, its key and what follows the colon.       *)
(***************************************************************************)
EXTENDS Naturals, Sequences

-----------------------------------------------------------------------------
(* Values. A scalar is known by its Python type and its text. *)

Scalar(type, text) == [kind |-> "scalar", type |-> type, text |-> text]
Str(text)   == Scalar("str", text)
None        == Scalar("none", "null")
List(items) == [kind |-> "list", items |-> items]

(* The string of a block scalar, by its lines *)
Text(style, parts) == [kind |-> "text", style |-> style, parts |-> parts]

(* A dictionary keeps the order of its keys. *)
Map(entries) == [kind |-> "map", entries |-> entries]

(* MiniYamlError *)
Bad == [kind |-> "error"]

IsEmpty(v) ==
    \/ v.kind = "list" /\ v.items = << >>
    \/ v.kind = "map" /\ v.entries = << >>

Keys(m) == {m.entries[k].key : k \in 1 .. Len(m.entries)}

Lookup(m, key) ==
    m.entries[CHOOSE k \in 1 .. Len(m.entries) : m.entries[k].key = key].val

(* d[key] = val: a known key keeps its place. *)
Put(m, key, val) ==
    IF key \in Keys(m)
    THEN Map([k \in 1 .. Len(m.entries) |->
                 IF m.entries[k].key = key THEN [key |-> key, val |-> val] ELSE m.entries[k]])
    ELSE Map(Append(m.entries, [key |-> key, val |-> val]))

-----------------------------------------------------------------------------
(* Tokens: what stands behind a colon or a dash *)

Plain(text)    == [form |-> "plain", text |-> text]
Quoted(text)   == [form |-> "quoted", text |-> text]
Flow(parts)    == [form |-> "flow", parts |-> parts]
Header(style)  == [form |-> "header", style |-> style]
Nothing        == [form |-> "nothing"]

(* with a comment behind it *)
Commented(token) == [form |-> "commented", token |-> token]

(* A line with a key is one in which the parser splits at a colon. One without
   a key is bare text or, with a dash, a scalar item. *)
Line(indent, dash, key, rest) ==
    [indent |-> indent, dash |-> dash, key |-> key, rest |-> rest]
NoKey == ""
=============================================================================
