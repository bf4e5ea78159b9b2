----------------------------- MODULE MCBootConfig -----------------------------
(* BootConfig for TLC: two bodies, the packages with one defect each, and
   configuration files of up to three levels, written by hand in different
   styles. *)
EXTENDS DroidConfig, TLC

(* The name of the second one has to be quoted in body.yaml. *)
MCBodies == {"ig-mk1", "r2 #2"}
MCShipped == [body_id |-> "ig-mk1", backend |-> "simulation"]

(* A value that is cut off is None, which set_active writes as null. *)
MCKinds == {"simulation", "physical", "cut", "null"}

Pair(k, v) == [key |-> k, val |-> v]

MCSystemDefaults ==
    Map(<<Pair("identity", Map(<<Pair("name", Str("IG-12")), Pair("voice", Str("m01"))>>)),
          Pair("user", Str("operator"))>>)

-----------------------------------------------------------------------------
(* droidos.yaml as its author may write it: with more or less indentation,
   quotes where they are not needed, comments and blank lines, and lists in
   one line *)

Styles == [step : {2, 4}, quotes : BOOLEAN, comments : BOOLEAN, flow : BOOLEAN]
PlainStyle == [step |-> 2, quotes |-> FALSE, comments |-> FALSE, flow |-> FALSE]

NeedsQuotes(text) == text \in QuotedTexts \cup NullTexts \cup BoolTexts \cup NumberTexts

IsNested(v) == v.kind \in {"map", "list"} /\ ~IsEmpty(v)

RECURSIVE Token(_, _)
Token(v, style) ==
    CASE v.kind = "list" -> Flow([k \in 1 .. Len(v.items) |-> Token(v.items[k], style)])
      [] v.kind = "map"  -> Plain("{}")
      [] v.kind = "scalar" ->
            IF v.type = "str" /\ (style.quotes \/ NeedsQuotes(v.text)) THEN Quoted(v.text)
            ELSE Plain(v.text)

InOneLine(v, style) ==
    v.kind = "list" /\ style.flow /\ \A k \in 1 .. Len(v.items) : v.items[k].kind = "scalar"

(* a line, which may have a comment behind it and one in front of it *)
Typed(line, style) ==
    IF style.comments THEN <<Noise, [line EXCEPT !.rest = Commented(@)]>> ELSE <<line>>

RECURSIVE Written(_, _, _, _)

(* An entry of a mapping, the first one of an item behind its dash; an entry
   without a value is null. *)
WrittenEntry(e, indent, dash, style) ==
    LET line(rest) == Typed(Line(IF dash THEN indent - 2 ELSE indent, dash, e.key, rest), style)
        below      == indent + style.step
    IN  CASE e.val.kind = "text" ->
                line(Header(e.val.style))
                \o [k \in 1 .. Len(e.val.parts) |-> [e.val.parts[k] EXCEPT !.indent = below]]
          [] IsNested(e.val) /\ ~InOneLine(e.val, style) ->
                line(Nothing) \o Written(e.val, below, FALSE, style)
          [] OTHER -> line(IF e.val = None /\ ~style.quotes THEN Nothing ELSE Token(e.val, style))

Written(v, indent, dash, style) ==
    IF v.kind = "map"
    THEN FlattenSeq([k \in 1 .. Len(v.entries) |->
             WrittenEntry(v.entries[k], indent, dash /\ k = 1, style)])
    ELSE FlattenSeq([k \in 1 .. Len(v.items) |->
             IF v.items[k].kind = "map" /\ ~IsEmpty(v.items[k])
             THEN Written(v.items[k], indent + 2, TRUE, style)
             ELSE Typed(Line(indent, TRUE, NoKey, Token(v.items[k], style)), style)])

File(doc, style) == [doc |-> doc, text |-> Written(doc, 0, FALSE, style)]

-----------------------------------------------------------------------------
(* What it may say *)

Scalars == {Str("a: b"), Str(""), Str("12"), Str("true"), Scalar("number", "12"),
            Scalar("bool", "true"), None, List(<< >>), Map(<< >>)}
Texts   == {Text(style, <<Line(0, FALSE, NoKey, Plain("a")), Line(0, TRUE, "name", Plain("12"))>>) :
               style \in {"literal", "folded"}}
Items   == {List(<<Str("a: b"), Map(<<Pair("name", v), Pair("voice", Str("a"))>>)>>) :
               v \in Scalars \cup Texts}
           \cup {List(<<List(<<Str("a"), Scalar("number", "12")>>), None>>),
                 List(<<Str("12"), Scalar("number", "12"), Str(" a")>>)}
Deep    == {Map(<<Pair("name", v)>>) : v \in Scalars \cup Texts \cup Items}
Sections == Scalars \cup Texts \cup Items \cup Deep
            \cup {Map(<<Pair("voice", d), Pair("rank", Str(" a"))>>) : d \in Deep}

(* Each value in each place *)
Docs ==
    {Map(<<Pair("identity", s)>>) : s \in Sections}
    \cup {Map(<<Pair("user", s), Pair("identity", Map(<<Pair("name", Str("r2 #2"))>>))>>) : s \in Sections}
    \cup {List(<<Str("a")>>), Map(<< >>)}

MCConfs == {File(d, s) : d \in Docs, s \in Styles}

Keys0 == {"identity", "user", "name", "voice", "rank"}
MCPaths == {<<a>> : a \in Keys0} \cup {<<a, b>> : a \in Keys0, b \in Keys0}
           \cup {<<"identity", a, b>> : a \in Keys0, b \in Keys0}
           \cup {<<"user", a, b>> : a \in Keys0, b \in Keys0}

Gait == [declared |-> TRUE, file |-> TRUE, checksum |-> "this", thisBody |-> TRUE,
         revision |-> "this", fileRevision |-> "this", joints |-> TRUE, imu |-> TRUE,
         approved |-> TRUE]

Walker == [manifest |-> TRUE, sensors |-> TRUE, coherent |-> TRUE, biped |-> TRUE,
           moves |-> TRUE, gait |-> Gait]
Roller == [Walker EXCEPT !.biped = FALSE, !.gait = [Gait EXCEPT !.declared = FALSE]]

Walkers ==
    {Walker, [Walker EXCEPT !.manifest = FALSE], [Walker EXCEPT !.sensors = FALSE],
     [Walker EXCEPT !.coherent = FALSE], [Walker EXCEPT !.moves = FALSE],
     [Walker EXCEPT !.gait.declared = FALSE], [Walker EXCEPT !.gait.file = FALSE],
     [Walker EXCEPT !.gait.checksum = "other"], [Walker EXCEPT !.gait.checksum = "none"],
     [Walker EXCEPT !.gait.thisBody = FALSE],
     [Walker EXCEPT !.gait.revision = "other"], [Walker EXCEPT !.gait.fileRevision = "other"],
     [Walker EXCEPT !.gait.revision = "none", !.gait.fileRevision = "none"],
     [Walker EXCEPT !.gait.joints = FALSE], [Walker EXCEPT !.gait.approved = FALSE]}

Installed(w, r) == [b \in MCBodies |-> IF b = "ig-mk1" THEN w ELSE r]

MCSetups ==
    {[conf |-> File(MCSystemDefaults, PlainStyle), pkgs |-> Installed(w, r)] :
        w \in Walkers, r \in {Roller, [Roller EXCEPT !.manifest = FALSE]}}
    \cup {[conf |-> c, pkgs |-> Installed(Walker, Roller)] : c \in MCConfs}

(* droidos.yaml does not change, and all that the processes look at is whether
   it can be read. *)
ReadableAndRight ==
    <<Loaded[conf] # Bad, conf \in FilesAsWritten, pkgs, select, pc, sets, new, body, wanted,
      torn, asked>>

ProcSymmetry == Permutations(Procs)
=============================================================================
