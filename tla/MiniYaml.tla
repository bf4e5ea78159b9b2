------------------------------- MODULE MiniYaml -------------------------------
(***************************************************************************)
(* The YAML subset of util/miniyaml.py: the recursive parser of block      *)
(* mappings, block lists, block scalars and inline lists; and the dumper,  *)
(* for the mappings of scalars it is given, the body selections.           *)
(***************************************************************************)
EXTENDS YamlValues, SequencesExt

-----------------------------------------------------------------------------
(* Scalars *)

(* Texts that _scalar does not read as strings, and texts that
   _dump_scalar puts in quotes *)
NullTexts   == {"null", "~", "None"}
BoolTexts   == {"true", "True", "false", "False"}
NumberTexts == {"12", "0.5"}
QuotedTexts == {"", "a: b", " a", "r2 #2"}

(* Without quotes a comment, and the blanks around a text, are lost. *)
Stripped(text) == CASE text = "r2 #2" -> "r2" [] text = " a" -> "a" [] OTHER -> text

(* _scalar *)
RECURSIVE Read(_)
Read(t) ==
    CASE t.form = "nothing" -> None
      [] t.form = "quoted"  -> Str(t.text)
      [] t.form = "flow"    -> List([k \in 1 .. Len(t.parts) |-> Read(t.parts[k])])
      [] OTHER ->
            CASE t.text \in NullTexts \cup {""} -> None
              [] t.text \in BoolTexts   -> Scalar("bool", t.text)
              [] t.text \in NumberTexts -> Scalar("number", t.text)
              [] t.text = "{}"          -> Map(<< >>)
              [] OTHER                  -> Str(Stripped(t.text))

-----------------------------------------------------------------------------
(* The parser. A line of nothing but a comment, a blank line and a document
   mark have no content. *)

Noise == Line(0, FALSE, NoKey, Nothing)

(* _strip_comment *)
StripComment(l) == [l EXCEPT !.rest = IF @.form = "commented" THEN @.token ELSE @]

(* _clean_lines *)
CleanLines(text) ==
    LET content == SelectSeq(text, LAMBDA l : l # Noise) IN
    [k \in 1 .. Len(content) |-> StripComment(content[k])]

Result(val, next) == [val |-> val, next |-> next]

(* Faulty: lines of the same indentation belong to it as well. *)
RECURSIVE BlockEndLate(_, _, _)
BlockEndLate(lines, i, indent) ==
    IF i <= Len(lines) /\ lines[i].indent >= indent
    THEN BlockEndLate(lines, i + 1, indent) ELSE i

(* The first line from i on that is not indented deeper than indent. *)
RECURSIVE BlockEnd(_, _, _)
BlockEnd(lines, i, indent) ==
    IF i <= Len(lines) /\ lines[i].indent > indent
    THEN BlockEnd(lines, i + 1, indent) ELSE i

(* _parse_block_scalar joins the deeper lines, whatever they look like; they
   lose their indentation. *)
BlockScalar(lines, i, indent, style) ==
    LET end == BlockEnd(lines, i, indent) IN
    Result(Text(style, [k \in 1 .. end - i |-> [lines[i + k - 1] EXCEPT !.indent = 0]]), end)

RECURSIVE ParseBlock(_, _, _), ParseMap(_, _, _, _), ParseList(_, _, _, _)

(* _parse_block *)
ParseBlock(lines, i, indent) ==
    IF lines[i].dash THEN ParseList(lines, i, indent, << >>)
    ELSE ParseMap(lines, i, indent, Map(<< >>))

(* What belongs to the key in line i: a scalar, a block scalar, the deeper
   block that follows, or None. *)
Entry(lines, i, indent) ==
    LET l == lines[i] IN
    CASE l.rest.form = "header" -> BlockScalar(lines, i + 1, indent, l.rest.style)
      [] l.rest.form = "nothing" ->
            IF i < Len(lines) /\ lines[i + 1].indent > indent
            THEN ParseBlock(lines, i + 1, lines[i + 1].indent)
            ELSE Result(None, i + 1)
      [] OTHER -> Result(Read(l.rest), i + 1)

(* _parse_map, with the entries read so far *)
ParseMap(lines, i, indent, soFar) ==
    IF i > Len(lines) THEN Result(soFar, i)
    ELSE IF lines[i].indent < indent THEN Result(soFar, i)
    ELSE IF lines[i].indent > indent \/ lines[i].dash \/ lines[i].key = NoKey
         THEN Result(Bad, i)
    ELSE LET e == Entry(lines, i, indent) IN
         IF e.val = Bad THEN e
         ELSE ParseMap(lines, e.next, indent, Put(soFar, lines[i].key, e.val))

(* _parse_list: "- key: value" opens a mapping of that line and all deeper
   ones; what _parse_map leaves of them is dropped. *)
ParseList(lines, i, indent, soFar) ==
    IF i > Len(lines) THEN Result(List(soFar), i)
    ELSE IF lines[i].indent < indent \/ (lines[i].indent = indent /\ ~lines[i].dash)
         THEN Result(List(soFar), i)
    ELSE IF lines[i].indent > indent THEN Result(Bad, i)
    ELSE IF lines[i].key = NoKey
         THEN ParseList(lines, i + 1, indent, Append(soFar, Read(lines[i].rest)))
    ELSE LET end   == BlockEnd(lines, i + 1, indent)
             first == [lines[i] EXCEPT !.indent = indent + 2, !.dash = FALSE]
             item  == ParseMap(<<first>> \o SubSeq(lines, i + 1, end - 1), 1, indent + 2, Map(<< >>))
         IN  IF item.val = Bad THEN item
             ELSE ParseList(lines, end, indent, Append(soFar, item.val))

(* _parse *)
Parse(text) ==
    LET lines == CleanLines(text) IN
    IF lines = << >> THEN None
    ELSE LET r == ParseBlock(lines, 1, lines[1].indent) IN
         IF r.next = Len(lines) + 1 THEN r.val ELSE Bad

-----------------------------------------------------------------------------
(* The dumper *)

(* _dump_scalar *)
DumpScalar(v) ==
    IF v.type = "str" /\ v.text \in QuotedTexts THEN Quoted(v.text) ELSE Plain(v.text)

(* _dump of a mapping of scalars *)
Dump(m) ==
    [k \in 1 .. Len(m.entries) |-> Line(0, FALSE, m.entries[k].key, DumpScalar(m.entries[k].val))]
=============================================================================
