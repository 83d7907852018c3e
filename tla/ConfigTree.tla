----------------------------- MODULE ConfigTree -----------------------------
(***************************************************************************)
(* The configuration tree (config/src/value.rs), deep merge and seeding of *)
(* a path (managed/source.rs), and the defaults merged under it            *)
(* (defaults.rs). A table is a function from names; its insertion order is *)
(* not kept. A text is a sequence of atoms, its characters or words.       *)
(***************************************************************************)
EXTENDS Integers, Sequences, FiniteSets, SequencesExt

Null == [k |-> "null"]
BoolValue(b) == [k |-> "bool", v |-> b]
IntValue(n) == [k |-> "int", v |-> n]
Str(segs) == [k |-> "str", v |-> segs]
Table(entries) == [k |-> "table", v |-> entries]
EmptyTable == Table(<<>>)
Array(items) == [k |-> "array", v |-> items]

Literal(text) == [key |-> <<>>, def |-> {}, text |-> text]
Placeholder(key, def) == [key |-> key, def |-> def, text |-> <<>>]
IsLiteral(seg) == seg.key = <<>>

StrKind(segs) ==
    IF \A i \in DOMAIN segs : IsLiteral(segs[i]) THEN "Literal"
    ELSE IF Len(segs) = 1 THEN "FullPlaceholder" ELSE "Templated"

NoNode == [k |-> "absent"]

(* A key that the table holds more than once; the first entry is the one a lookup
   finds. *)
Repeated(first, others) == [k |-> "repeated", v |-> first, others |-> others]
First(node) == IF node.k = "repeated" THEN node.v ELSE node
Others(node) == IF node.k = "repeated" THEN node.others ELSE <<>>

RECURSIVE lookup_path(_, _)
lookup_path(node, path) ==
    IF path = <<>> THEN node
    ELSE IF node.k # "table" \/ Head(path) \notin DOMAIN node.v THEN NoNode
    ELSE lookup_path(First(node.v[Head(path)]), Tail(path))

RECURSIVE merge_into(_, _)
merge_into(base, overlay) ==
    IF base.k # "table" \/ overlay.k # "table" THEN overlay
    ELSE Table([n \in DOMAIN base.v \cup DOMAIN overlay.v |->
            IF n \notin DOMAIN overlay.v THEN base.v[n]
            ELSE IF n \notin DOMAIN base.v THEN overlay.v[n]
            ELSE merge_into(base.v[n], overlay.v[n])])

(* ensure_path_mut: a conflicting leaf on the way refuses the path, before
   anything has been created. *)
PathFree(node, path) ==
    \A i \in 0..(Len(path) - 1) :
        lookup_path(node, SubSeq(path, 1, i)).k \in {"table", "absent"}

RECURSIVE put(_, _, _)
put(node, path, new) ==
    IF path = <<>> THEN new
    ELSE LET name == Head(path)
             under == IF name \in DOMAIN node.v THEN node.v[name] ELSE EmptyTable
         IN Table([n \in DOMAIN node.v \cup {name} |->
                IF n = name THEN put(under, Tail(path), new) ELSE node.v[n]])

NodeOrEmpty(node, path) ==
    LET found == lookup_path(node, path) IN IF found = NoNode THEN EmptyTable ELSE found

-----------------------------------------------------------------------------
DigitOf == [d \in {"0", "4", "8"} |-> IF d = "0" THEN 0 ELSE IF d = "4" THEN 4 ELSE 8]
Digits(n) == CHOOSE s \in {<<d>> : d \in DOMAIN DigitOf} : DigitOf[s[1]] = n
IsNumber(text) == text # <<>> /\ \A i \in DOMAIN text : text[i] \in DOMAIN DigitOf
ParseInt(text) == FoldLeft(LAMBDA acc, d : 10 * acc + DigitOf[d], 0, text)
BoolText == [t \in {<<"true">>, <<"false">>} |-> t = <<"true">>]

(* default_value: where serde buffers, a literal that reads as a scalar is one. *)
default_value(segs, coerce) ==
    LET text == IF segs = <<>> THEN <<>> ELSE segs[1].text IN
    IF ~coerce \/ StrKind(segs) # "Literal" THEN Str(segs)
    ELSE IF IsNumber(text) THEN IntValue(ParseInt(text))
    ELSE IF text \in DOMAIN BoolText THEN BoolValue(BoolText[text])
    ELSE Str(segs)

fill_entries(entries, fields, coerce) ==
    [n \in DOMAIN entries \cup DOMAIN fields |->
        IF n \in DOMAIN entries THEN entries[n] ELSE default_value(fields[n], coerce)]

fill_fields(node, fields, coerce) ==
    IF node.k # "table" THEN node ELSE Table(fill_entries(node.v, fields, coerce))

variant_fields(spec, tag) ==
    IF tag \in DOMAIN spec.fields THEN spec.fields[tag] ELSE <<>>

TagText(tag) == Str(<<Literal(<<tag>>)>>)

fill_external(node, spec) ==
    IF node = EmptyTable
    THEN IF spec.default = {} THEN node
         ELSE LET d == CHOOSE x \in spec.default : TRUE IN
              IF d.unit THEN TagText(d.tag)
              ELSE Table([n \in {d.tag} |->
                     fill_fields(EmptyTable, variant_fields(spec, d.tag), FALSE)])
    ELSE IF node.k # "table" THEN node
    ELSE Table([n \in DOMAIN node.v |-> fill_fields(node.v[n], variant_fields(spec, n), FALSE)])

(* The tag field's plain text; {} when absent or not a literal. *)
tag_value(entries, tag) ==
    IF tag \in DOMAIN entries /\ First(entries[tag]).k = "str"
       /\ StrKind(First(entries[tag]).v) = "Literal"
    THEN {First(entries[tag]).v[1].text[1]} ELSE {}

fill_content(entries, content, fields) ==
    LET under == IF content \in DOMAIN entries THEN entries[content] ELSE EmptyTable IN
    [n \in DOMAIN entries \cup {content} |->
        IF n = content THEN fill_fields(under, fields, TRUE) ELSE entries[n]]

(* The tag is pushed, also after one that is there and is not a literal, and then again
   at every seeding. *)
WithTag(entries, key, tag) ==
    [n \in DOMAIN entries \cup {key} |->
        IF n # key THEN entries[n]
        ELSE IF key \in DOMAIN entries
        THEN Repeated(First(entries[key]), Append(Others(entries[key]), TagText(tag)))
        ELSE TagText(tag)]

FillVariant(entries, spec, tag) ==
    IF spec.kind = "internal" THEN fill_entries(entries, variant_fields(spec, tag), TRUE)
    ELSE fill_content(entries, spec.content, variant_fields(spec, tag))

(* fill_internal and fill_adjacent: a tag selects its variant's defaults, which an
   unknown one has not; without a tag the default variant is inserted. *)
fill_tagged(node, spec) ==
    IF node.k # "table" THEN node
    ELSE LET chosen == tag_value(node.v, spec.tag) IN
         IF chosen # {}
         THEN LET tag == CHOOSE t \in chosen : TRUE IN
              IF tag \in DOMAIN spec.fields THEN Table(FillVariant(node.v, spec, tag)) ELSE node
         ELSE IF spec.default = {} THEN node
         ELSE LET d == CHOOSE x \in spec.default : TRUE
                  tagged == WithTag(node.v, spec.tag, d.tag)
              IN IF d.unit THEN Table(tagged) ELSE Table(FillVariant(tagged, spec, d.tag))

(* DefaultSpec::fill_missing. An untagged enum has no default to pick. *)
fill_missing(node, spec) ==
    CASE spec.kind \in {"none", "untagged"} -> node
      [] spec.kind = "fields" -> fill_fields(node, spec.fields, FALSE)
      [] spec.kind = "external" -> fill_external(node, spec)
      [] spec.kind \in {"internal", "adjacent"} -> fill_tagged(node, spec)

SeedOne(root, binding) ==
    IF binding.spec.kind = "none" \/ ~PathFree(root, binding.path) THEN root
    ELSE put(root, binding.path, fill_missing(NodeOrEmpty(root, binding.path), binding.spec))

seed_defaults_into(root, bindings) == FoldLeft(SeedOne, root, bindings)
=============================================================================
