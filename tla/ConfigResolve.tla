--------------------------- MODULE ConfigResolve ---------------------------
(***************************************************************************)
(* Templates (config/src/parse.rs), placeholder resolution (resolve.rs)    *)
(* and typed deserialization (de.rs). The context is threaded through: the *)
(* steps taken, the text appended, the dependencies recorded; flight is    *)
(* the stack of keys whose node is being rendered.                         *)
(***************************************************************************)
EXTENDS ConfigTree

CONSTANTS
    Namespaces,   \* names that start with '@'
    Screaming,    \* names in SCREAMING_SNAKE_CASE
    MaxDepth,     \* MAX_RESOLUTION_DEPTH
    MaxSteps,     \* MAX_DESERIALIZATION_RESOLUTION_STEPS
    MaxText       \* MAX_DESERIALIZATION_RENDERED_BYTES

ASSUME ResolveAssumption ==
    /\ Namespaces \cap Screaming = {}
    /\ MaxDepth \in Nat /\ MaxSteps \in Nat /\ MaxText \in Nat

Fresh == [steps |-> 0, text |-> 0, deps |-> <<>>]
Ok(ctx, out) == [ctx |-> ctx, out |-> out, err |-> ""]
Fail(ctx, err) == [ctx |-> ctx, out |-> <<>>, err |-> err]

(* The ? operator: an error is passed on, a value becomes Out of it. *)
Then(r, Out(_)) == IF r.err # "" THEN r ELSE Ok(r.ctx, Out(r.out))

LimitErrors == {"ResolutionBudgetExceeded", "RenderedOutputTooLarge", "ResolutionDepthExceeded"}

-----------------------------------------------------------------------------
(* parse_template, over the characters of a source string. A segment list or
   the error of a placeholder that is never closed. *)
Unterminated == <<Placeholder(<<"unterminated">>, {})>>

Flushed(segs, literal) == IF literal = <<>> THEN segs ELSE Append(segs, Literal(literal))

IndexIn(raw, chars) ==
    LET at == {i \in DOMAIN raw : raw[i] \in chars} IN
    IF at = {} THEN 0 ELSE CHOOSE i \in at : \A j \in at : i <= j

From(raw, i) == SubSeq(raw, i, Len(raw))

(* parse_placeholder and read_default: the key up to '}' or ':', then the
   default, which may itself hold ':'. rest is what follows; none if unclosed. *)
parse_placeholder(raw) ==
    LET stop == IndexIn(raw, {"}", ":"}) IN
    IF stop = 0 THEN {}
    ELSE LET key == SubSeq(raw, 1, stop - 1) IN
         IF raw[stop] = "}" THEN {[seg |-> Placeholder(<<key>>, {}), rest |-> From(raw, stop + 1)]}
         ELSE LET tail == From(raw, stop + 1)
                  end == IndexIn(tail, {"}"})
              IN IF end = 0 THEN {}
                 ELSE {[seg |-> Placeholder(<<key>>, {SubSeq(tail, 1, end - 1)}),
                        rest |-> From(tail, end + 1)]}

(* Mutant of EscapedDollar: the second '$' of an escape is read again. *)
ReadTwice(raw) == 2

(* How many characters "$$" takes. *)
EscapedDollar(raw) == 3

RECURSIVE parse_from(_, _, _)
parse_from(raw, literal, segs) ==
    IF raw = <<>> THEN Flushed(segs, literal)
    ELSE IF raw[1] # "$" THEN parse_from(Tail(raw), Append(literal, raw[1]), segs)
    ELSE IF Len(raw) > 1 /\ raw[2] = "$"
         THEN parse_from(From(raw, EscapedDollar(raw)), Append(literal, "$"), segs)
    ELSE IF Len(raw) > 1 /\ raw[2] = "{"
         THEN LET found == parse_placeholder(From(raw, 3)) IN
              IF found = {} THEN Unterminated
              ELSE LET p == CHOOSE x \in found : TRUE IN
                   parse_from(p.rest, <<>>, Append(Flushed(segs, literal), p.seg))
    ELSE parse_from(Tail(raw), Append(literal, "$"), segs)

parse_template(raw) == parse_from(raw, <<>>, <<>>)

-----------------------------------------------------------------------------
(* ResolverChain::resolve: the first resolver that has a value. *)
ChainResolve(chain, key) ==
    LET has == {i \in DOMAIN chain : key \in DOMAIN chain[i]} IN
    IF has = {} THEN {} ELSE {chain[CHOOSE i \in has : \A j \in has : i <= j][key]}

Spelled(n) == IF n < 0 THEN <<"-">> \o Digits(-n) ELSE Digits(n)

(* Dotted keys and names that are not SCREAMING look in the tree before the chain. *)
PathFirst(key) == Len(key) > 1 \/ key[1] \notin Screaming

(* Mutant of InFlight: a key that was resolved before counts as a cycle. *)
SeenBefore(ctx, flight, key) == \E i \in DOMAIN ctx.deps : ctx.deps[i].placeholder.key = key

InFlight(ctx, flight, key) == \E i \in DOMAIN flight : flight[i] = key

RECURSIVE resolve_placeholder(_, _, _, _, _), render_str(_, _, _, _, _)

(* resolve_config_path with render_node_as_string. *)
RenderNode(root, chain, key, ctx, flight) ==
    LET node == lookup_path(root, key) IN
    CASE node.k = "str" -> render_str(root, chain, node.v, ctx, Append(flight, key))
      [] node.k = "bool" -> Ok(ctx, IF node.v THEN <<"true">> ELSE <<"false">>)
      [] node.k = "int" -> Ok(ctx, Spelled(node.v))
      [] OTHER -> Fail(ctx, "NotStringRenderable")

(* The namespace, path and chain precedence: none when no source has the key,
   an error when the tree has it and it does not render. *)
Sources(root, chain, key, ctx, flight) ==
    LET answer == ChainResolve(chain, key)
        inTree == lookup_path(root, key) # NoNode
        fromChain == {Ok(ctx, text) : text \in answer}
    IN IF key[1] \in Namespaces THEN fromChain
       ELSE IF inTree /\ (PathFirst(key) \/ answer = {})
            THEN {RenderNode(root, chain, key, ctx, flight)}
       ELSE fromChain

Recorded(r, p) ==
    IF r.err # "" THEN r
    ELSE [r EXCEPT !.ctx.deps = Append(@, [placeholder |-> p, value |-> r.out])]

resolve_placeholder(root, chain, p, before, flight) ==
    LET ctx == [before EXCEPT !.steps = @ + 1] IN
    IF ctx.steps > MaxSteps THEN Fail(ctx, "ResolutionBudgetExceeded")
    ELSE IF Len(flight) >= MaxDepth THEN Fail(ctx, "ResolutionDepthExceeded")
    ELSE IF InFlight(ctx, flight, p.key) THEN Fail(ctx, "ResolutionCycle")
    ELSE LET found == Sources(root, chain, p.key, ctx, flight) IN
         IF found # {} THEN Recorded(CHOOSE r \in found : TRUE, p)
         ELSE IF p.def # {} THEN Recorded(Ok(ctx, CHOOSE d \in p.def : TRUE), p)
         ELSE Fail(ctx, IF p.key[1] \in Namespaces THEN "UnknownNamespaceKey" ELSE "MissingPlaceholder")

(* consume_bytes, then push_str. *)
Appended(out, r) ==
    LET ctx == [r.ctx EXCEPT !.text = @ + Len(r.out)] IN
    IF r.err # "" THEN r
    ELSE IF ctx.text > MaxText THEN Fail(ctx, "RenderedOutputTooLarge")
    ELSE Ok(ctx, out \o r.out)

render_str(root, chain, segs, ctx, flight) ==
    FoldLeft(LAMBDA acc, seg :
                IF acc.err # "" THEN acc
                ELSE Appended(acc.out,
                        IF IsLiteral(seg) THEN Ok(acc.ctx, seg.text)
                        ELSE resolve_placeholder(root, chain, seg, acc.ctx, flight)),
             Ok(ctx, <<>>), segs)

-----------------------------------------------------------------------------
(* Deserialization. A shape says what serde asks for: int with its width, bool,
   str, opt, seq, struct, enum (external) or tagged (internal and adjacent: buffered). *)
scalar_source(root, chain, segs, ctx) ==
    IF StrKind(segs) = "FullPlaceholder" THEN resolve_placeholder(root, chain, segs[1], ctx, <<>>)
    ELSE render_str(root, chain, segs, ctx, <<>>)

(* int_value and deserialize_int, deserialize_bool: a literal or one whole
   placeholder is parsed, a template that mixes text with one is refused. *)
Narrowed(ctx, n, shape) ==
    IF n \in shape.range THEN Ok(ctx, IntValue(n)) ELSE Fail(ctx, "OutOfRange")

ParseAs(r, segs, shape) ==
    IF r.err # "" THEN r
    ELSE IF StrKind(segs) = "Templated" THEN Fail(r.ctx, "PartialInNonString")
    ELSE IF shape.k = "int" /\ IsNumber(r.out) THEN Narrowed(r.ctx, ParseInt(r.out), shape)
    ELSE IF shape.k = "bool" /\ r.out \in DOMAIN BoolText THEN Ok(r.ctx, BoolValue(BoolText[r.out]))
    ELSE Fail(r.ctx, "ParseAs")

Scalar(root, chain, node, shape, ctx) ==
    IF node.k = shape.k
    THEN IF shape.k = "int" THEN Narrowed(ctx, node.v, shape) ELSE Ok(ctx, node)
    ELSE IF node.k # "str" THEN Fail(ctx, "TypeMismatch")
    ELSE ParseAs(scalar_source(root, chain, node.v, ctx), node.v, shape)

Rendered(r) == Then(r, LAMBDA text : Str(<<Literal(text)>>))

(* An entry of a map is done: the entries so far with it. *)
WithEntry(acc, name, r) ==
    Then(r, LAMBDA value : Table([n \in DOMAIN acc.out.v \cup {name} |->
                                    IF n = name THEN value ELSE acc.out.v[n]]))

(* SeqWalk: an element of a sequence is done. *)
WithElement(acc, r) == Then(r, LAMBDA value : Array(Append(acc.out.v, value)))

(* The elements in order, up to the first that fails. *)
Elements(items, ctx, Read(_, _)) ==
    FoldLeft(LAMBDA acc, item :
               IF acc.err # "" THEN acc
               ELSE WithElement(acc, Read(item, acc.ctx)),
             Ok(ctx, Array(<<>>)), items)

(* deserialize_any, into serde's buffer: strings are rendered and stay strings. *)
RECURSIVE deserialize_any(_, _, _, _)
deserialize_any(root, chain, node, ctx) ==
    CASE node.k = "str" -> Rendered(render_str(root, chain, node.v, ctx, <<>>))
      [] node.k = "table" ->
            FoldLeft(LAMBDA acc, n :
                       IF acc.err # "" THEN acc
                       ELSE IF node.v[n].k = "repeated" THEN Fail(acc.ctx, "DuplicateField")
                       ELSE WithEntry(acc, n, deserialize_any(root, chain, node.v[n], acc.ctx)),
                     Ok(ctx, EmptyTable), SetToSeq(DOMAIN node.v))
      [] node.k = "array" ->
            Elements(node.v, ctx, LAMBDA item, c : deserialize_any(root, chain, item, c))
      [] OTHER -> Ok(ctx, node)

RECURSIVE deserialize(_, _, _, _, _)

(* MapWalk over a struct: unknown entries are skipped unresolved, a missing
   field is an error unless it is optional. A buffered value no longer coerces. *)
StructFields(root, chain, node, shape, ctx) ==
    FoldLeft(LAMBDA acc, f :
               IF acc.err # "" THEN acc
               ELSE IF f \notin DOMAIN node.v
                    THEN IF shape.fields[f].k = "opt" THEN acc ELSE Fail(acc.ctx, "MissingField")
               ELSE WithEntry(acc, f, deserialize(root, chain, node.v[f], shape.fields[f], acc.ctx)),
             Ok(ctx, EmptyTable), SetToSeq(DOMAIN shape.fields))

(* deserialize_enum, EnumWalk and VariantWalk: a string names a unit variant,
   a table of one entry a variant with its value. *)
Variant(root, chain, tag, held, shape, ctx) ==
    IF tag \notin DOMAIN shape.variants THEN Fail(ctx, "UnknownVariant")
    ELSE IF shape.variants[tag].k = "unit"
         THEN IF held \subseteq {Null} THEN Ok(ctx, TagText(tag)) ELSE Fail(ctx, "TypeMismatch")
    ELSE IF held = {} THEN Fail(ctx, "TypeMismatch")
    ELSE Then(deserialize(root, chain, CHOOSE x \in held : TRUE, shape.variants[tag], ctx),
              LAMBDA value : Table([n \in {tag} |-> value]))

VariantNamed(root, chain, r, shape) ==
    IF r.err # "" THEN r ELSE Variant(root, chain, IF r.out = <<>> THEN "" ELSE r.out[1], {}, shape, r.ctx)

EnumValue(root, chain, node, shape, ctx) ==
    IF node.k = "str"
    THEN VariantNamed(root, chain, render_str(root, chain, node.v, ctx, <<>>), shape)
    ELSE IF node.k = "table" /\ Cardinality(DOMAIN node.v) = 1
    THEN LET tag == CHOOSE n \in DOMAIN node.v : TRUE IN
         Variant(root, chain, tag, {node.v[tag]}, shape, ctx)
    ELSE Fail(ctx, "TypeMismatch")

(* An internally tagged enum: the whole table is buffered, then the tag's
   variant takes its fields from the buffer, without coercion. *)
FromBuffer(node, shape) ==
    CASE shape.k = "int" -> node.k = "int" /\ node.v \in shape.range
      [] shape.k = "bool" -> node.k = "bool"
      [] OTHER -> node.k = "str"

TaggedFields(ctx, entries, tag, wants) ==
    IF \E f \in DOMAIN wants : f \notin DOMAIN entries THEN Fail(ctx, "MissingField")
    ELSE IF \E f \in DOMAIN wants : ~FromBuffer(entries[f], wants[f]) THEN Fail(ctx, "TypeMismatch")
    ELSE Ok(ctx, Table([n \in {tag} |-> Table([f \in DOMAIN wants |-> entries[f]])]))

TaggedBy(buffered, tags, shape) ==
    IF buffered.err # "" THEN buffered
    ELSE IF tags = {} THEN Fail(buffered.ctx, "MissingTag")
    ELSE IF ~(tags \subseteq DOMAIN shape.variants) THEN Fail(buffered.ctx, "UnknownVariant")
    ELSE LET tag == CHOOSE t \in tags : TRUE IN
         TaggedFields(buffered.ctx, buffered.out.v, tag, shape.variants[tag].fields)

TaggedValue(root, chain, node, shape, ctx) ==
    LET buffered == deserialize_any(root, chain, node, ctx) IN
    IF node.k # "table" THEN Fail(ctx, "TypeMismatch")
    ELSE TaggedBy(buffered, IF buffered.err # "" THEN {} ELSE tag_value(buffered.out.v, shape.tag), shape)

deserialize(root, chain, node, shape, ctx) ==
    CASE shape.k \in {"int", "bool"} -> Scalar(root, chain, node, shape, ctx)
      [] shape.k = "str" ->
            IF node.k # "str" THEN Fail(ctx, "TypeMismatch")
            ELSE Rendered(render_str(root, chain, node.v, ctx, <<>>))
      [] shape.k = "opt" ->
            IF node.k = "null" THEN Ok(ctx, Null) ELSE deserialize(root, chain, node, shape.of, ctx)
      [] shape.k = "seq" ->
            IF node.k # "array" THEN Fail(ctx, "TypeMismatch")
            ELSE Elements(node.v, ctx, LAMBDA item, c : deserialize(root, chain, item, shape.of, c))
      [] shape.k = "struct" ->
            IF node.k # "table" THEN Fail(ctx, "TypeMismatch")
            ELSE StructFields(root, chain, node, shape, ctx)
      [] shape.k = "enum" -> EnumValue(root, chain, node, shape, ctx)
      [] shape.k = "tagged" -> TaggedValue(root, chain, node, shape, ctx)
=============================================================================
