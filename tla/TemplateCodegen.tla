--------------------------- MODULE TemplateCodegen ---------------------------
(***************************************************************************)
(* codegen.ts: from the tree to the render function.  The function is a    *)
(* sequence of lines, a line a sequence of atoms: the author's JavaScript  *)
(* as it was written, and for each statement the compiler generates one    *)
(* atom, whose field `out` says what it outputs and `line` which source    *)
(* line its source map entry names.  What a statement wraps stands between *)
(* an opening and a closing atom:                                          *)
(*   "content" .. "endcontent"   a component with its content function     *)
(*   "slots" .. "endslots"       a component with its slots                *)
(*   "slot" .. "endslot"         a slot function                           *)
(*   "expression" .. "endexpression"  an expression's code                 *)
(* The merging of the pushes on one line, the marks from which the source  *)
(* map's columns are read and the module around the function are left out. *)
(***************************************************************************)
EXTENDS TemplateParser

Statement(kind, line, out) == [k |-> kind, n |-> "", line |-> line, out |-> out]
Out(what, name, attrs) == [what |-> what, name |-> name, attrs |-> attrs]
Nothing == Out("", "", {})

-----------------------------------------------------------------------------
(* Attributes as the instruction carries them: the plain ones, and with    *)
(* each conditional group the code that decides on it.                     *)

Entries(attrs) ==
    {[name |-> a.prefix \o a.name, form |-> a.form] : a \in {attrs[i] : i \in DOMAIN attrs}}

AttributesWithConditionals(attrs) ==
    Entries(attrs.plain) \cup
    UNION {{[e EXCEPT !.form = "conditional"] : e \in Entries(attrs.conditional[i])} :
           i \in DOMAIN attrs.conditional}

-----------------------------------------------------------------------------
(* Code lines.                                                             *)

RECURSIVE SplitLines(_)
SplitLines(code) ==
    LET nl == FirstOf({i \in DOMAIN code : code[i].k = "nl"})
    IN  IF nl = 0 THEN <<code>>
        ELSE <<SubSeq(code, 1, nl - 1)>> \o SplitLines(SubSeq(code, nl + 1, Len(code)))

\* The generator: the lines so far, and whether the last output was a lone blank.
At(g, line, atoms) ==
    IF line \in DOMAIN g.lines THEN [g EXCEPT !.lines[line] = @ \o atoms] ELSE g

Emitted(g, blank) == [g EXCEPT !.blank = blank]

RECURSIVE PlaceCodeLines(_, _, _)
PlaceCodeLines(g, line, codelines) ==
    IF codelines = <<>> THEN g ELSE PlaceCodeLines(At(g, line, Head(codelines)), line + 1, Tail(codelines))

\* A line of code is left out if it is blank, and a blank separates it from what is before;
\* a line that starts in a literal is kept as it is.
Separated(code) ==
    LET codelines == SplitLines(code)
        Start(l) == FirstOf({i \in 1..Len(code) :
                        Cardinality({j \in 1..i : code[j].k = "nl"}) = l - 1})
    IN  [l \in DOMAIN codelines |->
            CASE ~(l = 1 \/ Start(l) \in CodeLineStarts(code)) -> codelines[l]
              [] AllBlank(codelines[l]) -> <<>>
              [] OTHER -> <<SP>> \o codelines[l]]

IsComment(text) == text[1].k = "<!--" /\ Last(text).k = "-->"

\* White space collapses, except in an HTML comment; of two lone blanks in a row one is kept.
PlaceText(node, g) ==
    LET text == IF IsComment(node.code) THEN node.code ELSE Collapse(node.code)
        what == IF IsComment(node.code) THEN "verbatim" ELSE "text"
    IN  IF text = <<SP>> /\ g.blank THEN g
        ELSE Emitted(At(g, node.line, <<Statement("push", node.line, Out(what, text, {}))>>),
                     text = <<SP>>)

PlaceExpression(node, g) ==
    Emitted(At(g, node.line,
               <<Statement("expression", node.line, Out("expression", node.name, {}))>>
               \o node.code \o <<Statement("endexpression", node.line, Nothing)>>), FALSE)

PlaceCodeBlock(node, g) == Emitted(PlaceCodeLines(g, node.line, Separated(node.code)), FALSE)

-----------------------------------------------------------------------------
(* Elements.                                                               *)

PreservesWhitespace(node) == node.name \in {"textarea", "pre"} /\ ~node.self /\ node.kids # <<>>

\* A raw tag's content is one string: no tag, component or code block can be in it.
RawContentAllowed(node) ==
    \A i \in DOMAIN node.kids : node.kids[i].kind \in {"TEXT", "EXPRESSION"}

RawContent(node) ==
    FlattenSeq([i \in DOMAIN node.kids |->
        IF node.kids[i].kind = "TEXT" THEN node.kids[i].code
        ELSE <<[k |-> "value", n |-> node.kids[i].name]>>])

\* Faulty variant: the line a node starts on.
OpeningLine(node) == node.line

\* The line a node's closing code goes on.
CloseLine(node) == node.close

HasSlots(node) == \E i \in DOMAIN node.kids : node.kids[i].kind = "SLOT"

RECURSIVE PlaceNode(_, _), PlaceNodes(_, _)

PlaceNodes(nodes, g) ==
    IF nodes = <<>> THEN g ELSE PlaceNodes(Tail(nodes), PlaceNode(Head(nodes), g))

PlaceTag(node, g) ==
    LET attrs == AttributesWithConditionals(node.attrs)
        opened == At(g, node.line, <<Statement("push", node.line,
                         Out(IF node.self THEN "selfclosing" ELSE "tag", node.name, attrs))>>)
        placed == PlaceNodes(node.kids, Emitted(opened, FALSE))
    IN  IF node.name \in VoidElements THEN Emitted(placed, FALSE)
        ELSE Emitted(At(placed, CloseLine(node),
                        <<Statement("push", CloseLine(node), Out("endtag", node.name, {}))>>), FALSE)

PlaceRawTag(node, g) ==
    Emitted(At(g, node.line,
               <<Statement("push", node.line,
                   [Out("rawtag", node.name, AttributesWithConditionals(node.attrs))
                    EXCEPT !.name = <<[k |-> "<tag", n |-> node.name]>> \o RawContent(node)
                                    \o <<[k |-> "</tag", n |-> node.name]>>])>>), FALSE)

PlaceComponent(node, g) ==
    LET out == Out("component", IF node.dynamic THEN "C" ELSE node.name,
                   AttributesWithConditionals(node.attrs))
        slots == SelectSeq(node.kids, LAMBDA kid : kid.kind = "SLOT")
        Wrap(kind, endkind, kids) ==
            At(PlaceNodes(kids, Emitted(At(g, node.line, <<Statement(kind, node.line, out)>>), FALSE)),
               CloseLine(node), <<Statement(endkind, CloseLine(node), Nothing)>>)
    IN  CASE node.self \/ node.kids = <<>> ->
                 Emitted(At(g, node.line, <<Statement("push", node.line, out)>>), FALSE)
          [] node.kids # <<>> /\ HasSlots(node) ->
                 Emitted(Wrap("slots", "endslots", slots), FALSE)
          [] OTHER -> Emitted(Wrap("content", "endcontent", node.kids), FALSE)

PlaceSlot(node, g) ==
    LET opened == At(g, node.line, <<Statement("slot", node.line, Out("slot", node.name, {}))>>)
    IN  Emitted(At(PlaceNodes(node.kids, Emitted(opened, FALSE)), CloseLine(node),
                   <<Statement("endslot", CloseLine(node), Nothing)>>), FALSE)

PlaceNode(node, g) ==
    CASE node.kind = "TEXT" -> PlaceText(node, g)
      [] node.kind = "EXPRESSION" -> PlaceExpression(node, g)
      [] node.kind = "CODE_BLOCK" -> PlaceCodeBlock(node, g)
      [] node.kind = "SLOT" -> PlaceSlot(node, g)
      [] node.kind = "COMPONENT" -> PlaceComponent(node, g)
      [] node.kind = "TAG" /\ PreservesWhitespace(node) -> PlaceRawTag(node, g)
      [] OTHER -> PlaceTag(node, g)

RECURSIVE RawTagsAllowed(_)
RawTagsAllowed(nodes) ==
    \A i \in DOMAIN nodes :
        /\ (nodes[i].kind = "TAG" /\ PreservesWhitespace(nodes[i])) => RawContentAllowed(nodes[i])
        /\ RawTagsAllowed(nodes[i].kids)

\* ^content\s*\( of the trimmed code.
CallsContent(code) ==
    LET dense == SelectSeq(code, LAMBDA atom : atom.k \notin Blanks)
    IN  Len(dense) > 1 /\ dense[1].n = "content" /\ dense[2].k = "("

\* content() is output with <%= %>, never raw.
RECURSIVE ContentNotRaw(_)
ContentNotRaw(nodes) ==
    \A i \in DOMAIN nodes :
        /\ ~(/\ nodes[i].kind = "EXPRESSION" /\ nodes[i].name = "EXPRESSION_UNESCAPED"
             /\ CallsContent(nodes[i].code))
        /\ ContentNotRaw(nodes[i].kids)

\* The last source line that any node reaches.
RECURSIVE MaxLine(_)
MaxLine(nodes) ==
    LET reach == {nodes[i].line : i \in DOMAIN nodes} \cup {nodes[i].last : i \in DOMAIN nodes}
                 \cup {MaxLine(nodes[i].kids) : i \in DOMAIN nodes}
    IN  IF nodes = <<>> THEN 0 ELSE CHOOSE m \in reach : \A l \in reach : l <= m

FunctionBody(nodes) ==
    PlaceNodes(nodes, [lines |-> [i \in 1..MaxLine(nodes) |-> <<>>], blank |-> FALSE]).lines

-----------------------------------------------------------------------------
(* The function's text, and whether it is JavaScript: the author's code    *)
(* and the generated statements nest as one stream of brackets.            *)

NL == [k |-> "nl", n |-> ""]
ProgramText(lines) ==
    FlattenSeq([i \in DOMAIN lines |-> IF i = Len(lines) THEN lines[i] ELSE Append(lines[i], NL)])

\* The atoms that are code, with the generated line each is on.
ProgramCode(text) ==
    LET class == Classes(text, FALSE)
        kept == {i \in DOMAIN text : class[i] = "code" /\ text[i].k \notin Blanks}
    IN  FlattenSeq([i \in DOMAIN text |->
            IF i \in kept THEN <<[atom |-> text[i], at |-> PositionAt(text, i)]>> ELSE <<>>])

CloserOf ==
    [k \in {"{", "${", "(", "content", "slots", "slot", "expression"} |->
        CASE k \in {"{", "${"} -> "}"
          [] k = "(" -> ")"
          [] OTHER -> "end" \o k]
IsOpener(k) == k \in DOMAIN CloserOf
IsCloser(k) == k \in {CloserOf[o] : o \in DOMAIN CloserOf}

\* The brackets still open after the first i atoms of the code, or what does not match.
BracketStack(code) ==
    LET stack[i \in 0..Len(code)] ==
            LET k == code[i].atom.k
                before == stack[i - 1]
            IN  CASE i = 0 -> <<>>
                  [] i > 0 /\ before = <<"unbalanced">> -> before
                  [] i > 0 /\ before # <<"unbalanced">> /\ IsOpener(k) -> Append(before, k)
                  [] i > 0 /\ before # <<"unbalanced">> /\ IsCloser(k) ->
                         IF before # <<>> /\ CloserOf[Last(before)] = k THEN Front(before)
                         ELSE <<"unbalanced">>
                  [] OTHER -> before
    IN  stack

\* A slot function is an entry of an object: a component's slots, or those the template
\* of a slot-only component returns.
SlotsAreEntries(code, slotonly) ==
    LET stack == BracketStack(code)
    IN  \A i \in DOMAIN code :
            code[i].atom.k = "slot" =>
                IF stack[i - 1] = <<>> THEN slotonly ELSE Last(stack[i - 1]) = "slots"

IsJavaScript(text, slotonly) ==
    LET code == ProgramCode(text)
    IN  /\ BracketStack(code)[Len(code)] = <<>>
        /\ SlotsAreEntries(code, slotonly)
        /\ Last(Classes(Append(text, NL), FALSE)) = "code"

NoRender == [ok |-> FALSE, error |-> "", code |-> <<>>, lines |-> 0, slotonly |-> FALSE]

GenerateComponent(define) ==
    LET nodes == IF define.self THEN SelectSeq(define.kids, LAMBDA n : n.kind = "SLOT")
                 ELSE define.kids
        text == ProgramText(FunctionBody(nodes))
    IN  CASE ~RawTagsAllowed(nodes) -> [NoRender EXCEPT !.error = "invalid content in a raw tag"]
          [] ~ContentNotRaw(nodes) -> [NoRender EXCEPT !.error = "content() is not raw"]
          [] ~IsJavaScript(text, define.self) -> [NoRender EXCEPT !.error = "not JavaScript"]
          [] OTHER -> [ok |-> TRUE, error |-> "", code |-> ProgramCode(text),
                       lines |-> PositionAt(text, Len(text) + 1), slotonly |-> define.self]

\* compileTemplate: the first phase that fails decides.
CompileTemplate(source) ==
    LET lexed == Tokenize(source)
        parsed == Parse(lexed.tokens)
    IN  CASE lexed.error # "" -> [NoRender EXCEPT !.error = lexed.error]
          [] lexed.error = "" /\ parsed.error # "" -> [NoRender EXCEPT !.error = parsed.error]
          [] OTHER -> GenerateComponent(parsed.out)
=============================================================================
