---------------------------- MODULE TemplateParser ----------------------------
(***************************************************************************)
(* parser.ts: from the tokens to the tree, or the first error.  The parser *)
(* is recursive descent: a function takes the tokens ts and the next one's *)
(* index p, and returns [at, out, error], the index after what it parsed,  *)
(* the node or nodes, and "" or what is wrong.                             *)
(*                                                                         *)
(* Tag, slot and component names come from small sets; names that no       *)
(* template may use (reserved words, ill-formed identifiers) and slot      *)
(* parameters are left out.                                                *)
(***************************************************************************)
EXTENDS TemplateLexer

IsComponentName(name) == name \in {"C", "D", "T", "Redrawable"}
VoidElements == {"br"}

Parsed(at, out) == [at |-> at, out |-> out, error |-> ""]
Wrong(at, message) == [at |-> at, out |-> <<>>, error |-> message]

\* What follows a phrase: Follow takes the index after it and what it parsed to.
Then(parsed, Follow(_, _)) ==
    IF parsed.error # "" THEN parsed ELSE Follow(parsed.at, parsed.out)

Is(ts, p, type) == ts[p].type = type
AtEnd(ts, p) == Is(ts, p, "EOF")
NextIs(ts, p, type) == p < Len(ts) /\ Is(ts, p + 1, type)

RECURSIVE SkipNewlines(_, _)
SkipNewlines(ts, p) == IF Is(ts, p, "NEWLINE") THEN SkipNewlines(ts, p + 1) ELSE p

\* A run of HTML white space is one blank.
Collapse(text) ==
    LET kept == {i \in DOMAIN text : i = 1 \/ text[i].k \notin Blanks \/ text[i - 1].k \notin Blanks}
    IN  FlattenSeq([i \in DOMAIN text |->
            IF i \notin kept THEN <<>> ELSE IF text[i].k \in Blanks THEN <<SP>> ELSE <<text[i]>>])

NormalizeExpression(code) == Trim(Collapse(code))

-----------------------------------------------------------------------------
(* Attributes: [prefix, name, form], form saying what the value is: "true" *)
(* (none), "quoted", "expression" (JavaScript) or "interpolated".          *)

RECURSIVE ValueParts(_, _, _)
ValueParts(ts, p, parts) ==
    CASE ts[p].type \in {"ATTR_VALUE", "INTERPOLATION_TEXT"} ->
             ValueParts(ts, p + 1, Append(parts, ts[p].type))
      [] ts[p].type \in {"EXPRESSION_START", "EXPRESSION_UNESCAPED"} ->
             IF NextIs(ts, p, "JAVASCRIPT") /\ NextIs(ts, p + 1, "TAG_END")
             THEN ValueParts(ts, p + 3, Append(parts, "expression"))
             ELSE Wrong(p, "unterminated expression")
      [] OTHER -> Parsed(p, parts)

ValueForm(value, parts) ==
    CASE parts # <<"ATTR_VALUE">> -> "interpolated"
      [] parts = <<"ATTR_VALUE">> /\ value[1].k \in Quotes /\ value[1].k = Last(value).k -> "quoted"
      [] OTHER -> "expression"

ParseAttributeValue(ts, p) ==
    Then(ValueParts(ts, p, <<>>), LAMBDA q, parts : Parsed(q, ValueForm(ts[p].value, parts)))

Prefix(name) == IF name[1].k = "word" THEN "" ELSE name[1].k
Attribute(name, form) ==
    [prefix |-> Prefix(name), name |-> name[Len(name)].n, form |-> form]

ValueTypes == {"ATTR_VALUE", "INTERPOLATION_TEXT", "EXPRESSION_START", "EXPRESSION_UNESCAPED"}
ParseAttribute(ts, p) ==
    CASE ~NextIs(ts, p, "EQUALS") -> Parsed(p + 1, "true")
      [] NextIs(ts, p, "EQUALS") /\ ts[p + 2].type \notin ValueTypes -> Parsed(p + 2, "true")
      [] OTHER -> ParseAttributeValue(ts, p + 2)

NoAttributes == [plain |-> <<>>, conditional |-> <<>>]

ClosesCondition(ts, p) ==
    NextIs(ts, p, "JAVASCRIPT") /\ Len(ts[p + 1].value) = 1 /\ ts[p + 1].value[1].k = "}"

RECURSIVE ParseAttributesFrom(_, _, _)

IsCondition(code) == code[1].n = "if" /\ \E i \in DOMAIN code : code[i].k = "{"

EndCondition(ts, p, attrs) ==
    CASE attrs.conditional # <<>> -> Wrong(p, "nested conditional attributes")
      [] attrs.conditional = <<>> /\ ~(/\ Is(ts, p, "CODE_START")
                                      /\ ClosesCondition(ts, p) /\ NextIs(ts, p + 1, "TAG_END")) ->
             Wrong(p, "expected <% } %>")
      [] OTHER -> Parsed(p + 3, attrs.plain)

\* <% if (condition) { %> attributes <% } %>
ParseConditionalAttribute(ts, p) ==
    CASE ~NextIs(ts, p, "JAVASCRIPT") -> Wrong(p, "only if statements")
      [] NextIs(ts, p, "JAVASCRIPT") /\ ~IsCondition(ts[p + 1].value) -> Wrong(p, "only if statements")
      [] NextIs(ts, p, "JAVASCRIPT") /\ IsCondition(ts[p + 1].value) /\ ~NextIs(ts, p + 1, "TAG_END") ->
             Wrong(p, "expected %>")
      [] OTHER -> Then(ParseAttributesFrom(ts, p + 3, NoAttributes),
                       LAMBDA q, attrs : EndCondition(ts, q, attrs))

NextAttributes(ts, p, attrs) ==
    CASE Is(ts, p, "CODE_START") /\ ~ClosesCondition(ts, p) ->
             Then(ParseConditionalAttribute(ts, p), LAMBDA q, group :
                  ParseAttributesFrom(ts, q, [attrs EXCEPT !.conditional = Append(@, group)]))
      [] Is(ts, p, "ATTR_NAME") ->
             Then(ParseAttribute(ts, p), LAMBDA q, form :
                  ParseAttributesFrom(ts, q, [attrs EXCEPT
                      !.plain = Append(@, Attribute(ts[p].value, form))]))
      [] OTHER -> Parsed(p, attrs)

ParseAttributesFrom(ts, p, attrs) == NextAttributes(ts, SkipNewlines(ts, p), attrs)

ParseAttributes(ts, p) == ParseAttributesFrom(ts, p, NoAttributes)

-----------------------------------------------------------------------------
(* Content.  A node has its kind, the line it starts on, the last line it  *)
(* reaches, the line of its closing tag, its children, and what the kind   *)
(* needs besides.                                                          *)

Leaf(kind, name, line, last, code) ==
    [kind |-> kind, name |-> name, line |-> line, last |-> last, close |-> last,
     kids |-> <<>>, code |-> code, attrs |-> NoAttributes, self |-> FALSE, dynamic |-> FALSE]

ParseExpression(ts, p) ==
    CASE ~NextIs(ts, p, "JAVASCRIPT") -> Wrong(p, "expected JavaScript code")
      [] NextIs(ts, p, "JAVASCRIPT") /\ ~NextIs(ts, p + 1, "TAG_END") -> Wrong(p, "expected %>")
      [] OTHER -> Parsed(p + 3, Leaf("EXPRESSION", ts[p].type, ts[p].line, ts[p + 2].last,
                                     JoinLines(ts[p + 1].value)))

CodeBlock(ts, p, end) ==
    IF Is(ts, end, "TAG_END")
    THEN Parsed(end + 1, Leaf("CODE_BLOCK", "", ts[end - 1].line, ts[end].last,
                              IF end = p + 2 THEN ts[p + 1].value ELSE <<>>))
    ELSE Wrong(p, "unterminated code block")
ParseCodeBlock(ts, p) == CodeBlock(ts, p, IF NextIs(ts, p, "JAVASCRIPT") THEN p + 2 ELSE p + 1)

IsBlankText(node) == node.kind = "TEXT" /\ AllBlank(node.code)

\* A component's children are all slots, or none is.
MixedContent(nodes) ==
    LET content == {i \in DOMAIN nodes : ~IsBlankText(nodes[i])}
    IN  /\ \E i \in content : nodes[i].kind = "SLOT"
        /\ \E i \in content : nodes[i].kind # "SLOT"

\* What ends the children of an element: a closing token and, of a tag, its name.
Closing(type, next, names) == [type |-> type, next |-> next, names |-> names]
AtClosing(ts, p, closing) ==
    /\ Is(ts, p, closing.type)
    /\ closing.next # "" =>
         /\ NextIs(ts, p, closing.next)
         /\ (IF closing.next = "DYNAMIC_TAG_NAME" THEN NormalizeExpression(ts[p + 1].value)
             ELSE ts[p + 1].value) \in closing.names

\* A dynamic tag is closed by another expression than the one that opened it.
DynamicMismatch(ts, p, closing) ==
    /\ closing.next = "DYNAMIC_TAG_NAME"
    /\ Is(ts, p, "TAG_CLOSE") /\ NextIs(ts, p, "DYNAMIC_TAG_NAME")

RECURSIVE ParseContent(_, _), ParseChildren(_, _, _, _), ParseSlot(_, _), ParseTag(_, _)

ParseChildren(ts, p, closing, kids) ==
    CASE AtClosing(ts, p, closing) -> Parsed(p, kids)
      [] ~AtClosing(ts, p, closing) /\ AtEnd(ts, p) -> Wrong(p, "unclosed")
      [] ~AtClosing(ts, p, closing) /\ DynamicMismatch(ts, p, closing) ->
             Wrong(p, "mismatched dynamic tags")
      [] OTHER -> Then(ParseContent(ts, p), LAMBDA q, child :
                       ParseChildren(ts, q, closing, Append(kids, child)))

\* The node with its children, which end at the closing tag ts[end].
Closed(ts, end, node, kids) ==
    IF NextIs(ts, end + 1, "GT")
    THEN Parsed(end + 3, [node EXCEPT !.kids = kids, !.close = ts[end].line, !.last = ts[end + 2].last])
    ELSE Wrong(end, "expected >")

SlotBody(ts, q, slot) ==
    Then(ParseChildren(ts, q, Closing("SLOT_END", "", {}), <<>>), LAMBDA end, kids :
         IF ts[end + 1].value # slot.name THEN Wrong(end, "mismatched tag")
         ELSE Closed(ts, end, slot, kids))

AfterSlotAttributes(ts, q, attrs, slot) ==
    CASE attrs # NoAttributes -> Wrong(q, "slot attribute")
      [] attrs = NoAttributes /\ ts[q].type \in {"SLASH", "SELF_CLOSING"} ->
             Parsed(IF Is(ts, q, "SLASH") THEN q + 2 ELSE q + 1, [slot EXCEPT !.self = TRUE])
      [] attrs = NoAttributes /\ Is(ts, q, "GT") -> SlotBody(ts, q + 1, slot)
      [] OTHER -> Wrong(q, "expected >")

ParseSlot(ts, p) ==
    Then(ParseAttributes(ts, p + 2), LAMBDA q, attrs :
         AfterSlotAttributes(ts, q, attrs,
             Leaf("SLOT", ts[p + 1].value, ts[p].line, ts[q].last, <<>>)))

HasAttribute(attrs, prefix, name) ==
    \E i \in DOMAIN attrs.plain : attrs.plain[i].prefix = prefix /\ attrs.plain[i].name = name

\* <div $redrawable> is <Redrawable tag="div">.
Redrawable(attrs, name) ==
    [attrs EXCEPT !.plain =
        Append(SelectSeq(@, LAMBDA a : a.prefix # "$" \/ a.name # "redrawable"),
               [prefix |-> "tag=", name |-> name, form |-> "quoted"])]

TagNode(ts, p, q, attrs, redraw, dynamic) ==
    LET written == ts[p + 1].value
        component == dynamic \/ redraw \/ IsComponentName(written)
        kind == IF component /\ (dynamic \/ written \notin VoidElements \/ Is(ts, q, "SELF_CLOSING"))
                THEN "COMPONENT" ELSE "TAG"
        name == IF redraw THEN "Redrawable" ELSE IF dynamic THEN "{}" ELSE written
    IN  [Leaf(kind, name, ts[p].line, ts[q].last, IF dynamic THEN JoinLines(written) ELSE <<>>)
         EXCEPT !.attrs = IF redraw THEN Redrawable(attrs, written) ELSE attrs, !.dynamic = dynamic]

ClosingOf(node, written) ==
    IF node.dynamic
    THEN Closing("TAG_CLOSE", "DYNAMIC_TAG_NAME", {NormalizeExpression(written)})
    ELSE Closing("TAG_CLOSE", "TAG_NAME", {node.name, written})

TagBody(ts, q, node, written) ==
    Then(ParseChildren(ts, q + 1, ClosingOf(node, written), <<>>), LAMBDA end, kids :
         IF node.kind = "COMPONENT" /\ MixedContent(kids) THEN Wrong(q, "mixed content")
         ELSE Closed(ts, end, node, kids))

AfterTagAttributes(ts, q, node, written) ==
    CASE Is(ts, q, "SELF_CLOSING") -> Parsed(q + 1, [node EXCEPT !.self = TRUE])
      [] ts[q].type \notin {"SELF_CLOSING", "GT"} -> Wrong(q, "expected >")
      [] Is(ts, q, "GT") /\ ~node.dynamic /\ written \in VoidElements ->
             Parsed(q + 1, [node EXCEPT !.self = TRUE])
      [] OTHER -> TagBody(ts, q, node, written)

TagEnd(ts, q) == IF Is(ts, q, "SELF_CLOSING") THEN q ELSE SkipNewlines(ts, q)

ParseTag(ts, p) ==
    LET dynamic == NextIs(ts, p, "DYNAMIC_TAG_NAME")
        written == ts[p + 1].value
        Node(q, attrs) == TagNode(ts, p, q, attrs, HasAttribute(attrs, "$", "redrawable"), dynamic)
    IN  CASE ~dynamic /\ written = "style" -> Wrong(p, "forbidden tag")
          [] dynamic /\ AllBlank(written) -> Wrong(p, "empty expression")
          [] OTHER -> Then(ParseAttributes(ts, p + 2), LAMBDA q, attrs :
                           AfterTagAttributes(ts, TagEnd(ts, q), Node(TagEnd(ts, q), attrs), written))

\* A newline is placed on the line it leads into; whatever else cannot stand here, a
\* stray closing tag or %> or a nested definition, is an error.
ParseContent(ts, p) ==
    LET t == ts[p]
    IN  CASE t.type = "TEXT" -> Parsed(p + 1, Leaf("TEXT", "", t.line, t.last, t.value))
          [] t.type \in {"EXPRESSION_START", "EXPRESSION_UNESCAPED", "EXPRESSION_BR"} ->
                 ParseExpression(ts, p)
          [] t.type = "CODE_START" -> ParseCodeBlock(ts, p)
          [] t.type = "SLOT_START" -> ParseSlot(ts, p)
          [] t.type = "TAG_OPEN" -> ParseTag(ts, p)
          [] t.type = "NEWLINE" -> Parsed(p + 1, Leaf("TEXT", "", t.last, t.last, t.value))
          [] OTHER -> Wrong(p, "unexpected content")

-----------------------------------------------------------------------------
RECURSIVE SkipBlank(_, _)
SkipBlank(ts, p) ==
    IF Is(ts, p, "NEWLINE") \/ (Is(ts, p, "TEXT") /\ AllBlank(ts[p].value))
    THEN SkipBlank(ts, p + 1) ELSE p

\* The attributes of a definition all have a value, and it is static.
StaticAttributes(attrs) ==
    /\ attrs.conditional = <<>>
    /\ \A i \in DOMAIN attrs.plain :
           /\ attrs.plain[i].form \in {"quoted", "expression"}
           /\ attrs.plain[i].prefix # "$" \/ attrs.plain[i].name # "sid"

DefineEnd(ts, end, kids, node) ==
    CASE ts[end + 1].value # node.name -> Wrong(end, "mismatched tag")
      [] ts[end + 1].value = node.name /\ MixedContent(kids) -> Wrong(end, "mixed content")
      [] OTHER -> Closed(ts, end, [node EXCEPT !.self = \E i \in DOMAIN kids : kids[i].kind = "SLOT"],
                         kids)

DefineBody(ts, q, node) ==
    CASE ~StaticAttributes(node.attrs) -> Wrong(q, "dynamic attribute on a definition")
      [] StaticAttributes(node.attrs) /\ ~Is(ts, q, "GT") -> Wrong(q, "expected >")
      [] OTHER -> Then(ParseChildren(ts, q + 1, Closing("DEFINE_END", "", {}), <<>>),
                       LAMBDA end, kids : DefineEnd(ts, end, kids, node))

ParseComponentDefinition(ts, p) ==
    IF ~IsComponentName(ts[p + 1].value) THEN Wrong(p, "component name")
    ELSE Then(ParseAttributes(ts, p + 2), LAMBDA q, attrs :
              DefineBody(ts, q, [Leaf("DEFINE", ts[p + 1].value, ts[p].line, ts[p].last, <<>>)
                                 EXCEPT !.attrs = attrs]))

\* Nothing but white space follows the definition.
EndOfFile(ts, end, define) ==
    IF AtEnd(ts, SkipBlank(ts, end)) THEN Parsed(end, define)
    ELSE Wrong(end, "content after the definition")

ParseFrom(ts, p) ==
    CASE AtEnd(ts, p) -> Wrong(p, "no component")
      [] ~AtEnd(ts, p) /\ ~Is(ts, p, "DEFINE_START") -> Wrong(p, "expected <Define:")
      [] OTHER -> Then(ParseComponentDefinition(ts, p),
                       LAMBDA end, define : EndOfFile(ts, end, define))

Parse(ts) == ParseFrom(ts, SkipBlank(ts, 1))
=============================================================================
