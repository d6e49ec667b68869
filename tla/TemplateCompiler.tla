--------------------------- MODULE TemplateCompiler ---------------------------
(***************************************************************************)
(* A template from its text to its page: it is written piece by piece,     *)
(* compiled once (compileTemplate) and rendered.                           *)
(*                                                                         *)
(* A piece is some text with its meaning: [atoms, does], where `does` is   *)
(* the sequence of things the text means to a reader of the language,      *)
(* each [what, name, attrs, line] with the line, counted from the piece's  *)
(* first, it begins on.  What the compiler and the page must be is said in *)
(* terms of the meaning alone; the compiler sees only the atoms.           *)
(***************************************************************************)
EXTENDS RenderFunction

CONSTANTS Vocabularies,   \* the lists of pieces that templates are written with
          MaxPieces       \* how many of them a template may have

VARIABLES vocabulary,   \* the list whose pieces this template uses
          template,     \* the template so far: which of them, in order
          phase,        \* "writing", "compiled" or "rendered"
          built,        \* what compileTemplate returned
          choice,       \* how many times each block of the function runs
          page          \* what the function output

vars == <<vocabulary, template, phase, built, choice, page>>

Piece == <<>> \o Vocabularies      \* piece j of list v is Piece[v][j]
pieces == [i \in DOMAIN template |-> Piece[vocabulary][template[i]]]

Define == <<[k |-> "<Define:", n |-> "T"], [k |-> ">", n |-> ""]>>
EndDefine == <<[k |-> "</Define:", n |-> "T"], [k |-> ">", n |-> ""]>>

Text(written) == FlattenSeq([i \in DOMAIN written |-> written[i].atoms])
Source(written) == Define \o Text(written) \o EndDefine

Init ==
    /\ vocabulary \in DOMAIN Piece
    /\ template = <<>>
    /\ phase = "writing"
    /\ built = NoRender
    /\ choice = <<>>
    /\ page = <<>>

Write(piece) ==
    /\ phase = "writing" /\ Len(template) < MaxPieces
    /\ template' = Append(template, piece)
    /\ UNCHANGED <<vocabulary, phase, built, choice, page>>

Compile ==
    /\ phase = "writing"
    /\ phase' = "compiled"
    /\ built' = CompileTemplate(Source(pieces))
    /\ UNCHANGED <<vocabulary, template, choice, page>>

Blocks(code) == Cardinality({i \in DOMAIN code : code[i].atom.k = "{"})

RenderPage(times) ==
    /\ phase = "compiled" /\ built.ok
    /\ phase' = "rendered"
    /\ choice' = times
    /\ page' = Render(built, times)
    /\ UNCHANGED <<vocabulary, template, built>>

Next ==
    \/ \E piece \in DOMAIN Piece[vocabulary] : Write(piece)
    \/ Compile
    \/ \E times \in [1..Blocks(built.code) -> 0..2] : RenderPage(times)

Spec == Init /\ [][Next]_vars

-----------------------------------------------------------------------------
(* The template as its author means it.                                    *)

LineOf(written, i) == PositionAt(Text(written), Len(Text(SubSeq(written, 1, i - 1))) + 1)

Meaning(written) ==
    FlattenSeq([i \in DOMAIN written |->
        [e \in DOMAIN written[i].does |->
            [written[i].does[e] EXCEPT !.line = @ + LineOf(written, i)]]])

EndOf == [tag |-> "endtag", component |-> "endcomponent", slot |-> "endslot"] @@ ("{" :> "}")
Opens(e) == e.what \in DOMAIN EndOf
Closes(b, a) == Opens(a) /\ b.what = EndOf[a.what] /\ (a.what = "{" \/ a.name = b.name)

\* Everything opened is closed, in reverse order: neighbours that match can be taken out
\* until nothing is left.
RECURSIVE Nested(_)
Nested(m) ==
    LET i == FirstOf({j \in 1..Len(m) - 1 : Closes(m[j + 1], m[j])})
    IN  m = <<>> \/ (i # 0 /\ Nested(SubSeq(m, 1, i - 1) \o SubSeq(m, i + 2, Len(m))))

Only(m, whats) == SelectSeq(m, LAMBDA e : e.what \in whats)
Elements == {"tag", "component", "slot", "endtag", "endcomponent", "endslot"}
Scopes == (Elements \ {"tag", "endtag"}) \cup {"{", "}"}

\* Where what is opened at i ends, and what it holds.
EndAt(m, i) ==
    LET kinds == IF m[i].what = "{" THEN Scopes ELSE Elements
    IN  FirstOf({j \in i + 1..Len(m) : m[j].what \in kinds /\ Nested(Only(SubSeq(m, i, j), kinds))})
Body(m, i) == SubSeq(m, i + 1, EndAt(m, i) - 1)
Children(m) == {i \in DOMAIN m : Nested(Only(SubSeq(m, 1, i - 1), Elements))}
HasSlot(m) == \E i \in Children(m) : m[i].what = "slot"

IsRaw(e) == e.what = "tag" /\ e.name \in {"textarea", "pre"}

\* Components, or the definition, hold slots or content, and nothing else holds slots.
SlotsTogether(m) ==
    HasSlot(m) => \A i \in Children(m) : m[i].what \in {"slot", "sp", "nl"}

Accepted(m) ==
    /\ \A i \in DOMAIN m : m[i].what # "error"
    /\ Nested(Only(m, Elements))
    /\ Nested(Only(m, Scopes))
    /\ SlotsTogether(m)
    /\ \A i \in DOMAIN m :
           CASE m[i].what = "component" -> SlotsTogether(Body(m, i))
             [] m[i].what = "slot" -> ~HasSlot(Body(m, i))
             [] m[i].what = "tag" ->
                    /\ ~HasSlot(Body(m, i))
                    /\ IsRaw(m[i]) => Only(Body(m, i), {"word", "sp", "nl", "verbatim", "expression"}) = Body(m, i)
             [] OTHER -> TRUE

\* The component that the expression of a dynamic tag names.
Invoked(name) == IF name = "{y}" THEN "C" ELSE name

BlocksIn(m) == Len(Only(m, {"{"}))
After(times, n) == SubSeq(times, n + 1, Len(times))

ShownText(e) == Entry(IF e.what = "nl" THEN "sp" ELSE e.what, e.name, e.attrs, "T")
RawText(e) ==
    Entry("verbatim", CASE e.what = "expression" -> "value" \o e.name
                        [] e.what = "verbatim" -> e.name
                        [] OTHER -> e.what \o e.name, {}, "T")

RECURSIVE Reading(_, _), SlotReading(_, _, _)

\* What m shows if its blocks run as often as `times` says, one after the other.
Reading(m, times) ==
    LET e == m[1]
        body == Body(m, 1)
        Onward(i, n) == Reading(SubSeq(m, i, Len(m)), After(times, n))
        AfterBody == Onward(EndAt(m, 1) + 1, BlocksIn(body))
        Component(content, slots) ==
            LET name == Invoked(e.name)
            IN  <<Entry("component", name, e.attrs, "T")>>
                \o TemplateOf(name, name, content, slots)
                \o <<Entry("endcomponent", name, {}, "T")>>
    IN  CASE m = <<>> -> <<>>
          [] m # <<>> /\ e.what = "{" ->
                 Repeat(Reading(body, After(times, 1)), times[1])
                 \o Onward(EndAt(m, 1) + 1, BlocksIn(body) + 1)
          [] m # <<>> /\ e.what = "component" ->
                 (IF HasSlot(body)
                  THEN Component(<<>>, [s |-> SlotReading(body, "s", times),
                                        t |-> SlotReading(body, "t", times)])
                  ELSE Component(Reading(body, times), NoSlots)) \o AfterBody
          [] m # <<>> /\ e.what = "leaf" -> Component(<<>>, NoSlots) \o Onward(2, 0)
          [] m # <<>> /\ IsRaw(e) ->
                 <<Entry("tag", e.name, e.attrs, "T")>>
                 \o [i \in DOMAIN body |-> RawText(body[i])]
                 \o <<Entry("endtag", e.name, {}, "T")>> \o AfterBody
          [] m # <<>> /\ e.what = "void" -> <<Entry("tag", e.name, e.attrs, "T")>> \o Onward(2, 0)
          [] m # <<>> /\ e.what = "call" -> Given \o Onward(2, 0)
          [] m # <<>> /\ e.what = "code" -> Onward(2, 0)
          [] OTHER -> <<ShownText(e)>> \o Onward(2, 0)

\* What the slot shows; of two with one name it is the later.
SlotReading(m, name, times) ==
    LET at == {i \in Children(m) : m[i].what = "slot" /\ m[i].name = name}
        i == CHOOSE i \in at : \A j \in at : j <= i
    IN  IF at = {} THEN <<>>
        ELSE Reading(Body(m, i), After(times, BlocksIn(SubSeq(m, 1, i))))

PageOf(m, times) ==
    IF HasSlot(m)
    THEN TemplateOf("D", "T", <<>>, [s |-> SlotReading(m, "s", times), t |-> SlotReading(m, "t", times)])
    ELSE Reading(m, times)

\* The browser shows a run of blanks as one.
Shown(p) ==
    FlattenSeq([i \in DOMAIN p |->
        IF i > 1 /\ p[i].what = "sp" /\ p[i - 1].what = "sp" THEN <<>> ELSE <<p[i]>>])

-----------------------------------------------------------------------------
(* Where things are, in the template and in the function.                  *)

Place(what, name, line) == [what |-> what, name |-> name, line |-> line]

\* A raw element is one statement, if it holds anything; an empty component too.
InsideRaw(m, i) ==
    \E j \in 1..i - 1 : IsRaw(m[j]) /\ Body(m, j) # <<>> /\ i <= EndAt(m, j)
EndsEmpty(m, i) == m[i].what = "endcomponent" /\ m[i - 1].what = "component"

Places(m) ==
    FlattenSeq([i \in DOMAIN m |->
        LET e == m[i]
            At_(what) == <<Place(what, Invoked(e.name), e.line)>>
        IN  CASE InsideRaw(m, i) \/ EndsEmpty(m, i) \/ e.what \in {"sp", "nl", "word", "verbatim"} -> <<>>
              [] e.what \in {"tag", "void"} -> At_("tag")
              [] e.what \in {"component", "leaf"} -> At_("component")
              [] e.what = "call" -> <<Place("expression", "EXPRESSION_START", e.line)>>
              [] e.what \in {"{", "}", "endcomponent", "endslot"} -> <<Place(e.what, "", e.line)>>
              [] OTHER -> At_(e.what)])

\* The statements of the function, the author's code in an expression left out.
PlacesBuilt(code) ==
    LET inExpression(i) ==
            \E j \in 1..i : /\ code[j].atom.k = "expression"
                            /\ \A k \in j..i - 1 : code[k].atom.k # "endexpression"
    IN  FlattenSeq([i \in DOMAIN code |->
            LET s == code[i].atom
                At_(what, name) == <<Place(what, name, code[i].at)>>
            IN  CASE s.k = "expression" -> At_("expression", s.out.name)
                  [] s.k # "expression" /\ inExpression(i) -> <<>>
                  [] s.k = "push" ->
                         CASE s.out.what \in {"tag", "selfclosing"} -> At_("tag", s.out.name)
                           [] s.out.what = "rawtag" -> At_("tag", s.out.name[1].n)
                           [] s.out.what \in {"endtag", "component"} -> At_(s.out.what, s.out.name)
                           [] OTHER -> <<>>
                  [] s.k \in {"content", "slots"} -> At_("component", s.out.name)
                  [] s.k = "slot" -> At_("slot", s.out.name)
                  [] s.k \in {"endcontent", "endslots"} -> At_("endcomponent", "")
                  [] s.k \in {"endslot", "{", "}"} -> At_(s.k, "")
                  [] s.k = "word" -> At_("code", s.n)
                  [] OTHER -> <<>>])

-----------------------------------------------------------------------------
(* Properties.                                                             *)

\* A template is rejected if and only if something in it does not nest or is misplaced:
\* parser.ts decides on the elements, codegen.ts, by way of the JavaScript it generates, on
\* blocks and functions, so what is accepted is nobody's single decision.
NestingDecided ==
    phase = "compiled" => built.ok = Accepted(Meaning(pieces))

\* Generated line N is source line N: every statement, brace and word of code is on the
\* line of the function that its author's text is on in the template, and in its order.
LinesKept ==
    (phase = "compiled" /\ built.ok) => PlacesBuilt(built.code) = Places(Meaning(pieces))

\* The page is what the author wrote, however often its blocks run: nothing is lost to a
\* comment, doubled or moved, only blanks next to blanks are dropped, raw text keeps its
\* white space, and content a component shows is bound to the component that wrote it.
RendersSource ==
    phase = "rendered" => Shown(page) = Shown(PageOf(Meaning(pieces), choice))

\* LLM_REFERENCE.md: "`@click` works on child elements inside the template", so every
\* element that has a handler in the template has it on the page.
HandlersAttached ==
    phase = "rendered" =>
        LET handled(p) == SelectSeq(p, LAMBDA e : \E a \in e.attrs : a.name \in Handlers)
        IN  handled(page) = handled(PageOf(Meaning(pieces), choice))

\* codegen.ts says of an HTML comment that it "is emitted exactly as written", whatever is
\* in it.
CommentsAsWritten ==
    phase = "rendered" =>
        Only(page, {"verbatim"}) = Only(PageOf(Meaning(pieces), choice), {"verbatim"})
=============================================================================
