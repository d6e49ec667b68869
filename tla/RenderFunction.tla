---------------------------- MODULE RenderFunction ----------------------------
(***************************************************************************)
(* What a compiled render function outputs: component.ts calls it with a   *)
(* content function, markup.ts collects what it pushes, and                *)
(* instruction-processor.ts turns that into the page.  A page is a         *)
(* sequence of entries [what, name, attrs, by], `by` the component in      *)
(* whose context the entry is bound.                                       *)
(*                                                                         *)
(* The function is TemplateCodegen's, of a component "T".  Its author's    *)
(* blocks are if and for statements: a choice says how many times each is  *)
(* run.  The components it invokes are "C" and "Redrawable", which wrap    *)
(* content() in an element with a handler, and "D", which shows its slots  *)
(* "s" and "t"; D is also the parent template of a T made of slots only.   *)
(* The components' own lifecycle, ids and default attributes are left out. *)
(***************************************************************************)
EXTENDS TemplateCodegen

Entry(what, name, attrs, by) == [what |-> what, name |-> name, attrs |-> attrs, by |-> by]

\* Text as it was written, white space and markup included.
Verbatim(atom, by) == Entry("verbatim", atom.k \o atom.n, {}, by)

Event == {[name |-> "@click", form |-> "expression"]}

\* markup_has_content: an element, a component, a value, or text that is not blank.
MarkupHasContent(page) == \E i \in DOMAIN page : page[i].what # "sp"

\* A slot written empty is like one that is absent.
ContentOrEmpty(page) == IF MarkupHasContent(page) THEN page ELSE <<>>

\* Faulty variant: content is bound where it is shown.
Receiver(writer, receiver) == receiver

\* Content written in one template is bound there, also where another one shows it.
Definer(writer, receiver) == writer

-----------------------------------------------------------------------------
\* A raw tag's attributes are written into its HTML; a function cannot be, and its handler
\* is dropped.
Handlers == {"@click"}
Written(attrs) == {a \in attrs : a.name \notin Handlers}

\* process_tag_to_html, process_rawtag_to_html and the text between them.
ProcessInstruction(out, by) ==
    CASE out.what = "text" ->
             [i \in DOMAIN out.name |-> Entry(out.name[i].k, out.name[i].n, {}, by)]
      [] out.what = "verbatim" -> [i \in DOMAIN out.name |-> Verbatim(out.name[i], by)]
      [] out.what = "rawtag" ->
             [i \in DOMAIN out.name |->
                 CASE i = 1 -> Entry("tag", out.name[i].n, Written(out.attrs), by)
                   [] i = Len(out.name) -> Entry("endtag", out.name[i].n, {}, by)
                   [] OTHER -> Verbatim(out.name[i], by)]
      [] out.what \in {"tag", "selfclosing"} -> <<Entry("tag", out.name, out.attrs, by)>>
      [] OTHER -> <<Entry("endtag", out.name, {}, by)>>

\* The template of a component that is invoked with this content and these slots, rendered
\* in the component `by`.
TemplateOf(name, by, content, slots) ==
    IF name = "D"
    THEN <<Entry("tag", "u", Event, by)>> \o ContentOrEmpty(slots["s"])
         \o <<Entry("endtag", "u", {}, by)>> \o ContentOrEmpty(slots["t"])
    ELSE <<Entry("tag", "u", Event, by)>> \o ContentOrEmpty(content)
         \o <<Entry("endtag", "u", {}, by)>>

NoSlots == [s |-> <<>>, t |-> <<>>]

\* process_component_to_html and initialize_component.
ProcessComponent(out, by, content, slots) ==
    <<Entry("component", out.name, out.attrs, by)>>
    \o TemplateOf(out.name, out.name, content, slots)
    \o <<Entry("endcomponent", out.name, {}, by)>>

-----------------------------------------------------------------------------
(* Running the function.                                                   *)

\* Where the bracket opened at i closes.
MatchOf(code, i) ==
    LET stack == BracketStack(code)
    IN  CHOOSE m \in i + 1..Len(code) :
            /\ Len(stack[m]) < Len(stack[i])
            /\ \A n \in i..m - 1 : Len(stack[n]) >= Len(stack[i])

\* The component's own content().
Given == <<Entry("word", "given", {}, "host")>>

\* How many times the block opened at i runs.
Times(code, i, choice) ==
    choice[Cardinality({j \in 1..i : code[j].atom.k = "{"})]

Repeat(page, n) == FlattenSeq([i \in 1..n |-> page])

RECURSIVE Execute(_, _, _, _, _), SlotsOf(_, _, _, _, _)

\* What the statements i..j output into a buffer whose entries are bound to `by`.
Execute(code, i, j, by, choice) ==
    LET k == code[i].atom.k
        out == code[i].atom.out
        m == MatchOf(code, i)
        Inside(context) == Execute(code, i + 1, m - 1, context, choice)
        IsCall == \E n \in i + 1..m - 1 : code[n].atom.n = "content"
    IN  CASE i > j -> <<>>
          [] i <= j /\ k = "push" ->
                 (IF out.what = "component" THEN ProcessComponent(out, by, <<>>, NoSlots)
                  ELSE ProcessInstruction(out, by))
                 \o Execute(code, i + 1, j, by, choice)
          [] i <= j /\ k = "content" ->
                 ProcessComponent(out, by, Inside(Definer(by, out.name)), NoSlots)
                 \o Execute(code, m + 1, j, by, choice)
          [] i <= j /\ k = "slots" ->
                 ProcessComponent(out, by, <<>>,
                                  SlotsOf(code, i + 1, m - 1, Definer(by, out.name), choice).slots)
                 \o Execute(code, m + 1, j, by, choice)
          [] i <= j /\ k = "expression" ->
                 (IF IsCall THEN Given ELSE <<Entry("expression", out.name, {}, by)>>)
                 \o Execute(code, m + 1, j, by, choice)
          [] i <= j /\ k = "{" ->
                 Repeat(Inside(by), Times(code, i, choice)) \o Execute(code, m + 1, j, by, choice)
          [] OTHER -> Execute(code, i + 1, j, by, choice)

\* The buffers that the slot functions i..j return; of two with one name the later is kept.
SlotsOf(code, i, j, by, choice) ==
    LET m == MatchOf(code, i)
        rest == SlotsOf(code, m + 1, j, by, choice)
        page == Execute(code, i + 1, m - 1, by, choice)
    IN  CASE i > j -> [slots |-> NoSlots, named |-> {}]
          [] i <= j /\ code[i].atom.out.name \in rest.named -> rest
          [] OTHER -> [slots |-> [rest.slots EXCEPT ![code[i].atom.out.name] = page],
                       named |-> rest.named \cup {code[i].atom.out.name}]

\* _render: a template made of slots only is its parent's with these slots.
Render(built, choice) ==
    IF built.slotonly
    THEN TemplateOf("D", "T", <<>>, SlotsOf(built.code, 1, Len(built.code), "T", choice).slots)
    ELSE Execute(built.code, 1, Len(built.code), "T", choice)
=============================================================================
