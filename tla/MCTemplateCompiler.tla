------------------------- MODULE MCTemplateCompiler -------------------------
(* The pieces templates are written with, in vocabularies that bring       *)
(* together what interacts.  A name in quotes stands for the atom of that  *)
(* kind.                                                                   *)
EXTENDS TemplateCompiler

K(kinds) == [i \in DOMAIN kinds |-> [k |-> kinds[i], n |-> ""]]
W(name) == <<[k |-> "word", n |-> name]>>
A(kind, name) == <<[k |-> kind, n |-> name]>>
Does(what, name, line) == [what |-> what, name |-> name, attrs |-> {}, line |-> line]
Means(atoms, does) == [atoms |-> atoms, does |-> does]
Simple(atoms, what, name) == Means(atoms, <<Does(what, name, 0)>>)

Blank == Simple(K(<<"sp">>), "sp", "")
Newline == Simple(K(<<"nl">>), "nl", "")
Word == Simple(W("x"), "word", "x")
Open(tag) == Simple(A("<tag", tag) \o K(<<">">>), "tag", tag)
Close(tag) == Simple(A("</tag", tag) \o K(<<">">>), "endtag", tag)
Comp(name) == Simple(A("<tag", name) \o K(<<">">>), "component", name)
EndComp(name) == Simple(A("</tag", name) \o K(<<">">>), "endcomponent", name)
SlotOpen(name) == Simple(A("<Slot:", name) \o K(<<">">>), "slot", name)
SlotEnd(name) == Simple(A("</Slot:", name) \o K(<<">">>), "endslot", name)
Condition == W("if") \o K(<<"(">>) \o W("y") \o K(<<")", "{">>)
If == Means(K(<<"<%">>) \o Condition \o K(<<"%>">>),
            <<Does("code", "if", 0), Does("code", "y", 0), Does("{", "", 0)>>)
\* <% // y %> (newline) if (y) { %>, where the first %> is part of the comment.
IfBelow == Means(K(<<"<%", "//">>) \o W("y") \o K(<<"%>", "nl">>) \o Condition \o K(<<"%>">>),
                 <<Does("code", "if", 1), Does("code", "y", 1), Does("{", "", 1)>>)
Fi == Simple(K(<<"<%", "}", "%>">>), "}", "")
Expression == Simple(K(<<"<%=">>) \o W("y") \o K(<<"%>">>), "expression", "EXPRESSION_START")
\* An expression over two lines, with a comment on the first.
Below == Simple(K(<<"<%=", "nl">>) \o W("y") \o K(<<"//", "{", "nl", "%>">>),
                "expression", "EXPRESSION_START")
Content == Simple(K(<<"<%=">>) \o W("content") \o K(<<"(", ")", "%>">>), "call", "")
RawContentCall == Simple(K(<<"<%!=">>) \o W("content") \o K(<<"(", ")", "%>">>), "error", "")
\* Two statements with an empty line between them.
Code == Means(K(<<"<%", "nl">>) \o W("y") \o K(<<";", "nl", "nl">>) \o W("z") \o K(<<";", "nl", "%>">>),
              <<Does("code", "y", 1), Does("code", "z", 3)>>)
\* Brackets and delimiters in a string, a template literal over two lines and a comment.
Literals == Means(K(<<"<%">>) \o W("y") \o K(<<"=", "quote", "{", "%>", "quote", ";", "nl">>)
                  \o W("z") \o K(<<"=", "tick", "}", "nl", "${">>) \o W("y") \o K(<<"}", "(", "tick">>)
                  \o K(<<"/*", ")", "*/", "%>">>),
                  <<Does("code", "y", 0), Does("code", "z", 1)>>)
Regex == Simple(K(<<"<%=", "/", "quote", "}", "/", "nl", "%>">>), "expression", "EXPRESSION_START")
Comment == Means(K(<<"<!--", "sp">>) \o A("<tag", "b") \o K(<<"nl", "-->">>),
                 <<Does("verbatim", "<!--", 0), Does("verbatim", "sp", 0), Does("verbatim", "<tagb", 0),
                   Does("verbatim", "nl", 0), Does("verbatim", "-->", 1)>>)
TemplateComment == Means(K(<<"<%--">>) \o W("x") \o K(<<"nl", "%>", "--%>">>),
                         <<Does("nl", "", 0)>>)

Attr(name, form) == [name |-> name, form |-> form]
With(piece, attrs) == [piece EXCEPT !.does[1].attrs = attrs]
Titled == With(Simple(A("<tag", "b") \o K(<<"nl">>) \o W("title") \o K(<<"=", "quote">>) \o W("x")
                      \o K(<<"<%=">>) \o W("y") \o K(<<"%>", "quote", "nl", ">">>), "tag", "b"),
               {Attr("title", "interpolated")})
Handled == With(Simple(A("<tag", "b") \o K(<<"sp", "<%">>) \o Condition \o K(<<"%>", "@">>) \o W("click")
                       \o K(<<"=">>) \o W("y") \o K(<<"<%", "}", "%>", ">">>), "tag", "b"),
                {Attr("@click", "conditional")})
Redrawn == With(Simple(A("<tag", "b") \o K(<<"sp", "$">>) \o W("redrawable") \o K(<<"sp", "/>">>),
                       "leaf", "Redrawable"), {Attr("tag=b", "quoted")})
Break == With(Simple(A("<tag", "br") \o K(<<"nl", "$">>) \o W("a") \o K(<<"=", "(">>) \o W("y")
                     \o K(<<")", ">">>), "void", "br"), {Attr("$a", "expression")})
Unquoted == Simple(A("<tag", "br") \o K(<<"sp">>) \o W("a") \o K(<<"=">>) \o W("y") \o K(<<">">>), "error", "")
Dynamic == Simple(K(<<"<", "{">>) \o W("y") \o K(<<"}", ">">>), "component", "{y}")
EndDynamic == Simple(K(<<"</", "{", "sp">>) \o W("y") \o K(<<"nl", "}", ">">>), "endcomponent", "{y}")
Pre == Means(A("<tag", "pre") \o K(<<">", "nl">>) \o A("<tag", "b") \o K(<<">", "sp", "sp">>)
             \o A("</tag", "pre") \o K(<<">">>),
             <<Does("tag", "pre", 0), Does("nl", "", 0), Does("verbatim", "<tagb", 1), Does("verbatim", ">", 1),
               Does("sp", "", 1), Does("sp", "", 1), Does("endtag", "pre", 1)>>)

\* <D> and a slot with an element in it, each on lines of their own.
SlottedD == Means(A("<tag", "D") \o K(<<">", "nl">>), <<Does("component", "D", 0), Does("nl", "", 0)>>)
SlotT == Means(A("<Slot:", "t") \o K(<<">", "nl">>) \o A("<tag", "b") \o K(<<">">>) \o A("</tag", "b")
               \o K(<<">">>) \o A("</Slot:", "t") \o K(<<">">>),
               <<Does("slot", "t", 0), Does("nl", "", 0), Does("tag", "b", 1), Does("endtag", "b", 1),
                 Does("endslot", "t", 1)>>)

\* A comment that quotes a code block with a remark in it.
CommentedCode == Means(K(<<"<!--", "<%", "//">>) \o W("x") \o K(<<"nl", "%>", "-->">>),
                       <<Does("verbatim", "<!--", 0), Does("verbatim", "<%", 0), Does("verbatim", "//", 0),
                         Does("verbatim", "wordx", 0), Does("verbatim", "nl", 0),
                         Does("verbatim", "%>", 1), Does("verbatim", "-->", 1)>>)
\* <textarea @click=y>
HandledArea == With(Simple(A("<tag", "textarea") \o K(<<"sp", "@">>) \o W("click") \o K(<<"=">>) \o W("y")
                           \o K(<<">">>), "tag", "textarea"), {Attr("@click", "expression")})
MCHandled == <<<<HandledArea, Word, Close("textarea"), Handled, Close("b")>>>>

MCCommentedCode == <<<<Newline, CommentedCode, Code>>>>

MCVocabularies ==
    <<<<Newline, Open("b"), Close("b"), IfBelow, Fi>>,             \* elements and blocks overlap
     <<Blank, If, Fi, Comp("C"), EndComp("C")>>,                  \* functions and blocks do not
     <<SlottedD, EndComp("D"), SlotOpen("s"), SlotEnd("s"), SlotT>>,
     <<Titled, Handled, Close("b"), Redrawn, Break>>,             \* attributes
     <<Blank, Dynamic, EndDynamic, EndComp("C"), Content>>,
     <<Content, RawContentCall, Unquoted, Comp("C"), EndComp("C")>>,
     <<Newline, Open("textarea"), Close("textarea"), Pre, Below>>,
     <<Blank, Open("b"), Close("b"), Comment, TemplateComment>>,
     <<Newline, If, Fi, Code, Literals>>,                         \* brackets in literals
     <<Regex, Below, If, Fi, Word>>>>
=============================================================================
