---------------------------- MODULE TemplateLexer ----------------------------
(***************************************************************************)
(* lexer.ts: from a template's text, a sequence of atoms (JsScanner), to   *)
(* its tokens.  Two kinds of atom carry a name: an opening or closing tag  *)
(* ("<tag", "</tag", "<Slot:", "</Slot:", "<Define:", "</Define:" with the *)
(* name that follows it) and a word.  Columns, the wording of errors and   *)
(* the guess about a %> that a comment hides are left out; a token knows   *)
(* the line it starts and the line it ends on.                             *)
(***************************************************************************)
EXTENDS JsScanner

ExpressionType ==
    [k \in {"<%=", "<%!=", "<%br="} |->
        CASE k = "<%=" -> "EXPRESSION_START"
          [] k = "<%!=" -> "EXPRESSION_UNESCAPED"
          [] OTHER -> "EXPRESSION_BR"]
ExpressionOpeners == DOMAIN ExpressionType
CodeOpeners == {"<%", "<%--"}
TemplateOpeners == ExpressionOpeners \cup CodeOpeners
AttributeStarts == {"word", "$", "@", ":"}

PAD == [k |-> "pad", n |-> ""]     \* the placeholder comment of an empty line

Blanked(text, S) == [i \in DOMAIN text |-> IF i \in S /\ text[i].k # "nl" THEN SP ELSE text[i]]

\* The regions [first, last] from an atom of kind `from` to the next one of kind `to`.
Region(text, from, to) ==
    {r \in (DOMAIN text) \X (DOMAIN text) :
        /\ text[r[1]].k = from /\ text[r[2]].k = to /\ r[1] < r[2]
        /\ \A m \in r[1] + 1..r[2] - 1 : text[m].k # to}

Within(regions) == UNION {r[1]..r[2] : r \in regions}

PreprocessComments(text) == Blanked(text, Within(Region(text, "<%--", "--%>")))

InsideDefine(text, i) ==
    \E d \in 1..i - 1 : /\ text[d].k = "<Define:"
                        /\ \A m \in d..i - 1 : text[m].k # "</Define:"

PreprocessHTMLComments(text) ==
    Blanked(text, Within({r \in Region(text, "<!--", "-->") : ~InsideDefine(text, r[1])}))

\* A placeholder on every line of a code block but the last that is empty and not part
\* of a literal or comment.
MarkEmptyLines(code) ==
    LET lineStart(i) == FirstOf({j \in 1..i : \A m \in j..i - 1 : code[m].k # "nl"})
        Empty(i) ==
            LET j == lineStart(i)
            IN  /\ AllBlank(SubSeq(code, j, i))
                /\ j = 1 \/ j - 1 \in CodeLineStarts(code)
    IN  FlattenSeq([i \in DOMAIN code |->
            IF code[i].k = "nl" /\ Empty(i) THEN <<PAD, code[i]>> ELSE <<code[i]>>])

RECURSIVE PreprocessCodeBlocksFrom(_, _)

Preprocessed(text, start, close, code) ==
    PreprocessCodeBlocksFrom(
        SubSeq(text, 1, start) \o code \o Rest(text, close), start + Len(code) + 2)

\* An expression is skipped; a code block's comments are blanked.
PreprocessBlock(text, start, close) ==
    CASE text[start].k \in ExpressionOpeners ->
             PreprocessCodeBlocksFrom(text, IF close = 0 THEN start + 1 ELSE close + 1)
      [] text[start].k \in CodeOpeners /\ close = 0 -> text
      [] OTHER -> Preprocessed(text, start, close,
                      MarkEmptyLines(BlankLineComments(SubSeq(text, start + 1, close - 1))))

PreprocessFrom(text, start) ==
    IF start = 0 THEN text ELSE PreprocessBlock(text, start, FindTemplateClose(text, start + 1))

PreprocessCodeBlocksFrom(text, from) ==
    PreprocessFrom(text, FirstOf({i \in from..Len(text) : text[i].k \in TemplateOpeners}))

Preprocess(text) ==
    PreprocessCodeBlocksFrom(PreprocessHTMLComments(PreprocessComments(text)), 1)

-----------------------------------------------------------------------------
(* The scanner: the input, the next position, the tokens so far, and the   *)
(* error that stopped it.                                                  *)

PositionAt(text, i) == 1 + Cardinality({j \in 1..i - 1 : text[j].k = "nl"})

Kind(s, i) == IF i <= Len(s.in) THEN s.in[i].k ELSE "end"

Advance(s, i) == [s EXCEPT !.at = i]
Fail(s, message) == [s EXCEPT !.error = message]

\* add_token: a token for the atoms from..to - 1, the scanner going on at `to`.
AddToken(s, type, from, to, value) ==
    [s EXCEPT !.at = to,
              !.tokens = Append(@, [type |-> type, value |-> value,
                                    line |-> PositionAt(s.in, from),
                                    last |-> PositionAt(s.in, to)])]

Take(s, type, n) == AddToken(s, type, s.at, s.at + n, SubSeq(s.in, s.at, s.at + n - 1))

RECURSIVE SkipWhitespace(_)
SkipWhitespace(s) == IF Kind(s, s.at) = "sp" THEN SkipWhitespace(Advance(s, s.at + 1)) ELSE s

RECURSIVE SkipLines(_)
SkipNewline(s) == IF Kind(s, s.at) = "nl" THEN SkipLines(Take(s, "NEWLINE", 1)) ELSE s
SkipLines(s) == SkipNewline(SkipWhitespace(s))

TakeIf(s, kind, type) == IF Kind(s, s.at) = kind THEN Take(s, type, 1) ELSE s

EndOr(s, i) == IF i = 0 THEN Len(s.in) + 1 ELSE i

AddCode(s, end, keep, code) ==
    CASE AllBlank(code) -> Advance(s, end)
      [] ~AllBlank(code) /\ keep -> AddToken(s, "JAVASCRIPT", s.at, end, code)
      [] OTHER -> AddToken(s, "JAVASCRIPT", s.at + TrimStart(code) - 1, end, Trim(code))
AddCodeTo(s, end, keep) ==
    AddCode(s, end, keep, BlankLineComments(SubSeq(s.in, s.at, end - 1)))

\* The JavaScript up to its %>, which is left to the caller; comments are blanked, and
\* unless its whitespace is kept the token starts at its first character.
ScanJavascript(s, keep) == AddCodeTo(s, EndOr(s, FindTemplateClose(s.in, s.at)), keep)

ScanTagEnd(s) == TakeIf(s, "%>", "TAG_END")

ScanExpression(s) == ScanJavascript(Take(s, ExpressionType[Kind(s, s.at)], 1), TRUE)
ScanCodeBlock(s) == ScanJavascript(Take(s, "CODE_START", 1), FALSE)

-----------------------------------------------------------------------------
(* Attributes.                                                             *)

NameEnds == {"=", "sp", "nl", ">", "/>", "end"} \cup TemplateOpeners
Forbidden == {"'", "quote", "<", "</", "/", "<tag", "</tag"}

ValidBare(value) ==        \* a reference, or a call of one with at most one argument
    LET kinds == [i \in DOMAIN value |-> value[i].k]
    IN  kinds \in {<<"word">>, <<"word", "(", ")">>, <<"word", "(", "word", ")">>}

BareKinds == {"word", "$", "(", ")", ",", "quote", "'"}
AddBareValue(s, value) ==
    CASE value = <<>> -> s
      [] value # <<>> /\ ~ValidBare(value) -> Fail(s, "invalid unquoted value")
      [] OTHER -> AddToken(s, "ATTR_VALUE", s.at, s.at + Len(value), value)
ScanBareValue(s) ==
    AddBareValue(s, SubSeq(s.in, s.at,
        (CHOOSE j \in s.at..Len(s.in) + 1 :
            Kind(s, j) \notin BareKinds /\ \A m \in s.at..j - 1 : Kind(s, m) \in BareKinds) - 1))

AddValueTo(s, next) ==
    IF next - s.at > 1 THEN AddToken(s, "ATTR_VALUE", s.at, next, SubSeq(s.in, s.at, next - 1))
    ELSE Advance(s, next)

Past(s, end) == IF end > Len(s.in) THEN end ELSE end + 1
QuoteEnd(s, quote) == EndOr(s, FirstOf({j \in s.at + 1..Len(s.in) : s.in[j].k = quote}))

ScanParenthesized(s) == AddValueTo(s, Past(s, EndOr(s, FindMatchingBracket(s.in, s.at))))
ScanQuotedValue(s, quote) == AddValueTo(s, Past(s, QuoteEnd(s, quote)))

\* The expression of an interpolated value stays on the line where it opens.
EndInterpolation(s, line) ==
    CASE Kind(s, s.at) # "%>" -> s
      [] Kind(s, s.at) = "%>" /\ PositionAt(s.in, s.at) # line -> Fail(s, "expression spans lines")
      [] OTHER -> Take(s, "TAG_END", 1)
ScanInterpolation(s) ==
    EndInterpolation(ScanJavascript(Take(s, ExpressionType[Kind(s, s.at)], 1), FALSE),
                     PositionAt(s.in, s.at))

RECURSIVE ScanInterpolatedValue(_, _)
ScanInterpolatedValue(s, quote) ==
    LET k == Kind(s, s.at)
        stop == CHOOSE j \in s.at..Len(s.in) + 1 :
                    /\ Kind(s, j) \in {quote, "end"} \cup TemplateOpeners
                    /\ \A m \in s.at..j - 1 : Kind(s, m) \notin {quote} \cup TemplateOpeners
    IN  CASE s.error # "" \/ k = "end" -> s
          [] k = quote -> Advance(s, s.at + 1)
          [] k \in {"<%=", "<%!="} -> ScanInterpolatedValue(ScanInterpolation(s), quote)
          [] k \in TemplateOpeners \ {"<%=", "<%!="} -> Fail(s, "tag not allowed in a value")
          [] OTHER -> ScanInterpolatedValue(
                          AddToken(s, "INTERPOLATION_TEXT", s.at, stop,
                                   SubSeq(s.in, s.at, stop - 1)), quote)

\* Plain attributes are quoted, @ ones are not, $ ones may be either.
ScanAttributeValue(s, k, prefix) ==
    CASE k \in TemplateOpeners -> Fail(s, "value is an interpolation")
      [] k \in Quotes /\ prefix = "@" -> Fail(s, "event attribute is quoted")
      [] k \in Quotes /\ prefix # "@" ->
             IF \E j \in s.at + 1..QuoteEnd(s, k) - 1 : s.in[j].k \in TemplateOpeners
             THEN ScanInterpolatedValue(Advance(s, s.at + 1), k)
             ELSE ScanQuotedValue(s, k)
      [] k \notin Quotes /\ prefix \notin {"@", "$"} -> Fail(s, "value is not quoted")
      [] k = "(" -> ScanParenthesized(s)
      [] OTHER -> ScanBareValue(s)

ValueAt(s, prefix) == ScanAttributeValue(s, Kind(s, s.at), prefix)
AfterAttributeName(s, prefix) ==
    IF Kind(s, s.at) = "=" THEN ValueAt(SkipWhitespace(Take(s, "EQUALS", 1)), prefix) ELSE s

AddAttribute(s, name) ==
    IF \E i \in DOMAIN name : name[i].k \in Forbidden THEN Fail(s, "character in attribute name")
    ELSE AfterAttributeName(
             SkipWhitespace(AddToken(s, "ATTR_NAME", s.at, s.at + Len(name), name)), name[1].k)
ScanAttribute(s) ==
    AddAttribute(s, SubSeq(s.in, s.at,
        (CHOOSE j \in s.at..Len(s.in) + 1 :
            Kind(s, j) \in NameEnds /\ \A m \in s.at..j - 1 : Kind(s, m) \notin NameEnds) - 1))

RECURSIVE ScanAttributes(_)
AttributesAt(s, k) ==
    CASE s.error # "" -> s
      [] k = "/>" -> Take(s, "SELF_CLOSING", 1)
      [] k = ">" -> Take(s, "GT", 1)
      [] k \in TemplateOpeners -> ScanAttributes(ScanTagEnd(ScanCodeBlock(s)))
      [] k \in AttributeStarts -> ScanAttributes(ScanAttribute(s))
      [] OTHER -> s
ScanAttributesHere(s) == AttributesAt(s, Kind(s, s.at))
ScanAttributes(s) == IF s.error # "" THEN s ELSE ScanAttributesHere(SkipLines(s))

-----------------------------------------------------------------------------
(* Tags and text.                                                          *)

\* A tag's two tokens come from one atom, which carries the name.
TakeNamed(s, type, nametype) ==
    AddToken(Take(s, type, 1), nametype, s.at, s.at + 1, s.in[s.at].n)

\* <pre> holds text: markup in it is literal up to </pre>, and only the template's own
\* delimiters and newlines end a piece of it.
ClosesPre(s, i) ==
    /\ Kind(s, i) = "</tag" /\ s.in[i].n = "pre"
    /\ \E j \in i + 1..Len(s.in) :
           /\ s.in[j].k = ">" /\ \A m \in i + 1..j - 1 : s.in[m].k \in Blanks

RECURSIVE ScanRawText(_)
ScanRawText(s) ==
    LET k == Kind(s, s.at)
        Ends(i) == Kind(s, i) \in TemplateOpeners \cup {"nl", "end"} \/ ClosesPre(s, i)
        end == CHOOSE j \in s.at..Len(s.in) + 1 :
                   Ends(j) /\ \A m \in s.at..j - 1 : ~Ends(m)
    IN  CASE k = "end" \/ ClosesPre(s, s.at) -> s
          [] k \in ExpressionOpeners -> ScanRawText(ScanTagEnd(ScanExpression(s)))
          [] k \in CodeOpeners -> ScanRawText(ScanTagEnd(ScanCodeBlock(s)))
          [] k = "nl" -> ScanRawText(Take(s, "NEWLINE", 1))
          [] OTHER -> ScanRawText(Take(s, "TEXT", end - s.at))

\* <pre> holds text.
AfterOpeningTag(s, name) ==
    IF name = "pre" /\ s.error = "" /\ Last(s.tokens).type = "GT" THEN ScanRawText(s) ELSE s
ScanOpeningTag(s) == AfterOpeningTag(ScanAttributes(TakeNamed(s, "TAG_OPEN", "TAG_NAME")), s.in[s.at].n)

ScanClosingTag(s) == TakeIf(SkipWhitespace(TakeNamed(s, "TAG_CLOSE", "TAG_NAME")), ">", "GT")

\* <{expression} ...> and </{expression}>.
DynamicName(s, brace, end) ==
    IF end = 0 THEN Fail(s, "unterminated dynamic tag")
    ELSE AddToken(s, "DYNAMIC_TAG_NAME", brace, end + 1, SubSeq(s.in, brace + 1, end - 1))
ScanDynamicName(s) == DynamicName(s, s.at, FindMatchingBracket(s.in, s.at))

ClosingEnd(s) == IF s.error # "" THEN s ELSE TakeIf(s, ">", "GT")
ScanDynamicTag(s, closing) ==
    IF closing THEN ClosingEnd(SkipWhitespace(ScanDynamicName(Take(s, "TAG_CLOSE", 1))))
    ELSE ScanAttributes(ScanDynamicName(Take(s, "TAG_OPEN", 1)))

AfterComponentName(s) ==
    IF Kind(s, s.at) \in AttributeStarts THEN ScanAttributes(s) ELSE TakeIf(s, ">", "GT")
ScanComponentName(s) == AfterComponentName(SkipLines(s))

AfterSlotName(s) ==
    CASE Kind(s, s.at) \in AttributeStarts -> ScanAttributes(s)
      [] Kind(s, s.at) = "/>" -> Take(AddToken(s, "SLASH", s.at, s.at, "/"), "GT", 1)
      [] OTHER -> TakeIf(s, ">", "GT")
ScanSlotName(s) == AfterSlotName(SkipWhitespace(s))

\* An HTML comment is one text, whatever is in it.
CommentTo(s, end) ==
    IF end = 0 THEN Fail(s, "unterminated HTML comment") ELSE Take(s, "TEXT", end + 1 - s.at)
ScanHtmlComment(s) == CommentTo(s, FirstOf({j \in s.at + 1..Len(s.in) : s.in[j].k = "-->"}))

StartsDynamic(s, i) == Kind(s, i) \in {"<", "</"} /\ Kind(s, i + 1) \in {"{"}
EndsText(s, i) ==
    \/ Kind(s, i) \in TemplateOpeners \cup Closers \cup
           {"<!--", "<tag", "</tag", "<Slot:", "</Slot:", "<Define:", "</Define:", "end"}
    \/ StartsDynamic(s, i)

ScanText(s) ==
    LET end == CHOOSE j \in s.at..Len(s.in) + 1 :
                   EndsText(s, j) /\ \A m \in s.at..j - 1 : ~EndsText(s, m)
    IN  Take(s, "TEXT", end - s.at)

ScanNext(s) ==
    LET k == Kind(s, s.at)
    IN  CASE k \in ExpressionOpeners -> ScanExpression(s)
          [] k \in CodeOpeners -> ScanCodeBlock(s)
          [] k \in Closers -> Take(s, "TAG_END", 1)
          [] k = "<Define:" -> ScanComponentName(TakeNamed(s, "DEFINE_START", "COMPONENT_NAME"))
          [] k = "</Define:" -> ScanComponentName(TakeNamed(s, "DEFINE_END", "COMPONENT_NAME"))
          [] k = "<Slot:" -> ScanSlotName(TakeNamed(s, "SLOT_START", "SLOT_NAME"))
          [] k = "</Slot:" -> ScanSlotName(TakeNamed(s, "SLOT_END", "SLOT_NAME"))
          [] k = "<!--" -> ScanHtmlComment(s)
          [] StartsDynamic(s, s.at) -> ScanDynamicTag(s, k = "</")
          [] k = "<tag" -> ScanOpeningTag(s)
          [] k = "</tag" -> ScanClosingTag(s)
          [] k = "nl" -> Take(s, "NEWLINE", 1)
          [] OTHER -> ScanText(s)

RECURSIVE TokenizeFrom(_)
TokenizeFrom(s) ==
    CASE s.error # "" -> s
      [] s.error = "" /\ s.at > Len(s.in) -> Take(s, "EOF", 0)
      [] OTHER -> TokenizeFrom(ScanNext(s))

\* reject_script_text: a script tag is an error wherever it is written.
ScriptText(text) == \E i \in DOMAIN text : text[i].n = "script"

TokenizeText(text) ==
    IF ScriptText(text) THEN [in |-> text, at |-> 1, tokens |-> <<>>, error |-> "script text"]
    ELSE TokenizeFrom([in |-> text, at |-> 1, tokens |-> <<>>, error |-> ""])

Tokenize(source) == TokenizeText(Preprocess(source))
=============================================================================
