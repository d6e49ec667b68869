------------------------------ MODULE JsScanner ------------------------------
(***************************************************************************)
(* js_scanner.ts: the one place where the compiler skips over JavaScript.  *)
(* A text is a sequence of atoms, [k |-> kind, n |-> name]: an atom stands *)
(* for the characters its kind names ("//", "{", "%>", ...), for a word    *)
(* ("word"), for one blank ("sp") or for a newline ("nl").  Backslash      *)
(* escapes, square brackets and the keywords after which a slash opens a   *)
(* regular expression are left out.                                        *)
(***************************************************************************)
EXTENDS Naturals, Sequences, FiniteSets, SequencesExt

Quotes  == {"'", "quote"}
Openers == {"(", "{", "${"}
Shutters == {")", "}"}
Blanks  == {"sp", "nl"}
Closers == {"%>", "--%>"}

SP == [k |-> "sp", n |-> ""]

RegexAllowed(prev) == prev \in {"start", "punct"}

\* A slash opens a regular expression only if another one follows on its line.
SkipRegex(text, i) ==
    \E j \in i + 1..Len(text) :
        /\ text[j].k = "/"
        /\ \A m \in i + 1..j : text[m].k # "nl"

(***************************************************************************)
(* The scan's state.  mode is "code", the atom that opened the literal or  *)
(* comment the scan is in, or "%>" once it has stopped; depths holds the   *)
(* brace depth of each ${ } interpolation that is open; class says what    *)
(* the last atom was part of: "code" at top level, "${" for the code of an *)
(* interpolation, "%>" for the closing delimiter, or a mode.               *)
(***************************************************************************)
ScanStart == [mode |-> "code", depths |-> <<>>, prev |-> "start", class |-> "code"]

CodeAtom(s, k) ==
    [s EXCEPT !.mode = "code",
              !.class = IF s.depths = <<>> THEN "code" ELSE "${",
              !.depths = IF s.depths = <<>> THEN @
                         ELSE [@ EXCEPT ![Len(@)] = CASE k \in {"{", "${"} -> @ + 1
                                                      [] k = "}" -> @ - 1
                                                      [] OTHER -> @],
              !.prev = CASE k \in Blanks -> @
                         [] k \in {"word", "$"} -> "word"
                         [] k = ")" -> "value"
                         [] OTHER -> "punct"]

ScanCode(s, text, i, delimiter) ==
    LET k == text[i].k
        Enter(m) == [s EXCEPT !.mode = m, !.class = m]
    IN  CASE delimiter /\ s.depths = <<>> /\ k \in Closers -> Enter("%>")
          [] k \in Quotes \cup {"tick", "//", "/*"} -> Enter(k)
          [] k = "/" /\ RegexAllowed(s.prev) /\ SkipRegex(text, i) -> Enter("/")
          [] k = "}" /\ s.depths # <<>> /\ Last(s.depths) = 0 ->
                 [s EXCEPT !.mode = "tick", !.class = "tick", !.depths = Front(@)]
          [] OTHER -> CodeAtom(s, k)

ScanAtom(s, text, i, delimiter) ==
    LET k == text[i].k
        Inside == [s EXCEPT !.class = s.mode]
        LeaveLiteral == [Inside EXCEPT !.mode = "code", !.prev = "value"]
    IN  CASE s.mode = "code" -> ScanCode(s, text, i, delimiter)
          [] s.mode = "%>" -> [s EXCEPT !.class = "after"]
          [] s.mode = "//" -> IF k = "nl" THEN CodeAtom(s, k) ELSE Inside
          [] s.mode = "/*" -> IF k = "*/" THEN [Inside EXCEPT !.mode = "code"] ELSE Inside
          [] s.mode = "tick" /\ k = "${" ->
                 [Inside EXCEPT !.mode = "code", !.depths = Append(@, 0), !.prev = "start"]
          [] OTHER -> IF k = s.mode THEN LeaveLiteral ELSE Inside

\* What each atom of the text is part of.
Classes(text, delimiter) ==
    LET state[i \in 0..Len(text)] ==
            IF i = 0 THEN ScanStart ELSE ScanAtom(state[i - 1], text, i, delimiter)
    IN  [i \in 1..Len(text) |-> state[i].class]

FirstOf(S) == IF S = {} THEN 0 ELSE CHOOSE i \in S : \A j \in S : i <= j
Shifted(start, i) == IF i = 0 THEN 0 ELSE start + i - 1
Rest(text, start) == SubSeq(text, start, Len(text))

FirstOfClass(classes, class) == FirstOf({i \in DOMAIN classes : classes[i] = class})

\* Where the %> closing the block that starts at `start` is, or 0.
FindTemplateClose(text, start) ==
    Shifted(start, FirstOfClass(Classes(Rest(text, start), TRUE), "%>"))

Count(text, classes, kinds, i) ==
    Cardinality({j \in 1..i : classes[j] = "code" /\ text[j].k \in kinds})
FirstBalanced(text, classes) ==
    FirstOf({i \in DOMAIN text :
        /\ text[i].k \in Shutters /\ classes[i] = "code"
        /\ Count(text, classes, Openers, i) = Count(text, classes, Shutters, i)})

\* Where the bracket opened at `open` closes, or 0.
FindMatchingBracket(text, open) ==
    Shifted(open, FirstBalanced(Rest(text, open), Classes(Rest(text, open), FALSE)))

\* Faulty variant: a comment that ends a block is left in place.
KeptLineComments(text) == text

BlankLineComments(text) ==
    LET class == Classes(text, TRUE)
    IN  [i \in DOMAIN text |-> IF class[i] = "//" THEN SP ELSE text[i]]

\* The same code on one line: a newline in code is a blank, one in a literal its escape.
JoinLines(text) ==
    LET class == Classes(text, FALSE)
    IN  [i \in DOMAIN text |->
            CASE text[i].k # "nl" -> text[i]
              [] class[i] \in Quotes \cup {"tick"} -> [k |-> "escape", n |-> ""]
              [] OTHER -> SP]

\* The newlines after which the next line starts in code.
CodeLineStarts(text) ==
    LET class == Classes(text, TRUE)
    IN  {i \in DOMAIN text : text[i].k = "nl" /\ class[i] = "code"}

AllBlank(text) == \A i \in DOMAIN text : text[i].k \in Blanks

\* String.trim: the code's first and last atom that is not blank.
TrimStart(text) == FirstOf({i \in DOMAIN text : text[i].k \notin Blanks})
Trim(text) ==
    IF AllBlank(text) THEN <<>>
    ELSE SubSeq(text, TrimStart(text),
                CHOOSE i \in DOMAIN text : /\ text[i].k \notin Blanks
                                           /\ AllBlank(SubSeq(text, i + 1, Len(text))))
=============================================================================
