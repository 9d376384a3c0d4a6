----------------------------- MODULE SqlComments -----------------------------
(***************************************************************************)
(* stripSQLComments (resource/migration/description.go): what a migration  *)
(* script loses before it is executed.  Line comments and block comments   *)
(* go, a line that held nothing else goes with its end, and what is        *)
(* written in quotes stays whatever it looks like.                         *)
(*                                                                         *)
(* The code is one pass with a state and a mark: lineOutputStart is where  *)
(* the current line began in the result, and a comment that opens a line   *)
(* cuts the result back to it.  Stripped is what the pass is for, said of  *)
(* the tokens of the script and the lines they form.                       *)
(***************************************************************************)
EXTENDS Naturals, Sequences, FiniteSets, SequencesExt, FiniteSetsExt

CONSTANT Contents   \* the scripts that are read: sequences of characters

VARIABLES
    content,                \* the script
    index,                  \* the next character
    state,                  \* "normal", a quote, "line" or "block" comment
    lineStart,              \* only blanks and comments since the line began
    lineOutputStart,        \* the length of the result when the line began
    lineCommentStandalone,  \* the line comment has its line to itself
    blockCommentStandalone, \* so far the line holds nothing but block comments
    result

line == <<lineStart, lineOutputStart, lineCommentStandalone, blockCommentStandalone>>
vars == <<content, index, state, line, result>>

Quotes     == {"single", "double", "backtick"}
Blanks     == {"space", "tab"}
LineEnds   == {"cr", "lf"}
Whitespace == Blanks \cup LineEnds \cup {"ff"}       \* isSQLWhitespace

\* The character at a position, and what begins there.
At(s, i) == IF i \in DOMAIN s THEN s[i] ELSE "eof"
OpensLineComment(s, i) ==
    \/ At(s, i) = "hash"
    \/ /\ At(s, i) = "dash" /\ At(s, i + 1) = "dash"
       /\ At(s, i + 2) \in Whitespace \cup {"eof"}
OpensBlockComment(s, i) == At(s, i) = "slash" /\ At(s, i + 1) = "star"
LineEndLength(s, i) == IF At(s, i) = "cr" /\ At(s, i + 1) = "lf" THEN 2 ELSE 1

Here == At(content, index)

Init ==
    /\ content \in Contents
    /\ index = 1 /\ state = "normal"
    /\ lineStart = TRUE /\ lineOutputStart = 0
    /\ lineCommentStandalone = FALSE /\ blockCommentStandalone = FALSE
    /\ result = <<>>

CutLine == SubSeq(result, 1, lineOutputStart)

-----------------------------------------------------------------------------
\* A line ends outside of comments and quotes.
NormalLineEnd ==
    /\ state = "normal" /\ Here \in LineEnds
    /\ IF blockCommentStandalone
       THEN result' = CutLine /\ index' = index + LineEndLength(content, index)
       ELSE result' = Append(result, Here) /\ index' = index + 1
    /\ lineStart' = TRUE /\ lineOutputStart' = Len(result')
    /\ blockCommentStandalone' = FALSE
    /\ UNCHANGED <<content, state, lineCommentStandalone>>

NormalIndent ==
    /\ state = "normal" /\ lineStart /\ Here \in Blanks
    /\ result' = Append(result, Here) /\ index' = index + 1
    /\ UNCHANGED <<content, state, line>>

\* A comment opens; at the start of a line it takes the indentation with it.
NormalComment ==
    /\ state = "normal"
    /\ OpensLineComment(content, index) \/ OpensBlockComment(content, index)
    /\ result' = IF lineStart THEN CutLine ELSE result
    /\ state' = IF OpensLineComment(content, index) THEN "line" ELSE "block"
    /\ lineCommentStandalone' =
            (lineCommentStandalone \/ (lineStart /\ OpensLineComment(content, index)))
    /\ blockCommentStandalone' = (lineStart /\ OpensBlockComment(content, index))
    /\ index' = index + (IF Here = "hash" THEN 1 ELSE 2)
    /\ UNCHANGED <<content, lineStart, lineOutputStart>>

\* Mutant: a quote does not end the start of its line.
NormalTextQuoteKeepsStart ==
    /\ state = "normal"
    /\ Here \notin LineEnds \cup {"eof"} /\ ~(lineStart /\ Here \in Blanks)
    /\ ~OpensLineComment(content, index) /\ ~OpensBlockComment(content, index)
    /\ result' = Append(result, Here) /\ index' = index + 1
    /\ state' = IF Here \in Quotes THEN Here ELSE "normal"
    /\ lineStart' = (lineStart /\ Here \in Quotes)
    /\ blockCommentStandalone' = FALSE
    /\ UNCHANGED <<content, lineOutputStart, lineCommentStandalone>>

NormalText ==
    /\ state = "normal"
    /\ Here \notin LineEnds \cup {"eof"} /\ ~(lineStart /\ Here \in Blanks)
    /\ ~OpensLineComment(content, index) /\ ~OpensBlockComment(content, index)
    /\ result' = Append(result, Here) /\ index' = index + 1
    /\ state' = IF Here \in Quotes THEN Here ELSE "normal"
    /\ lineStart' = FALSE
    /\ blockCommentStandalone' = FALSE
    /\ UNCHANGED <<content, lineOutputStart, lineCommentStandalone>>

\* In quotes an escaped character and a doubled quote are taken as a pair.
Quoted ==
    /\ state \in Quotes /\ Here # "eof"
    /\ LET next == At(content, index + 1)
           pair == \/ Here = "backslash" /\ next # "eof"
                   \/ Here = state /\ next = state
       IN  /\ result' = result \o (IF pair THEN <<Here, next>> ELSE <<Here>>)
           /\ index' = index + (IF pair THEN 2 ELSE 1)
           /\ state' = IF Here = state /\ ~pair THEN "normal" ELSE state
    /\ UNCHANGED <<content, line>>

LineComment ==
    /\ state = "line" /\ Here # "eof"
    /\ IF Here \notin LineEnds
       THEN index' = index + 1 /\ UNCHANGED <<state, line, result>>
       ELSE /\ result' = IF lineCommentStandalone THEN result ELSE Append(result, Here)
            /\ index' = index + (IF lineCommentStandalone
                                 THEN LineEndLength(content, index) ELSE 1)
            /\ state' = "normal"
            /\ lineStart' = TRUE /\ lineOutputStart' = Len(result')
            /\ lineCommentStandalone' = FALSE
            /\ UNCHANGED blockCommentStandalone
    /\ UNCHANGED content

BlockComment ==
    /\ state = "block" /\ Here # "eof"
    /\ LET closes == Here = "star" /\ At(content, index + 1) = "slash"
       IN  /\ index' = index + (IF closes THEN 2 ELSE 1)
           /\ state' = IF closes THEN "normal" ELSE state
    /\ UNCHANGED <<content, line, result>>

Next == NormalLineEnd \/ NormalIndent \/ NormalComment \/ NormalText
            \/ Quoted \/ LineComment \/ BlockComment

Spec == Init /\ [][Next]_vars

-----------------------------------------------------------------------------
\* The reference: the script as tokens, and the tokens that stay.
QuoteCloses(s, i) ==
    LET q == s[i]
        close[j \in 1..(Len(s) + 3)] ==
            CASE j > Len(s) -> Len(s)
              [] j < Len(s) /\ (s[j] = "backslash" \/ (s[j] = q /\ s[j + 1] = q)) -> close[j + 2]
              [] s[j] = q -> j
              [] OTHER -> close[j + 1]
    IN  close[i + 1]

TokenAt(s, i) ==
    LET to(kind, ends) == [kind |-> kind, from |-> i, to |-> Min(ends \cup {Len(s)})]
    IN  CASE OpensLineComment(s, i) ->
                to("comment", {j \in i..Len(s) : At(s, j + 1) \in LineEnds})
          [] OpensBlockComment(s, i) ->
                to("comment", {j \in (i + 3)..Len(s) : s[j] = "slash" /\ s[j - 1] = "star"})
          [] s[i] \in Quotes   -> to("text", {QuoteCloses(s, i)})
          [] s[i] \in LineEnds -> to("end", {i + LineEndLength(s, i) - 1})
          [] s[i] \in Blanks   -> to("blank", {i})
          [] OTHER             -> to("text", {i})

Tokens(s) ==
    LET from[i \in 1..(Len(s) + 1)] ==
            IF i > Len(s) THEN <<>>
            ELSE LET t == TokenAt(s, i) IN <<t>> \o from[t.to + 1]
    IN  from[1]

\* A comment is dropped, and what stands before it when only blanks and comments
\* do; so is a line of nothing else, up to and with its end.
Dropped(T, k) ==
    LET before    == {e \in 1..(k - 1) : T[e].kind = "end"}
        first     == 1 + Max(before \cup {0})
        last      == Min({e \in k..Len(T) : T[e].kind = "end"} \cup {Len(T)})
        Leads(c)  == \A m \in first..c : T[m].kind \in {"blank", "comment"}
        comments  == {c \in first..last : T[c].kind = "comment" /\ Leads(c)}
        blankLine == T[last].kind = "end" /\ Leads(last - 1) /\ comments # {}
    IN  T[k].kind = "comment" \/ blankLine \/ \E c \in comments : k < c

Stripped(s) ==
    LET T == Tokens(s)
    IN  FlattenSeq([k \in DOMAIN T |->
            IF Dropped(T, k) THEN <<>> ELSE SubSeq(s, T[k].from, T[k].to)])

\* "Removes line comments and block comments, and keeps what looks like one in
\* strings and identifiers" (stripSQLComments): at the end of a script the
\* result is the script without its comments and without the lines that were
\* only comments, to the character; no cut ever reached a statement.
StripsExactlyComments ==
    index > Len(content) => result = Stripped(content)
=============================================================================
