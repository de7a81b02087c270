-------------------------------- MODULE Lexer ---------------------------------
(***************************************************************************)
(* front/lexer.c: get_token with its one token of lookahead, the two       *)
(* passes of init_lexer and include(), over a source in memory that ends   *)
(* in a NUL.                                                               *)
(*                                                                         *)
(* A source is a sequence of symbols: characters, and whole runs of        *)
(* letters (Runs) in place of the longer words.  What does not stay within *)
(* the source (a literal or a comment that nothing closes) leaves the      *)
(* model in "past"; what include() has freed holds its old contents or, as *)
(* a later allocation may have used it, any text of Memory.                *)
(* The quotation mark and the blank go by their names.                     *)
(***************************************************************************)
EXTENDS Integers, SequencesExt

CONSTANTS Texts,    \* the sources
          Files,      \* the files that can be included: a function from names to texts
          Memory      \* what reused memory may hold

VARIABLES main,     \* the source that main() has read
          source,   \* lexer.source
          text,     \* the memory lexer.beginning and lexer.current point into
          stale,    \* whether include() has freed it
          current,  \* lexer.current
          line,     \* lexer.line
          wait, pending,   \* the token of lookahead
          given,    \* the tokens the parser has got, in order
          hadError, phase

vars == <<main, source, text, stale, current, line, wait, pending, given, hadError, phase>>

------------------------------------------------------------------------------
(* Symbols and words.                                                      *)
Letters   == {"A"}
Digits    == {"1", "9"}
Runs      == {"INCLUDE", "REM", "CLS", "cls", "abc"}
Blanks    == {"space", "\n"}
Operators == {"+", "="}
Symbols   == Letters \cup Digits \cup Runs \cup Blanks \cup Operators \cup {"quote", "'", "!", "$", ":", "("}
Keyword   == [w \in {"INCLUDE", "REM", "CLS", "cls"} |-> IF w = "cls" THEN "CLS" ELSE w]

\* Sources, files and memory are made of these symbols.
ASSUME TextsAssumption ==
    /\ Texts \cup Memory \subseteq Seq(Symbols)
    /\ \A n \in DOMAIN Files : Files[n] \in Seq(Symbols)

\* A run is one symbol here; what takes a single character of one is left out.
ASSUME RunsApart ==
    \A s \in Texts \cup {Files[n] : n \in DOMAIN Files} :
        \A i \in 1 .. Len(s) - 1 : s[i] \in {"$", "'"} => s[i + 1] \notin Runs

At(s, i) == IF i <= Len(s) THEN s[i] ELSE "NUL"

\* iswhite() for a NUL, an operator, a quotation mark or a blank.
IsWhite(c) == c \in Blanks \cup Operators \cup {"NUL", "quote", "'", "!"}

\* The first position from i on at which one of cs is, and the position behind
\* the NUL if there is none.
Next1(s, i, cs) ==
    LET found == {j \in i .. Len(s) : s[j] \in cs} IN IF found = {} THEN Len(s) + 2 ELSE Min(found)

\* The first position from i on that is not of a number, or of a word.
NumberEnd(s, i) == Min({j \in i .. Len(s) + 1 : At(s, j) \notin Digits})
WordEnd(s, i)   == Min({j \in i .. Len(s) + 1 : IsWhite(At(s, j))})

\* Whether the word at i is the keyword REM.
IsRem(s, i) == At(s, i) = "REM" /\ IsWhite(At(s, i + 1))

\* Where a comment ends: at its new line.
CommentEnd(s, i) == Next1(s, i, {"\n"})

\* "goto next": past the blanks and the comments from i on.
Begin(s, i) ==
    LET begin[j \in 1 .. Len(s) + 2] ==
            IF At(s, j) \in Blanks THEN begin[j + 1]
            ELSE IF IsRem(s, j) THEN begin[CommentEnd(s, j)] ELSE j
    IN begin[i]

------------------------------------------------------------------------------
(* The token at i, where no blank is: its type, its text in from .. to,    *)
(* where lexer.current is after it, and its line, which GetToken sets.     *)
Lexeme(type, from, to, next) ==
    [type |-> type, from |-> from, to |-> to, next |-> next, line |-> 0]
Error(from, next)            == Lexeme("ERROR", from, next - 1, next)
Past                         == Lexeme("PAST", 0, 0, 0)

\* The loop tests the character after the one it has taken: the first
\* character of the string is not compared with the new line.
Closed(s, i, newline, skip) ==
    LET end == Next1(s, i + 1, {"quote"})
    IN IF newline < end THEN Error(i + 1, newline)
       ELSE IF end > Len(s) THEN Past ELSE Lexeme("STRING", i + 1, end - 1, end + skip)

\* Faulty variant: the closing quotation mark is not skipped.
StringOpen(s, i) == Closed(s, i, Next1(s, i + 2, {"\n"}), 0)
String(s, i)     == Closed(s, i, Next1(s, i + 2, {"\n"}), 1)

Character(s, i) ==
    IF i = Len(s) THEN Past
    ELSE IF At(s, i + 2) = "'" THEN Lexeme("CHARACTER", i + 1, i + 1, i + 3) ELSE Error(i + 1, i + 2)

StringVariable(s, i) ==
    IF At(s, i + 1) = "1" THEN Lexeme("STRING_VARIABLE", i, i + 1, i + 2) ELSE Error(i, i + 2)

Bang(s, i) == IF At(s, i + 1) = "=" THEN Lexeme("!=", i, i + 1, i + 2) ELSE Error(i, i + 1)

Number(s, i) == Lexeme("NUMBER", i, NumberEnd(s, i) - 1, NumberEnd(s, i))

\* One character before something white is a variable, if it is a letter; what
\* is longer is a label, a keyword or an identifier.
Word(s, i) ==
    LET end == WordEnd(s, i)
    IN IF s[i] \notin Runs /\ end = i + 1
       THEN IF s[i] \in Letters THEN Lexeme("NUMERIC_VARIABLE", i, i, i + 1) ELSE Error(i, i + 1)
       ELSE IF s[end - 1] = ":" THEN Lexeme("LABEL", i, end - 2, end)
       ELSE IF end = i + 1 /\ s[i] \in DOMAIN Keyword THEN Lexeme(Keyword[s[i]], i, i, end)
       ELSE Lexeme("IDENTIFIER", i, end - 1, end)

TokenAt(s, i) ==
    CASE At(s, i) = "NUL"     -> Lexeme("EOF", i, i - 1, i)
      [] At(s, i) \in Operators -> Lexeme(s[i], i, i, i + 1)
      [] At(s, i) = "quote"      -> String(s, i)
      [] At(s, i) = "'"       -> Character(s, i)
      [] At(s, i) = "$"       -> StringVariable(s, i)
      [] At(s, i) = "!"       -> Bang(s, i)
      [] At(s, i) \in Digits  -> Number(s, i)
      [] OTHER                -> Word(s, i)

\* get_token from lexer.current = i on, at line l, when no token waits.
Newlines(s, i, j) == Cardinality({n \in i .. j : At(s, n) = "\n"})

GetToken(s, i, l) ==
    LET begin  == IF i > Len(s) + 1 THEN i ELSE Begin(s, i)
        lexeme == IF begin > Len(s) + 1 THEN Past ELSE TokenAt(s, begin)
    IN [lexeme EXCEPT !.line = l + Newlines(s, i, begin - 1)]

------------------------------------------------------------------------------
Init ==
    /\ main \in Texts
    /\ source = main /\ text = main /\ stale = FALSE
    /\ current = 1 /\ line = 1
    /\ wait = FALSE /\ pending = Past
    /\ given = <<>>
    /\ hadError = FALSE
    /\ phase = "first"

\* Faulty variant: what is refused is not stepped over.
BehindKept(t)   == IF t.type = "ERROR" THEN t.to ELSE t.next

\* lexer.current and lexer.line after the token t.
Behind(t)       == t.next
Go(t) == current' = Behind(t) /\ line' = t.line /\ hadError' = (hadError \/ t.type = "ERROR")

\* The behaviour is no longer that of the program's text: a read behind the
\* NUL, or strlen() of the NULL that read_file returns.
Lost(where, err) ==
    /\ phase' = where
    /\ hadError' = err
    /\ UNCHANGED <<main, source, text, stale, current, line, wait, pending, given>>

\* Faulty variant: the source of main() is extended, not the latest one.
IncludedInMain(name) == main \o <<"\n">> \o Files[name]

\* include(): the new source is the old one, a new line and the file.  Only
\* lexer.source is set to it: the first pass goes on in the memory just freed.
Included(name) == source \o <<"\n">> \o Files[name]

Include(t) ==
    /\ source' = Included(SubSeq(text, t.from, t.to))
    /\ text' \in {text} \cup Memory
    /\ stale' = TRUE
    /\ Go(t)
    /\ UNCHANGED <<main, wait, pending, given, phase>>

\* An iteration of the first pass that does not see EOF.
NotEof(t) == t.type \notin {"EOF", "PAST"}

Pass == /\ \E t \in {GetToken(text, current, line)} : NotEof(t) /\ t.type # "INCLUDE" /\ Go(t)
        /\ UNCHANGED <<main, source, text, stale, wait, pending, given, phase>>

PassInclude ==
    \E t \in {GetToken(text, current, line)} :
        /\ t.type = "INCLUDE"
        /\ \E name \in {GetToken(text, t.next, t.line)} :
              \/ name.type = "PAST" /\ Lost("past", hadError)
              \/ /\ name.type \notin {"STRING", "PAST"}
                 /\ Go(name)
                 /\ UNCHANGED <<main, source, text, stale, wait, pending, given, phase>>
              \/ /\ name.type = "STRING" /\ SubSeq(text, name.from, name.to) \notin DOMAIN Files
                 /\ Lost("crashed", TRUE)
              \/ /\ name.type = "STRING" /\ SubSeq(text, name.from, name.to) \in DOMAIN Files
                 /\ Include(name)

FirstPass == phase = "first" /\ (Pass \/ PassInclude)

\* Faulty variant: the EOF of the first pass still waits in the second one.
WaitsStill == TRUE

\* lookahead() has seen EOF, which waits: "Reset lexer".
WaitsAfterReset == FALSE

Reset ==
    /\ phase = "first"
    /\ \E t \in {GetToken(text, current, line)} : t.type = "EOF" /\ pending' = t
    /\ text' = source /\ stale' = FALSE
    /\ current' = 1 /\ line' = 1
    /\ wait' = WaitsAfterReset
    /\ phase' = "second"
    /\ UNCHANGED <<main, source, given, hadError>>

\* A source that no longer can be followed, in either pass.
ReadPast ==
    /\ phase \in {"first", "second"} /\ ~wait
    /\ GetToken(text, current, line).type = "PAST"
    /\ Lost("past", hadError)

\* The parser asks for a token, twice at most at the end of the source.
AtTheEnd == Len(given) > 1 /\ given[Len(given)].type = "EOF" /\ given[Len(given) - 1].type = "EOF"

Ready(t) == phase = "second" /\ ~AtTheEnd /\ t.type # "PAST"

Lookahead ==
    /\ ~wait
    /\ \E t \in {GetToken(text, current, line)} : Ready(t) /\ Go(t) /\ pending' = t
    /\ wait' = TRUE
    /\ UNCHANGED <<main, source, text, stale, given, phase>>

TakePending ==
    /\ wait /\ Ready(pending)
    /\ given' = Append(given, pending)
    /\ wait' = FALSE
    /\ UNCHANGED <<main, source, text, stale, current, line, pending, hadError, phase>>

TakeNext ==
    /\ ~wait
    /\ \E t \in {GetToken(text, current, line)} : Ready(t) /\ Go(t) /\ given' = Append(given, t)
    /\ UNCHANGED <<main, source, text, stale, wait, pending, phase>>

Next == FirstPass \/ Reset \/ ReadPast \/ Lookahead \/ TakePending \/ TakeNext

\* Nothing interrupts the program: the first pass goes on, and the parser asks
\* for tokens until it gets EOF.
Spec == Init /\ [][Next]_vars /\ WF_vars(Next)

------------------------------------------------------------------------------
(* Reference: what a lexeme is, without a scan.                            *)
Seen == IF wait THEN Append(given, pending) ELSE given

\* The symbol at i belongs to a comment: a REM that stands alone is before it
\* on its line, and not inside a string.
InComment(from, i) ==
    \E r \in from .. i : /\ source[r] = "REM" /\ IsWhite(At(source, r + 1))
                         /\ "\n" \notin {source[j] : j \in r .. i}

Gap(i, j) == \A n \in i .. j : source[n] \in Blanks \/ InComment(i, n)

Quoted(t) == t.type \in {"STRING", "CHARACTER"}
Last1(t)  == IF Quoted(t) THEN t.to + 1 ELSE t.to
First1(t) == IF Quoted(t) THEN t.from - 1 ELSE t.from

\* The text of a word that has the type.
WordHasType(w, type) ==
    LET one == Len(w) = 1
    IN CASE one /\ w[1] \in Letters         -> type = "NUMERIC_VARIABLE"
         [] one /\ w[1] \in DOMAIN Keyword  -> type = Keyword[w[1]]
         [] OTHER                           -> type = "IDENTIFIER"

\* The symbols i .. j are a lexeme of the type.
IsLexeme(i, j, type) ==
    LET w == SubSeq(source, i, j)  in == {w[n] : n \in 2 .. Len(w) - 1}
    IN \/ type \in Operators /\ w = <<type>>
       \/ type = "!=" /\ w = <<"!", "=">>
       \/ type = "STRING" /\ Len(w) > 1 /\ w[1] = "quote" /\ w[Len(w)] = "quote" /\ in \cap {"quote", "\n"} = {}
       \/ type = "CHARACTER" /\ Len(w) = 3 /\ w[1] = "'" /\ w[3] = "'" /\ w[2] # "\n"
       \/ type = "STRING_VARIABLE" /\ w = <<"$", "1">>
       \/ type = "NUMBER" /\ w # <<>> /\ ToSet(w) \subseteq Digits /\ At(source, j + 1) \notin Digits
       \/ /\ w # <<>> /\ \A n \in DOMAIN w : ~IsWhite(w[n])
          /\ w[1] \notin Digits \cup {"$"} /\ IsWhite(At(source, j + 1))
          /\ \/ Len(w) > 1 /\ w[Len(w)] = ":" /\ type = "LABEL"
             \/ w[Len(w)] # ":" /\ w # <<"(">> /\ WordHasType(w, type)

Types == Operators \cup {"!=", "STRING", "CHARACTER", "STRING_VARIABLE", "NUMBER", "NUMERIC_VARIABLE",
                         "IDENTIFIER", "LABEL", "INCLUDE", "CLS"}

\* The positions of a token with its quotation marks, or with the colon of a label.
Ends(t) == IF t.type = "LABEL" THEN t.to + 1 ELSE Last1(t)

\* Where the n-th token begins, with its quotation mark.
From(n) == IF n = 1 THEN 1 ELSE Ends(Seen[n - 1]) + 1

\* No new line has been taken as part of a token: see TokensKnowTheirLine.
NewlineTaken == \E t \in ToSet(Seen) : \E i \in t.from .. t.to : At(source, i) = "\n"

------------------------------------------------------------------------------
TokenType == Types \cup {"ERROR", "EOF", "PAST"}

\* Types of all variables; memory is stale in the first pass only.
TypeOK ==
    /\ ToSet(source) \subseteq Symbols /\ ToSet(text) \subseteq Symbols
    /\ current \in Nat \ {0} /\ line \in Nat \ {0}
    /\ {wait, stale, hadError} \subseteq BOOLEAN
    /\ \A t \in {pending} \cup ToSet(given) : t.type \in TokenType
    /\ phase \in {"first", "second", "past", "crashed"}
    /\ (phase = "second" => ~stale /\ text = source)

\* The parser gets, in whatever order it looks ahead and takes, the lexemes of
\* the whole source one after the other, none twice and none left out, with
\* nothing but blanks and comments between them, each as long as it can be and
\* with the line it is on (get_token, lookahead, and the state the first pass
\* leaves behind).
TokensAreTheLexemes ==
    phase = "second" /\ ~NewlineTaken =>
        \A n \in DOMAIN Seen :
            LET t == Seen[n]
            IN t.type # "ERROR" =>
                  /\ From(n) <= First1(t) /\ Gap(From(n), First1(t) - 1)
                  /\ IF t.type = "EOF" THEN t.from = Len(source) + 1
                     ELSE ~InComment(From(n), First1(t)) /\ IsLexeme(First1(t), Ends(t), t.type)
                  /\ t.line = 1 + Newlines(source, 1, First1(t) - 1)

\* An error is reported for a source, and no lexeme is refused: where get_token
\* returns an ERROR no lexeme begins, and hadError is set (the error exits of
\* get_token).
OnlyTheMalformedIsRefused ==
    phase = "second" =>
        \A n \in DOMAIN Seen : Seen[n].type = "ERROR" =>
            /\ hadError
            /\ \A i \in From(n) .. Len(source), j \in 1 .. Len(source) :
                  /\ Gap(From(n), i - 1) /\ ~Gap(From(n), i)
                  => \A type \in Types : ~IsLexeme(i, j, type)

\* What follows an INCLUDE is taken together with it, another INCLUDE too: of
\* those in a row every second one is not looked at.
Takes(q, i) == \E f \in 1 .. i : /\ (i - f) % 2 = 0
                                 /\ \A n \in f .. i - 1 : q[n].type = "INCLUDE"
                                 /\ f > 1 => q[f - 1].type # "INCLUDE"

\* The tokens of q that are an INCLUDE with a string after it.
Includes(q)   == {i \in 1 .. Len(q) - 1 : q[i].type = "INCLUDE" /\ q[i + 1].type = "STRING" /\ Takes(q, i)}
IncludesIn(n) == {i \in Includes(Seen) : Seen[i + 1].to < n}
TextOf(i)     == Files[SubSeq(source, Seen[i].from, Seen[i].to)]

\* The source of the second pass begins with main's text, and what the first
\* INCLUDE of it names comes next, after a new line, whatever the freed memory
\* has been used for (init_lexer, include).
FirstIncludeIsRead ==
    phase = "second" =>
        /\ IsPrefix(main, source)
        /\ IncludesIn(Len(main) + 1) = {} \/
             IsPrefix(main \o <<"\n">> \o TextOf(Min(IncludesIn(Len(main) + 1)) + 1), source)

\* Both passes end: the parser gets EOF, unless the source has been left behind.
EofIsReached ==
    <>(phase \in {"past", "crashed"} \/ "EOF" \in {t.type : t \in ToSet(given)})

------------------------------------------------------------------------------
(* What the comments of lexer.c and lexer.h say, and the code does not do. *)

\* "If we meet NULL - we ended lexing": no read goes behind the NUL.
EndsAtTheNul == ~(phase = "past" /\ ~stale)

\* "Line on which it lies", for the lexemes the lexer does not refuse.
TokensKnowTheirLine ==
    phase = "second" => \A t \in ToSet(Seen) : t.line = 1 + Newlines(source, 1, First1(t) - 1)

\* "Free old source and set new": every INCLUDE that the parser will see has
\* been read into the source.
EveryIncludeIsRead ==
    phase = "second" =>
        \A i \in IncludesIn(Len(source) + 1) :
            \E n \in 0 .. Len(source) :
                IsPrefix(<<"\n">> \o TextOf(i + 1), SubSeq(source, n + 1, Len(source)))
=============================================================================
