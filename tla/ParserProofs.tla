----------------------------- MODULE ParserProofs ------------------------------
(***************************************************************************)
(* The parser: its types, that it comes to an end on every source, and     *)
(* which sources it reports no error in.  They are those of the language   *)
(* of the code, which is the grammar's where the two do not part.          *)
(***************************************************************************)
EXTENDS Parser, TLAPS, WellFoundedInduction, SequenceTheorems

\* Every set of naturals that is not empty has a least element: induction, as
\* a fact about sets.
LEMMA LeastElement ==
  ASSUME NEW S \in SUBSET Nat, S # {}
  PROVE  \E k \in S : \A n \in S : k <= n
  <1>1. IsWellFoundedOn(OpToRel(<, Nat), Nat)
    BY NatLessThanWellFounded
  <1>2. PICK k \in S : \A n \in S : ~ (<<n, k>> \in OpToRel(<, Nat))
    BY <1>1, WFMin
  <1>3. \A n \in S : n \in Nat /\ k \in Nat /\ ~ (n < k)
    BY <1>2 DEF OpToRel
  <1>4. \A n \in S : k <= n
    BY <1>3
  <1> QED
    BY <1>2, <1>4

LEMMA MinIsLeast ==
  ASSUME NEW S \in SUBSET Nat, S # {}
  PROVE  Min(S) \in S /\ \A n \in S : Min(S) <= n
  BY LeastElement DEF Min

-----------------------------------------------------------------------------
(***************************************************************************)
(* The language of the code.  It is the grammar but for what the parser    *)
(* reads in another way: a comparison has any expression on its left, a    *)
(* label or an INCLUDE is one statement with the statement behind it, and  *)
(* the end of the file may stand for the statement behind a label, a THEN  *)
(* or an ELSE.                                                             *)
(***************************************************************************)
CodeComparison(i, j) ==
    \E k \in i .. j - 1 : tokens[k] \in Relations /\ IsExpr(i, k) /\ IsExpr(k + 1, j)

CodeBoolean(i, j) == Separated(CodeComparison, {"AND"}, i, j)

CodeKeywordStatement(i, j) ==
    \E k \in i .. j - 1 :
       /\ (k - i) % 2 = 0
       /\ \A h \in i .. k - 1 : (h - i) % 2 = 0 => tokens[h] = "INCLUDE"
       /\ \E parts \in Sides(tokens[k]) : AreParts(parts, k + 1, j)

CodeThens(i)       == {k \in i + 1 .. Len(tokens) : tokens[k] = "THEN" /\ CodeBoolean(i + 1, k)}
CodeElses(ends, i) == {k \in UNION {ends[t + 1].one : t \in CodeThens(i)} : k < EndOfFile /\ tokens[k] = "ELSE"}

LastEnds(ends, k) == ends[k].one \cup ({k} \cap {EndOfFile})

CodeStatementEnds(ends, i) ==
    LET labelled == LastEnds(ends, i + 1)
        branches == UNION {LastEnds(ends, k + 1) : k \in CodeThens(i) \cup CodeElses(ends, i)}
        loops    == Loops(ends, i)
        nexts    == Nexts(ends, i)
    IN {j \in i + 1 .. EndOfFile :
          \/ IsAssign(i, j)
          \/ CodeKeywordStatement(i, j)
          \/ tokens[i] \in LabelNames /\ j \in labelled
          \/ tokens[i] = "IF" /\ j \in branches
          \/ /\ tokens[i] = "DO"
             /\ \E k \in loops :
                   \/ tokens[k + 1] = "ENDLESS" /\ j = k + 2
                   \/ tokens[k + 1] \in {"WHILE", "UNTIL"} /\ CodeBoolean(k + 2, j)
          \/ /\ tokens[i] = "FOR"
             /\ \E k \in nexts :
                   tokens[k + 1] \in NumericVariables /\ tokens[k + 1] = tokens[i + 1] /\ j = k + 2}

CodeEnds[i \in 1 .. EndOfFile] ==
    LET one == CodeStatementEnds(CodeEnds, i)
    IN [one |-> one, all |-> {i} \cup UNION {CodeEnds[k].all : k \in one}]

CodeStatements(i, j) == j \in CodeEnds[i].all

\* A source without an error is in it, one with an error is not.
TakesOnlyCode == Parsed => CodeStatements(1, EndOfFile)
TakesAllCode  == hadError \/ mode = "crashed" => ~CodeStatements(1, EndOfFile)

-----------------------------------------------------------------------------
(***************************************************************************)
(* Positions: every function leaves off behind what it was called at.      *)
(***************************************************************************)

\* The source is a sequence of tokens.
Source == tokens \in Seq(Tokens)

LEMMA NoEof == "EOF" \notin Tokens
  BY DEF Tokens, Variables, NumericVariables, StringVariables, Literals, NumericLiterals, StringLiterals,
         CharLiterals, Arithmetic, Relations, Signs, LabelNames, Identifiers, Keywords, KeywordValues,
         Statements, Modifiers, Structure

LEMMA TokenThere ==
  ASSUME Source, NEW p \in 1 .. EndOfFile
  PROVE  /\ EndOfFile \in Nat \ {0} /\ EndOfFile = Len(tokens) + 1 /\ Len(tokens) \in Nat
         /\ Token(p) # "EOF" => p \in 1 .. Len(tokens) /\ p + 1 \in 1 .. EndOfFile /\ Token(p) = tokens[p]
         /\ Token(p) = "EOF" => p = EndOfFile
         /\ After(p) \in p .. EndOfFile
         /\ Token(p) # "EOF" => After(p) = p + 1
  BY NoEof DEF Source, Token, After, EndOfFile

LEMMA SynchronizedOn ==
  ASSUME Source, NEW p \in 1 .. EndOfFile
  PROVE  /\ Synchronized(p) \in p .. EndOfFile
         /\ Token(p) # "EOF" => Synchronized(p) \in p + 1 .. EndOfFile
  <1>1. CASE Stops(Token(p))
    BY <1>1, TokenThere DEF Synchronized
  <1>2. CASE ~Stops(Token(p))
    <2> DEFINE S == {q \in p + 2 .. Len(tokens) : Stops(Token(q))} \cup {Len(tokens) + 1}
    <2>1. S \in SUBSET Nat /\ S # {} /\ Token(p) # "EOF"
      BY <1>2, TokenThere DEF Stops
    <2>2. \A q \in S : q \in p + 1 .. EndOfFile
      BY <2>1, TokenThere
    <2>3. Synchronized(p) = Min(S)
      BY <1>2 DEF Synchronized
    <2> HIDE DEF S
    <2>4. Synchronized(p) \in p + 1 .. EndOfFile
      BY <2>1, <2>2, <2>3, MinIsLeast
    <2> QED
      BY <2>4, TokenThere
  <1> QED
    BY <1>1, <1>2

\* A result of what was called at p: behind p, unless the file ends there.
Onward(p, r) ==
    /\ r.pos \in p .. EndOfFile
    /\ Token(p) # "EOF" => r.pos > p
    /\ r.err \in BOOLEAN

LEMMA FailedOn ==
  ASSUME Source, NEW p \in 1 .. EndOfFile
  PROVE  Onward(p, Failed(p)) /\ Failed(p).err
  BY SynchronizedOn, TokenThere DEF Onward, Failed, Result

LEMMA OneOfOn ==
  ASSUME Source, NEW p \in 1 .. EndOfFile, NEW ts \in SUBSET Tokens
  PROVE  /\ Onward(p, OneOf(ts, p))
         /\ ~OneOf(ts, p).err => /\ p \in 1 .. Len(tokens) /\ tokens[p] \in ts
                                 /\ OneOf(ts, p).pos = p + 1 /\ OneOf(ts, p).node = Leaf(tokens[p])
         /\ OneOf(ts, p).err <=> Token(p) \notin ts
  <1>1. CASE Token(p) \in ts
    <2>1. Token(p) # "EOF"
      BY <1>1, NoEof
    <2> QED
      BY <1>1, <2>1, TokenThere DEF Onward, OneOf, Result
  <1>2. CASE Token(p) \notin ts
    BY <1>2, FailedOn DEF OneOf
  <1> QED
    BY <1>1, <1>2

LEMMA Sets ==
  /\ Variables \subseteq Tokens /\ Literals \subseteq Tokens /\ KeywordValues \subseteq Tokens
  /\ NumericVariables \subseteq Tokens /\ StringVariables \subseteq Tokens /\ Identifiers \subseteq Tokens
  /\ NumericLiterals \subseteq Tokens /\ StringLiterals \subseteq Tokens
  /\ "&" \in Tokens /\ "&" \notin Variables \cup Literals \cup KeywordValues
  /\ "&" \notin NumericVariables \cup NumericLiterals \cup KeywordValues
  BY DEF Tokens, Variables, NumericVariables, StringVariables, Literals, NumericLiterals, StringLiterals,
         CharLiterals, Arithmetic, Relations, Signs, LabelNames, Identifiers, Keywords, KeywordValues,
         Statements, Modifiers, Structure

LEMMA VariableOn ==
  ASSUME Source, NEW p \in 1 .. EndOfFile
  PROVE  /\ Onward(p, Variable(p))
         /\ ~Variable(p).err => /\ p \in 1 .. Len(tokens) /\ tokens[p] \in Variables
                                /\ Variable(p).pos = p + 1 /\ Variable(p).node = Leaf(tokens[p])
         /\ Variable(p).err <=> Token(p) \notin Variables
  BY OneOfOn, Sets DEF Variable

LEMMA PrimaryOn ==
  ASSUME Source, NEW p \in 1 .. EndOfFile
  PROVE  /\ Onward(p, Primary(p))
         /\ ~Primary(p).err => Primary(p).pos > p /\ IsPrimary(p, Primary(p).pos)
  <1>1. CASE Token(p) = "&"
    <2>1. p \in 1 .. Len(tokens) /\ p + 1 \in 1 .. EndOfFile /\ Token(p) = tokens[p] /\ Token(p) # "EOF"
      BY <1>1, TokenThere
    <2>2. /\ Primary(p).pos = Variable(p + 1).pos
          /\ Primary(p).err = Variable(p + 1).err
      BY <1>1 DEF Primary, Variable, OneOf, Failed, Result
    <2>3. /\ Onward(p + 1, Variable(p + 1))
          /\ ~Variable(p + 1).err => tokens[p + 1] \in Variables /\ Variable(p + 1).pos = (p + 1) + 1
      BY <2>1, VariableOn
    <2>4. EndOfFile \in Nat /\ p \in Nat
      BY TokenThere
    <2>5. Onward(p, Primary(p))
      BY <2>2, <2>3, <2>4 DEF Onward
    <2> QED
      BY <1>1, <2>1, <2>2, <2>3, <2>4, <2>5 DEF IsPrimary
  <1>2. CASE Token(p) # "&"
    <2> DEFINE ts == Variables \cup Literals \cup KeywordValues
    <2>1. Primary(p) = OneOf(ts, p) /\ ts \in SUBSET Tokens
      BY <1>2, Sets DEF Primary
    <2> QED
      BY <2>1, OneOfOn DEF IsPrimary
  <1> QED
    BY <1>1, <1>2

\* The rounds of the loop in expr().
LEMMA TermsLoop ==
  ASSUME NEW a, NEW n \in Nat
  PROVE  \E after : /\ after[0] = a
                    /\ \A k \in 1 .. n : after[k] = MoreTerms(after[k - 1])
                    /\ Loop(MoreTerms, a, n) = after[n]
  <1> DEFINE Value(g, k) == IF k = 0 THEN a ELSE MoreTerms(g[k - 1])
             Solves(g, m) == g = [k \in 0 .. m |-> Value(g, k)]
             bad == {m \in 0 .. n : ~ \E g : Solves(g, m)}
  <1>1. bad = {}
    <2> SUFFICES ASSUME bad # {} PROVE FALSE
      OBVIOUS
    <2>1. PICK m \in bad : \A i \in bad : m <= i
      <3>1. bad \in SUBSET Nat
        OBVIOUS
      <3> HIDE DEF bad
      <3> QED
        BY <3>1, LeastElement
    <2>2. m \in 0 .. n /\ ~ \E g : Solves(g, m)
      BY <2>1
    <2>3. m # 0
      <3> SUFFICES ASSUME m = 0 PROVE FALSE
        OBVIOUS
      <3>1. Solves([k \in 0 .. 0 |-> a], m)
        OBVIOUS
      <3> QED
        BY <2>2, <3>1
    <2>4. m - 1 \in 0 .. n /\ m - 1 \notin bad
      <3> HIDE DEF bad
      <3> QED
        BY <2>1, <2>2, <2>3
    <2>5. PICK g : Solves(g, m - 1)
      BY <2>4
    <2> HIDE DEF Value
    <2> DEFINE h == [k \in 0 .. m |-> IF k = m THEN Value(g, m) ELSE g[k]]
    <2>6. \A k \in 0 .. m : h[k] = Value(h, k)
      <3> SUFFICES ASSUME NEW k \in 0 .. m PROVE h[k] = Value(h, k)
        OBVIOUS
      <3>1. k # 0 => k - 1 \in 0 .. m /\ k - 1 # m
        BY <2>2
      <3>2. k # 0 => h[k - 1] = g[k - 1]
        BY <3>1
      <3> HIDE DEF h
      <3>3. Value(h, k) = Value(g, k)
        BY <3>2 DEF Value
      <3>4. k # m => k \in 0 .. m - 1
        BY <2>2
      <3>5. k # m => g[k] = Value(g, k)
        BY <2>5, <3>4
      <3> QED
        BY <3>3, <3>5 DEF h
    <2>7. h = [k \in 0 .. m |-> h[k]]
      OBVIOUS
    <2> HIDE DEF h
    <2>8. Solves(h, m)
      BY <2>6, <2>7
    <2> QED
      BY <2>2, <2>8
  <1>2. \E g : Solves(g, n)
    <2>1. n \in 0 .. n
      OBVIOUS
    <2> HIDE DEF Solves
    <2> QED
      BY <1>1, <2>1
  <1> DEFINE after == CHOOSE after : after = [k \in 0 .. n |-> IF k = 0 THEN a ELSE MoreTerms(after[k - 1])]
  <1>3. after = [k \in 0 .. n |-> IF k = 0 THEN a ELSE MoreTerms(after[k - 1])]
    BY <1>2
  <1>4. Loop(MoreTerms, a, n) = after[n]
    BY DEF Loop
  <1> HIDE DEF after
  <1>5. after[0] = a
    BY <1>3
  <1>6. ASSUME NEW k \in 1 .. n PROVE after[k] = MoreTerms(after[k - 1])
    BY <1>3
  <1> QED
    BY <1>4, <1>5, <1>6

-----------------------------------------------------------------------------
(***************************************************************************)
(* Parts with separators between them.  A set P of spans stands for the    *)
(* parts.                                                                  *)
(***************************************************************************)
CutsOf(ts, i, j) == {i - 1, j} \cup {k \in i .. j - 1 : tokens[k] \in ts}

Consecutive(a, b, ts, i, j) ==
    a < b /\ \A c \in CutsOf(ts, i, j) : c <= a \/ b <= c

Spaced(P, ts, i, j) ==
    \A a, b \in CutsOf(ts, i, j) : Consecutive(a, b, ts, i, j) => <<a + 1, b>> \in P

LEMMA SpacedOne ==
  ASSUME NEW P, NEW ts, NEW i \in Nat \ {0}, NEW j \in Nat, i < j, <<i, j>> \in P,
         \A k \in i .. j - 1 : tokens[k] \notin ts
  PROVE  Spaced(P, ts, i, j)
  <1>1. CutsOf(ts, i, j) = {i - 1, j}
    BY DEF CutsOf
  <1> QED
    BY <1>1 DEF Spaced, Consecutive

LEMMA SpacedMore ==
  ASSUME NEW P, NEW ts, NEW i \in Nat \ {0}, NEW q \in Nat, NEW j \in Nat, i <= q, q + 1 < j,
         Spaced(P, ts, i, q), tokens[q] \in ts, <<q + 1, j>> \in P,
         \A k \in q + 1 .. j - 1 : tokens[k] \notin ts
  PROVE  Spaced(P, ts, i, j)
  <1> SUFFICES ASSUME NEW a \in CutsOf(ts, i, j), NEW b \in CutsOf(ts, i, j), Consecutive(a, b, ts, i, j)
               PROVE  <<a + 1, b>> \in P
    BY DEF Spaced
  <1>1. /\ a \in Int /\ b \in Int /\ a < b /\ i - 1 <= a /\ b <= j /\ q \in CutsOf(ts, i, j)
        /\ \A c \in CutsOf(ts, i, j) : c <= a \/ b <= c
    BY DEF CutsOf, Consecutive
  <1>2. CASE b <= q
    <2>1. \A c \in CutsOf(ts, i, q) : c \in CutsOf(ts, i, j)
      BY DEF CutsOf
    <2>2. a \in CutsOf(ts, i, q) /\ b \in CutsOf(ts, i, q)
      BY <1>1, <1>2 DEF CutsOf
    <2>3. Consecutive(a, b, ts, i, q)
      BY <1>1, <2>1 DEF Consecutive
    <2> QED
      BY <2>2, <2>3 DEF Spaced
  <1>3. CASE q < b
    <2>1. q <= a
      BY <1>1, <1>3
    <2>2. \A c \in CutsOf(ts, i, j) : q < c => c = j
      BY DEF CutsOf
    <2>3. b = j /\ a = q
      BY <1>1, <1>3, <2>1, <2>2
    <2> QED
      BY <2>3
  <1> QED
    BY <1>1, <1>2, <1>3

\* A token between i and j is a separator or inside a part.
LEMMA SpacedTokens ==
  ASSUME NEW P, NEW ts, NEW i \in Nat \ {0}, NEW j \in Nat, i <= j,
         Spaced(P, ts, i, j), NEW k \in i .. j - 1, tokens[k] \notin ts
  PROVE  \E a, b \in Nat : /\ <<a, b>> \in P /\ i <= a /\ a <= k /\ k < b /\ b <= j
  <1> DEFINE above == {c \in Nat : c \in CutsOf(ts, i, j) /\ k < c}
             below == {d \in 0 .. k : d \in CutsOf(ts, i, j)}
             far   == {k - d : d \in below}
  <1>1. above \in SUBSET Nat /\ above # {}
    BY DEF CutsOf
  <1>2. far \in SUBSET Nat /\ far # {}
    <2>1. i - 1 \in below
      BY DEF CutsOf
    <2> QED
      BY <2>1
  <1>3. PICK b \in above : \A c \in above : b <= c
    <2> HIDE DEF above
    <2> QED
      BY <1>1, LeastElement
  <1>4. PICK f \in far : \A c \in far : f <= c
    <2> HIDE DEF far
    <2> QED
      BY <1>2, LeastElement
  <1>5. PICK a \in below : f = k - a
    BY <1>4
  <1>6. a \in Nat /\ b \in Nat /\ a \in CutsOf(ts, i, j) /\ b \in CutsOf(ts, i, j) /\ a <= k /\ k < b
    BY <1>3, <1>5
  <1>7. a # k
    BY <1>6 DEF CutsOf
  <1>8. ASSUME NEW c \in CutsOf(ts, i, j) PROVE c <= a \/ b <= c
    <2>1. c \in Nat
      BY DEF CutsOf
    <2>2. k < c => b <= c
      BY <1>3, <2>1
    <2>3. c <= k => c <= a
      <3> SUFFICES ASSUME c <= k PROVE c <= a
        OBVIOUS
      <3>1. c \in below
        BY <2>1
      <3>2. k - c \in far
        BY <3>1
      <3>3. k - a <= k - c
        BY <1>4, <1>5, <3>2
      <3> QED
        BY <1>6, <2>1, <3>3
    <2> QED
      BY <2>1, <2>2, <2>3
  <1>9. Consecutive(a, b, ts, i, j)
    BY <1>6, <1>7, <1>8 DEF Consecutive
  <1>10. <<a + 1, b>> \in P
    BY <1>6, <1>9 DEF Spaced
  <1>11. i <= a + 1 /\ b <= j
    BY <1>6 DEF CutsOf
  <1>12. a + 1 \in Nat /\ a + 1 <= k
    BY <1>6, <1>7
  <1> HIDE DEF above, below, far
  <1> QED
    BY <1>6, <1>10, <1>11, <1>12

-----------------------------------------------------------------------------
(***************************************************************************)
(* Expressions.                                                            *)
(***************************************************************************)
Spans == {s \in Nat \X Nat : 1 <= s[1] /\ s[1] < s[2] /\ s[2] <= EndOfFile}

Primaries == {s \in Spans : IsPrimary(s[1], s[2])}

TermTokens == Variables \cup Literals \cup KeywordValues \cup {"&"}

LEMMA TermTokensApart ==
  /\ TermTokens \cap Arithmetic = {} /\ TermTokens \cap Relations = {} /\ "AND" \notin TermTokens
  /\ Arithmetic \cap Relations = {} /\ "AND" \notin Arithmetic \cup Relations
  BY DEF TermTokens, Variables, NumericVariables, StringVariables, Literals, NumericLiterals, StringLiterals,
         CharLiterals, Arithmetic, Relations, KeywordValues

LEMMA PrimaryTokens ==
  ASSUME NEW i \in Nat, NEW j \in Nat, IsPrimary(i, j)
  PROVE  i < j /\ \A k \in i .. j - 1 : tokens[k] \in TermTokens
  BY DEF IsPrimary, TermTokens

\* Spans of an expression, from its parts.
LEMMA ExprSpaced ==
  ASSUME Source, NEW i \in 1 .. EndOfFile, NEW j \in i .. EndOfFile
  PROVE  IsExpr(i, j) <=> Spaced(Primaries, Arithmetic, i, j)
  <1> DEFINE cuts == {i - 1, j} \cup {k \in i .. j - 1 : tokens[k] \in Arithmetic}
  <1>1. EndOfFile \in Nat
    BY TokenThere
  <1>2. cuts = CutsOf(Arithmetic, i, j)
    BY DEF CutsOf
  <1>3. ASSUME NEW a \in cuts, NEW b \in cuts, a < b
        PROVE  <<a + 1, b>> \in Primaries <=> IsPrimary(a + 1, b)
    <2>1. a + 1 \in Nat /\ b \in Nat /\ 1 <= a + 1 /\ b <= EndOfFile /\ a + 1 <= b
      BY <1>1, <1>3
    <2>2. IsPrimary(a + 1, b) => a + 1 < b
      BY <2>1, PrimaryTokens
    <2>3. a + 1 < b => <<a + 1, b>> \in Spans
      BY <2>1 DEF Spans
    <2>4. <<a + 1, b>> \in Primaries => IsPrimary(a + 1, b)
      BY DEF Primaries
    <2> QED
      BY <2>2, <2>3, <2>4 DEF Primaries
  <1>4. IsExpr(i, j) <=> /\ i < j
                        /\ \A a, b \in cuts : a < b /\ (\A c \in cuts : c <= a \/ b <= c) => IsPrimary(a + 1, b)
    BY DEF IsExpr, Separated
  <1>6. (\A a, b \in cuts : a < b /\ (\A c \in cuts : c <= a \/ b <= c) => IsPrimary(a + 1, b)) => i < j
    <2> SUFFICES ASSUME i = j, \A a, b \in cuts : a < b /\ (\A c \in cuts : c <= a \/ b <= c) => IsPrimary(a + 1, b)
                 PROVE  FALSE
      BY <1>1
    <2>1. cuts = {i - 1, i}
      BY <1>1
    <2>2. IsPrimary((i - 1) + 1, i)
      BY <1>1, <2>1
    <2>3. IsPrimary(i, i)
      BY <1>1, <2>2
    <2> QED
      BY <2>3, <1>1, PrimaryTokens
  <1> HIDE DEF cuts
  <1>5. Spaced(Primaries, Arithmetic, i, j) <=>
          \A a, b \in cuts : a < b /\ (\A c \in cuts : c <= a \/ b <= c) => <<a + 1, b>> \in Primaries
    BY <1>2 DEF Spaced, Consecutive
  <1> QED
    BY <1>3, <1>4, <1>5, <1>6

LEMMA ExprOne ==
  ASSUME Source, NEW i \in 1 .. EndOfFile, NEW j \in 1 .. EndOfFile, IsPrimary(i, j)
  PROVE  IsExpr(i, j)
  <1>1. EndOfFile \in Nat /\ i \in Nat \ {0} /\ j \in Nat /\ i < j /\ j \in i .. EndOfFile
    BY TokenThere, PrimaryTokens
  <1>2. <<i, j>> \in Primaries
    BY <1>1 DEF Primaries, Spans
  <1>3. \A k \in i .. j - 1 : tokens[k] \notin Arithmetic
    BY <1>1, PrimaryTokens, TermTokensApart
  <1> QED
    BY <1>1, <1>2, <1>3, SpacedOne, ExprSpaced

LEMMA ExprMore ==
  ASSUME Source, NEW i \in 1 .. EndOfFile, NEW q \in i .. EndOfFile, NEW j \in 1 .. EndOfFile,
         IsExpr(i, q), tokens[q] \in Arithmetic, IsPrimary(q + 1, j)
  PROVE  IsExpr(i, j)
  <1>1. EndOfFile \in Nat /\ i \in Nat \ {0} /\ j \in Nat /\ q \in Nat /\ i <= q
    BY TokenThere
  <1>2. q + 1 < j /\ \A k \in q + 1 .. j - 1 : tokens[k] \in TermTokens
    BY <1>1, PrimaryTokens
  <1>3. <<q + 1, j>> \in Primaries
    BY <1>1, <1>2 DEF Primaries, Spans
  <1>4. \A k \in q + 1 .. j - 1 : tokens[k] \notin Arithmetic
    BY <1>2, TermTokensApart
  <1>5. Spaced(Primaries, Arithmetic, i, q)
    BY ExprSpaced
  <1>6. Spaced(Primaries, Arithmetic, i, j)
    BY <1>1, <1>2, <1>3, <1>4, <1>5, SpacedMore
  <1>7. j \in i .. EndOfFile
    BY <1>1, <1>2
  <1> QED
    BY <1>6, <1>7, ExprSpaced

LEMMA ExprTokens ==
  ASSUME Source, NEW i \in 1 .. EndOfFile, NEW j \in i .. EndOfFile, IsExpr(i, j),
         NEW k \in i .. j - 1
  PROVE  tokens[k] \in TermTokens \cup Arithmetic
  <1>1. EndOfFile \in Nat /\ i \in Nat \ {0} /\ j \in Nat /\ i <= j
    BY TokenThere
  <1>2. CASE tokens[k] \notin Arithmetic
    <2>1. PICK a \in Nat, b \in Nat : <<a, b>> \in Primaries /\ i <= a /\ a <= k /\ k < b /\ b <= j
      BY <1>1, <1>2, ExprSpaced, SpacedTokens
    <2>2. IsPrimary(a, b) /\ k \in a .. b - 1
      BY <1>1, <2>1 DEF Primaries
    <2> QED
      BY <2>2, PrimaryTokens
  <1> QED
    BY <1>2

LEMMA ExprOn ==
  ASSUME Source, NEW p \in 1 .. EndOfFile
  PROVE  /\ Onward(p, Expr(p))
         /\ ~Expr(p).err => Expr(p).pos > p /\ IsExpr(p, Expr(p).pos)
  <1> DEFINE n == Len(tokens)
             Good(r) == Onward(p, r) /\ (~r.err => r.pos > p /\ IsExpr(p, r.pos))
  <1>1. n \in Nat /\ EndOfFile = n + 1
    BY TokenThere
  <1>2. PICK after : /\ after[0] = Primary(p)
                     /\ \A k \in 1 .. n : after[k] = MoreTerms(after[k - 1])
                     /\ Expr(p) = after[n]
    BY <1>1, TermsLoop DEF Expr
  <1>3. Good(after[0])
    <2>1. ~Primary(p).err => IsExpr(p, Primary(p).pos)
      BY PrimaryOn, ExprOne DEF Onward
    <2> QED
      BY <1>2, <2>1, PrimaryOn
  <1>4. ASSUME NEW r, Good(r) PROVE Good(MoreTerms(r))
    <2>1. CASE Token(r.pos) \notin Arithmetic
      BY <1>4, <2>1 DEF MoreTerms
    <2>2. CASE Token(r.pos) \in Arithmetic
      <3> DEFINE q == r.pos
                 b == Primary(q + 1)
      <3>1. /\ q \in p .. EndOfFile /\ q \in 1 .. EndOfFile /\ q \in Nat /\ r.err \in BOOLEAN
            /\ Token(p) # "EOF" => q > p
        BY <1>1, <1>4 DEF Onward
      <3>2. Token(q) # "EOF"
        BY <2>2, NoEof DEF Tokens
      <3>3. q \in 1 .. n /\ q + 1 \in 1 .. EndOfFile /\ Token(q) = tokens[q]
        BY <3>1, <3>2, TokenThere
      <3>4. Onward(q + 1, b) /\ (~b.err => IsPrimary(q + 1, b.pos))
        BY <3>3, PrimaryOn
      <3>5. MoreTerms(r).pos = b.pos /\ MoreTerms(r).err = (r.err \/ b.err)
        BY <2>2 DEF MoreTerms, Joined, Result
      <3>6. b.pos \in p .. EndOfFile /\ b.pos > p /\ b.pos \in 1 .. EndOfFile /\ b.err \in BOOLEAN
        BY <1>1, <3>1, <3>4 DEF Onward
      <3>7. ~(r.err \/ b.err) => IsExpr(p, b.pos)
        BY <1>4, <2>2, <3>1, <3>3, <3>4, <3>6, ExprMore
      <3> QED
        BY <3>1, <3>5, <3>6, <3>7 DEF Onward
    <2> QED
      BY <2>1, <2>2
  <1>5. \A k \in 0 .. n : Good(after[k])
    <2> DEFINE bad == {k \in 0 .. n : ~Good(after[k])}
    <2> SUFFICES ASSUME bad # {} PROVE FALSE
      OBVIOUS
    <2>1. PICK k \in bad : \A i \in bad : k <= i
      <3>1. bad \in SUBSET Nat
        OBVIOUS
      <3> HIDE DEF bad
      <3> QED
        BY <3>1, LeastElement
    <2>2. k \in 0 .. n /\ ~Good(after[k])
      BY <2>1
    <2> HIDE DEF Good
    <2>3. k # 0
      BY <1>3, <2>2
    <2>4. k - 1 \in 0 .. n /\ k \in 1 .. n
      BY <1>1, <2>2, <2>3
    <2>5. Good(after[k - 1])
      <3>1. k - 1 \notin bad
        <4> HIDE DEF bad
        <4> QED
          BY <1>1, <2>1, <2>2
      <3> QED
        BY <2>4, <3>1
    <2> QED
      BY <1>2, <1>4, <2>2, <2>4, <2>5
  <1> QED
    BY <1>1, <1>2, <1>5

-----------------------------------------------------------------------------
(***************************************************************************)
(* Conditions and assignments.                                             *)
(***************************************************************************)

\* Induction up to n, as a fact about a set.
LEMMA UpTo ==
  ASSUME NEW n \in Nat, NEW S, 0 \in S, \A k \in 1 .. n : k - 1 \in S => k \in S
  PROVE  \A k \in 0 .. n : k \in S
  <1> DEFINE bad == {k \in 0 .. n : k \notin S}
  <1> SUFFICES ASSUME bad # {} PROVE FALSE
    OBVIOUS
  <1>1. PICK k \in bad : \A i \in bad : k <= i
    <2>1. bad \in SUBSET Nat
      OBVIOUS
    <2> HIDE DEF bad
    <2> QED
      BY <2>1, LeastElement
  <1>2. k \in 1 .. n /\ k - 1 \in 0 .. n /\ k \notin S
    BY <1>1
  <1>3. k - 1 \notin bad
    <2> HIDE DEF bad
    <2> QED
      BY <1>1, <1>2
  <1> QED
    BY <1>2, <1>3

LEMMA ComparisonOn ==
  ASSUME Source, NEW p \in 1 .. EndOfFile
  PROVE  /\ Onward(p, Comparison(p))
         /\ ~Comparison(p).err => Comparison(p).pos > p /\ CodeComparison(p, Comparison(p).pos)
  <1> DEFINE a == Expr(p)
             q == a.pos
             b == Expr(q + 1)
  <1>1. EndOfFile \in Nat /\ Onward(p, a) /\ (~a.err => q > p /\ IsExpr(p, q))
    BY TokenThere, ExprOn
  <1>2. q \in p .. EndOfFile /\ q \in 1 .. EndOfFile /\ (Token(p) # "EOF" => q > p) /\ a.err \in BOOLEAN
    BY <1>1 DEF Onward
  <1>3. CASE Token(q) \in Relations
    <2>1. Token(q) # "EOF"
      BY <1>3 DEF Relations
    <2>2. q \in 1 .. Len(tokens) /\ q + 1 \in 1 .. EndOfFile /\ Token(q) = tokens[q]
      BY <1>2, <2>1, TokenThere
    <2>3. Onward(q + 1, b) /\ (~b.err => b.pos > q + 1 /\ IsExpr(q + 1, b.pos))
      BY <2>2, ExprOn
    <2>4. Comparison(p).pos = b.pos /\ Comparison(p).err = (a.err \/ b.err)
      BY <1>3 DEF Comparison, Joined, Result
    <2>5. b.pos \in q + 1 .. EndOfFile /\ b.err \in BOOLEAN
      BY <2>3 DEF Onward
    <2>6. ~(a.err \/ b.err) => CodeComparison(p, b.pos)
      <3> SUFFICES ASSUME ~a.err, ~b.err PROVE CodeComparison(p, b.pos)
        OBVIOUS
      <3>1. q \in p .. b.pos - 1
        BY <1>1, <1>2, <2>3, <2>5
      <3> HIDE DEF q, a, b
      <3> QED
        BY <1>1, <1>3, <2>2, <2>3, <3>1 DEF CodeComparison
    <2>7. b.pos \in p .. EndOfFile /\ b.pos > p
      BY <1>1, <1>2, <2>5
    <2> QED
      BY <1>2, <2>4, <2>5, <2>6, <2>7 DEF Onward
  <1>4. CASE Token(q) \notin Relations
    <2>1. Comparison(p) = Failed(q)
      BY <1>4 DEF Comparison
    <2>2. Onward(q, Failed(q)) /\ Failed(q).err
      BY <1>2, FailedOn
    <2> HIDE DEF q, a
    <2>3. Onward(p, Failed(q))
      BY <1>1, <1>2, <2>2 DEF Onward
    <2> QED
      BY <2>1, <2>2, <2>3
  <1> QED
    BY <1>3, <1>4

Comparisons == {s \in Spans : CodeComparison(s[1], s[2])}

LEMMA ComparisonTokens ==
  ASSUME Source, NEW i \in 1 .. EndOfFile, NEW j \in 1 .. EndOfFile, CodeComparison(i, j)
  PROVE  i < j /\ \A k \in i .. j - 1 : tokens[k] # "AND"
  <1>1. EndOfFile \in Nat
    BY TokenThere
  <1>2. PICK m \in i .. j - 1 : tokens[m] \in Relations /\ IsExpr(i, m) /\ IsExpr(m + 1, j)
    BY DEF CodeComparison
  <1>3. m \in i .. EndOfFile /\ m + 1 \in 1 .. EndOfFile /\ j \in m + 1 .. EndOfFile /\ i < j
    BY <1>1
  <1>4. ASSUME NEW k \in i .. j - 1 PROVE tokens[k] # "AND"
    <2>1. CASE k < m
      <3>1. k \in i .. m - 1
        BY <2>1
      <3>2. tokens[k] \in TermTokens \cup Arithmetic
        BY <1>2, <1>3, <3>1, ExprTokens
      <3> QED
        BY <3>2, TermTokensApart
    <2>2. CASE k = m
      BY <1>2, <2>2, TermTokensApart
    <2>3. CASE m < k
      <3>1. k \in m + 1 .. j - 1
        BY <2>3
      <3>2. tokens[k] \in TermTokens \cup Arithmetic
        BY <1>2, <1>3, <3>1, ExprTokens
      <3> QED
        BY <3>2, TermTokensApart
    <2> QED
      BY <1>1, <2>1, <2>2, <2>3
  <1> QED
    BY <1>3, <1>4

LEMMA BooleanSpaced ==
  ASSUME Source, NEW i \in 1 .. EndOfFile, NEW j \in i .. EndOfFile
  PROVE  CodeBoolean(i, j) <=> Spaced(Comparisons, {"AND"}, i, j)
  <1> DEFINE cuts == {i - 1, j} \cup {k \in i .. j - 1 : tokens[k] \in {"AND"}}
  <1>1. EndOfFile \in Nat
    BY TokenThere
  <1>2. cuts = CutsOf({"AND"}, i, j)
    BY DEF CutsOf
  <1>3. ASSUME NEW a \in cuts, NEW b \in cuts, a < b
        PROVE  <<a + 1, b>> \in Comparisons <=> CodeComparison(a + 1, b)
    <2>1. a + 1 \in Nat /\ b \in Nat /\ 1 <= a + 1 /\ b <= EndOfFile /\ a + 1 <= b
      BY <1>1, <1>3
    <2>2. CodeComparison(a + 1, b) => a + 1 < b
      BY <2>1 DEF CodeComparison
    <2>3. a + 1 < b => <<a + 1, b>> \in Spans
      BY <2>1 DEF Spans
    <2>4. <<a + 1, b>> \in Comparisons => CodeComparison(a + 1, b)
      BY DEF Comparisons
    <2> QED
      BY <2>2, <2>3, <2>4 DEF Comparisons
  <1>4. CodeBoolean(i, j) <=> /\ i < j
                        /\ \A a, b \in cuts : a < b /\ (\A c \in cuts : c <= a \/ b <= c) => CodeComparison(a + 1, b)
    BY DEF CodeBoolean, Separated
  <1>6. (\A a, b \in cuts : a < b /\ (\A c \in cuts : c <= a \/ b <= c) => CodeComparison(a + 1, b)) => i < j
    <2> SUFFICES ASSUME i = j, \A a, b \in cuts : a < b /\ (\A c \in cuts : c <= a \/ b <= c) => CodeComparison(a + 1, b)
                 PROVE  FALSE
      BY <1>1
    <2>1. cuts = {i - 1, i}
      BY <1>1
    <2>2. CodeComparison((i - 1) + 1, i)
      BY <1>1, <2>1
    <2>3. CodeComparison(i, i)
      BY <1>1, <2>2
    <2> QED
      BY <2>3, <1>1 DEF CodeComparison
  <1> HIDE DEF cuts
  <1>5. Spaced(Comparisons, {"AND"}, i, j) <=>
          \A a, b \in cuts : a < b /\ (\A c \in cuts : c <= a \/ b <= c) => <<a + 1, b>> \in Comparisons
    BY <1>2 DEF Spaced, Consecutive
  <1> QED
    BY <1>3, <1>4, <1>5, <1>6

LEMMA BooleanOne ==
  ASSUME Source, NEW i \in 1 .. EndOfFile, NEW j \in 1 .. EndOfFile, CodeComparison(i, j)
  PROVE  CodeBoolean(i, j)
  <1>1. EndOfFile \in Nat /\ i \in Nat \ {0} /\ j \in Nat /\ i < j /\ j \in i .. EndOfFile
    BY TokenThere, ComparisonTokens
  <1>2. <<i, j>> \in Comparisons
    BY <1>1 DEF Comparisons, Spans
  <1>3. \A k \in i .. j - 1 : tokens[k] \notin {"AND"}
    BY <1>1, ComparisonTokens
  <1> QED
    BY <1>1, <1>2, <1>3, SpacedOne, BooleanSpaced

LEMMA BooleanMore ==
  ASSUME Source, NEW i \in 1 .. EndOfFile, NEW q \in i .. EndOfFile, NEW j \in 1 .. EndOfFile,
         CodeBoolean(i, q), tokens[q] = "AND", q + 1 \in 1 .. EndOfFile, CodeComparison(q + 1, j)
  PROVE  CodeBoolean(i, j)
  <1>1. EndOfFile \in Nat /\ i \in Nat \ {0} /\ j \in Nat /\ q \in Nat /\ i <= q
    BY TokenThere
  <1>2. q + 1 < j /\ \A k \in q + 1 .. j - 1 : tokens[k] \notin {"AND"}
    BY <1>1, ComparisonTokens
  <1>3. <<q + 1, j>> \in Comparisons
    BY <1>1, <1>2 DEF Comparisons, Spans
  <1>4. Spaced(Comparisons, {"AND"}, i, q)
    BY BooleanSpaced
  <1>5. Spaced(Comparisons, {"AND"}, i, j)
    BY <1>1, <1>2, <1>3, <1>4, SpacedMore
  <1>6. j \in i .. EndOfFile
    BY <1>1, <1>2
  <1> QED
    BY <1>5, <1>6, BooleanSpaced

\* The rounds of the loop in boolean_expr().
LEMMA ComparisonsLoop ==
  ASSUME NEW a, NEW n \in Nat
  PROVE  \E after : /\ after[0] = a
                    /\ \A k \in 1 .. n : after[k] = MoreComparisons(after[k - 1])
                    /\ Loop(MoreComparisons, a, n) = after[n]
  <1> DEFINE Value(g, k) == IF k = 0 THEN a ELSE MoreComparisons(g[k - 1])
             Solves(g, m) == g = [k \in 0 .. m |-> Value(g, k)]
             bad == {m \in 0 .. n : ~ \E g : Solves(g, m)}
  <1>1. bad = {}
    <2> SUFFICES ASSUME bad # {} PROVE FALSE
      OBVIOUS
    <2>1. PICK m \in bad : \A i \in bad : m <= i
      <3>1. bad \in SUBSET Nat
        OBVIOUS
      <3> HIDE DEF bad
      <3> QED
        BY <3>1, LeastElement
    <2>2. m \in 0 .. n /\ ~ \E g : Solves(g, m)
      BY <2>1
    <2>3. m # 0
      <3> SUFFICES ASSUME m = 0 PROVE FALSE
        OBVIOUS
      <3>1. Solves([k \in 0 .. 0 |-> a], m)
        OBVIOUS
      <3> QED
        BY <2>2, <3>1
    <2>4. m - 1 \in 0 .. n /\ m - 1 \notin bad
      <3> HIDE DEF bad
      <3> QED
        BY <2>1, <2>2, <2>3
    <2>5. PICK g : Solves(g, m - 1)
      BY <2>4
    <2> HIDE DEF Value
    <2> DEFINE h == [k \in 0 .. m |-> IF k = m THEN Value(g, m) ELSE g[k]]
    <2>6. \A k \in 0 .. m : h[k] = Value(h, k)
      <3> SUFFICES ASSUME NEW k \in 0 .. m PROVE h[k] = Value(h, k)
        OBVIOUS
      <3>1. k # 0 => k - 1 \in 0 .. m /\ k - 1 # m
        BY <2>2
      <3>2. k # 0 => h[k - 1] = g[k - 1]
        BY <3>1
      <3> HIDE DEF h
      <3>3. Value(h, k) = Value(g, k)
        BY <3>2 DEF Value
      <3>4. k # m => k \in 0 .. m - 1
        BY <2>2
      <3>5. k # m => g[k] = Value(g, k)
        BY <2>5, <3>4
      <3> QED
        BY <3>3, <3>5 DEF h
    <2>7. h = [k \in 0 .. m |-> h[k]]
      OBVIOUS
    <2> HIDE DEF h
    <2>8. Solves(h, m)
      BY <2>6, <2>7
    <2> QED
      BY <2>2, <2>8
  <1>2. \E g : Solves(g, n)
    <2>1. n \in 0 .. n
      OBVIOUS
    <2> HIDE DEF Solves
    <2> QED
      BY <1>1, <2>1
  <1> DEFINE after == CHOOSE after : after = [k \in 0 .. n |-> IF k = 0 THEN a ELSE MoreComparisons(after[k - 1])]
  <1>3. after = [k \in 0 .. n |-> IF k = 0 THEN a ELSE MoreComparisons(after[k - 1])]
    BY <1>2
  <1>4. Loop(MoreComparisons, a, n) = after[n]
    BY DEF Loop
  <1> HIDE DEF after
  <1>5. after[0] = a
    BY <1>3
  <1>6. ASSUME NEW k \in 1 .. n PROVE after[k] = MoreComparisons(after[k - 1])
    BY <1>3
  <1> QED
    BY <1>4, <1>5, <1>6

LEMMA BooleanExprOn ==
  ASSUME Source, NEW p \in 1 .. EndOfFile
  PROVE  /\ Onward(p, BooleanExpr(p))
         /\ ~BooleanExpr(p).err => BooleanExpr(p).pos > p /\ CodeBoolean(p, BooleanExpr(p).pos)
  <1> DEFINE n == Len(tokens)
             Good(r) == Onward(p, r) /\ (~r.err => r.pos > p /\ CodeBoolean(p, r.pos))
  <1>1. n \in Nat /\ EndOfFile = n + 1
    BY TokenThere
  <1>2. PICK after : /\ after[0] = Comparison(p)
                     /\ \A k \in 1 .. n : after[k] = MoreComparisons(after[k - 1])
                     /\ BooleanExpr(p) = after[n]
    BY <1>1, ComparisonsLoop DEF BooleanExpr
  <1>3. Good(after[0])
    <2>1. ~Comparison(p).err => CodeBoolean(p, Comparison(p).pos)
      BY ComparisonOn, BooleanOne DEF Onward
    <2> QED
      BY <1>2, <2>1, ComparisonOn
  <1>4. ASSUME NEW r, Good(r) PROVE Good(MoreComparisons(r))
    <2>1. CASE Token(r.pos) # "AND"
      BY <1>4, <2>1 DEF MoreComparisons
    <2>2. CASE Token(r.pos) = "AND"
      <3> DEFINE q == r.pos
                 b == Comparison(q + 1)
      <3>1. /\ q \in p .. EndOfFile /\ q \in 1 .. EndOfFile /\ q \in Nat /\ r.err \in BOOLEAN
            /\ Token(p) # "EOF" => q > p
        BY <1>1, <1>4 DEF Onward
      <3>2. Token(q) # "EOF"
        BY <2>2
      <3>3. q \in 1 .. n /\ q + 1 \in 1 .. EndOfFile /\ Token(q) = tokens[q]
        BY <3>1, <3>2, TokenThere
      <3>4. Onward(q + 1, b) /\ (~b.err => CodeComparison(q + 1, b.pos))
        BY <3>3, ComparisonOn
      <3>5. MoreComparisons(r).pos = b.pos /\ MoreComparisons(r).err = (r.err \/ b.err)
        BY <2>2 DEF MoreComparisons, Joined, Result
      <3>6. b.pos \in p .. EndOfFile /\ b.pos > p /\ b.pos \in 1 .. EndOfFile /\ b.err \in BOOLEAN
        BY <1>1, <3>1, <3>4 DEF Onward
      <3>7. ~(r.err \/ b.err) => CodeBoolean(p, b.pos)
        BY <1>4, <2>2, <3>1, <3>3, <3>4, <3>6, BooleanMore
      <3> QED
        BY <3>1, <3>5, <3>6, <3>7 DEF Onward
    <2> QED
      BY <2>1, <2>2
  <1>5. Good(after[n])
    <2> DEFINE S == {k \in 0 .. n : Good(after[k])}
    <2>1. 0 \in S
      BY <1>1, <1>3
    <2>2. \A k \in 1 .. n : k - 1 \in S => k \in S
      <3> HIDE DEF Good
      <3> QED
        BY <1>1, <1>2, <1>4
    <2>3. \A k \in 0 .. n : k \in S
      <3> HIDE DEF S
      <3> QED
        BY <1>1, <2>1, <2>2, UpTo
    <2> QED
      BY <1>1, <2>3
  <1> QED
    BY <1>2, <1>5

LEMMA AssignOn ==
  ASSUME Source, NEW p \in 1 .. EndOfFile
  PROVE  /\ Onward(p, Assign(p))
         /\ Assign(p).node = NULL => Assign(p).err
         /\ ~Assign(p).err => /\ Assign(p).pos > p /\ IsAssign(p, Assign(p).pos)
                              /\ Assign(p).node.kids[1] = Leaf(tokens[p])
  <1> DEFINE a == Variable(p)
             q == a.pos
             b == Expr(q + 1)
  <1>1. /\ EndOfFile \in Nat /\ Onward(p, a)
        /\ ~a.err => p \in 1 .. Len(tokens) /\ tokens[p] \in Variables /\ q = p + 1 /\ a.node = Leaf(tokens[p])
    BY TokenThere, VariableOn
  <1>2. q \in p .. EndOfFile /\ q \in 1 .. EndOfFile /\ (Token(p) # "EOF" => q > p) /\ a.err \in BOOLEAN
    BY <1>1 DEF Onward
  <1>3. CASE Token(q) = "="
    <2>1. Token(q) # "EOF"
      BY <1>3
    <2>2. q \in 1 .. Len(tokens) /\ q + 1 \in 1 .. EndOfFile /\ Token(q) = tokens[q]
      BY <1>2, <2>1, TokenThere
    <2>3. Onward(q + 1, b) /\ (~b.err => b.pos > q + 1 /\ IsExpr(q + 1, b.pos))
      BY <2>2, ExprOn
    <2>4. /\ Assign(p).pos = b.pos /\ Assign(p).err = (a.err \/ b.err)
          /\ Assign(p).node = Node(":=", <<a.node, b.node>>)
      BY <1>3 DEF Assign, Joined, Result
    <2>5. b.pos \in q + 1 .. EndOfFile /\ b.err \in BOOLEAN
      BY <2>3 DEF Onward
    <2>6. ~(a.err \/ b.err) => IsAssign(p, b.pos)
      BY <1>1, <1>3, <2>2, <2>3 DEF IsAssign
    <2>7. b.pos \in p .. EndOfFile /\ b.pos > p
      BY <1>1, <1>2, <2>5
    <2>8. Assign(p).node.kids[1] = a.node /\ Assign(p).node # NULL
      <3> HIDE DEF a, b, q
      <3> QED
        BY <2>4 DEF Node, NULL
    <2> QED
      BY <1>1, <1>2, <2>4, <2>5, <2>6, <2>7, <2>8 DEF Onward
  <1>4. CASE Token(q) # "="
    <2>1. Assign(p) = Failed(q)
      BY <1>4 DEF Assign
    <2>2. Onward(q, Failed(q)) /\ Failed(q).err
      BY <1>2, FailedOn
    <2> HIDE DEF q, a
    <2>3. Onward(p, Failed(q))
      BY <1>1, <1>2, <2>2 DEF Onward
    <2> QED
      BY <2>1, <2>2, <2>3
  <1> QED
    BY <1>3, <1>4

-----------------------------------------------------------------------------
(***************************************************************************)
(* The operands of keyword statements.                                     *)
(***************************************************************************)
OperandNames ==
    { "numericVariable", "stringVariable", "lowerOrUpper", "onOrOff", "onOrSend", "getOrSet", "in", "out",
      "rec", "chrOrHex", "semicolon", "string", "numeric", "label", "expr", "variable" }

LEMMA GivenSets ==
  /\ DOMAIN Given = {"numericVariable", "stringVariable", "lowerOrUpper", "onOrOff", "onOrSend", "getOrSet",
                     "in", "out", "rec"}
  /\ Given["numericVariable"] = NumericVariables /\ Given["stringVariable"] = StringVariables
  /\ Given["lowerOrUpper"] = {"LOWER", "UPPER"} /\ Given["onOrOff"] = {"ON", "OFF"}
  /\ Given["onOrSend"] = {"ON", "SEND"} /\ Given["getOrSet"] = {"GET", "SET"}
  /\ Given["in"] = {"IN"} /\ Given["out"] = {"OUT"} /\ Given["rec"] = {"REC"}
  /\ DOMAIN Optional = {"chrOrHex", "semicolon"}
  /\ Optional["chrOrHex"] = {"CHR", "HEX"} /\ Optional["semicolon"] = {";"}
  BY DEF Given, Optional

ModifierTokens ==
    {"LOWER", "UPPER", "ON", "OFF", "SEND", "GET", "SET", "IN", "OUT", "REC", "CHR", "HEX", ";"}

LEMMA ModifiersThere ==
  /\ ModifierTokens \subseteq Tokens
  /\ ModifierTokens \cap {"expr", "numeric", "string", "NUMERIC", "STRING", "LABEL"} = {}
  BY DEF ModifierTokens, Tokens, Modifiers, Keywords, Signs

\* What the grammar calls an operand that the code takes with t in front of it.
Part(o, t) ==
    CASE o = "numericVariable"              -> "NUMERIC"
      [] o = "stringVariable"               -> "STRING"
      [] o = "label"                        -> "LABEL"
      [] o = "variable"                     -> IF t \in NumericVariables THEN "NUMERIC" ELSE "STRING"
      [] o \in {"string", "numeric", "expr"} -> o
      [] OTHER                              -> t

\* An operand is there, at least: the grammar names no empty part.
There(o, p) == o \in DOMAIN Optional => Token(p) \in Optional[o]

LEMMA NumericOn ==
  ASSUME Source, NEW p \in 1 .. EndOfFile
  PROVE  /\ Onward(p, NumericOperand(p))
         /\ ~NumericOperand(p).err => NumericOperand(p).pos > p /\ Is("numeric", p, NumericOperand(p).pos)
  <1>1. CASE Token(p) = "&"
    <2>1. NumericOperand(p) = Primary(p)
      BY <1>1 DEF NumericOperand
    <2>2. tokens[p] = "&"
      BY <1>1, TokenThere
    <2>3. "&" \notin StringVariables \cup StringLiterals \cup CharLiterals
      BY DEF StringVariables, StringLiterals, CharLiterals
    <2> QED
      BY <2>1, <2>2, <2>3, PrimaryOn DEF Is
  <1>2. CASE Token(p) # "&"
    <2> DEFINE ts == NumericVariables \cup NumericLiterals \cup KeywordValues
    <2>1. NumericOperand(p) = OneOf(ts, p) /\ ts \in SUBSET Tokens
      BY <1>2, Sets DEF NumericOperand
    <2>2. /\ ts \subseteq Variables \cup Literals \cup KeywordValues
          /\ ts \cap (StringVariables \cup StringLiterals \cup CharLiterals) = {}
      BY DEF Variables, Literals, NumericVariables, NumericLiterals, KeywordValues, StringVariables,
             StringLiterals, CharLiterals
    <2> HIDE DEF ts
    <2>3. ~OneOf(ts, p).err => OneOf(ts, p).pos = p + 1 /\ tokens[p] \in ts
      BY <2>1, OneOfOn
    <2> QED
      BY <2>1, <2>2, <2>3, OneOfOn DEF IsPrimary, Is
  <1> QED
    BY <1>1, <1>2

\* One operand: behind p if it is there, and the part of the grammar that it
\* stands for.
LEMMA TakingOn ==
  ASSUME Source, NEW o \in OperandNames, NEW p \in 1 .. EndOfFile
  PROVE  /\ Taking(o, p).pos \in p .. EndOfFile /\ Taking(o, p).err \in BOOLEAN
         /\ ~Taking(o, p).err /\ There(o, p) =>
               Taking(o, p).pos > p /\ Is(Part(o, Token(p)), p, Taking(o, p).pos)
         /\ ~There(o, p) => Taking(o, p).pos = p
         /\ ~Taking(o, p).err /\ o \in DOMAIN Given => Token(p) \in Given[o]
  <1>1. ASSUME NEW ts \in SUBSET Tokens
        PROVE  /\ OneOf(ts, p).pos \in p .. EndOfFile /\ OneOf(ts, p).err \in BOOLEAN
               /\ ~OneOf(ts, p).err => /\ OneOf(ts, p).pos = p + 1 /\ OneOf(ts, p).pos > p
                                       /\ tokens[p] \in ts /\ tokens[p] = Token(p)
    BY OneOfOn, TokenThere DEF Onward
  <1>2. CASE o \in {"lowerOrUpper", "onOrOff", "onOrSend", "getOrSet", "in", "out", "rec"}
    <2>1. Taking(o, p) = OneOf(Given[o], p) /\ There(o, p) /\ o \in DOMAIN Given
      BY <1>2, GivenSets DEF Taking, There
    <2>2. Given[o] \in SUBSET ModifierTokens
      BY <1>2, GivenSets, ZenonT(30) DEF ModifierTokens
    <2>3. Part(o, Token(p)) = Token(p)
      BY <1>2 DEF Part
    <2>4. Token(p) \in ModifierTokens => Is(Token(p), p, p + 1) <=> tokens[p] = Token(p)
      BY ModifiersThere DEF Is
    <2> QED
      BY <1>1, <2>1, <2>2, <2>3, <2>4, ModifiersThere
  <1>3. CASE o \in {"chrOrHex", "semicolon"}
    <2>1. o \in DOMAIN Optional /\ o \notin DOMAIN Given
      BY <1>3, GivenSets
    <2>2. Optional[o] \in SUBSET ModifierTokens
      BY <1>3, GivenSets DEF ModifierTokens
    <2>3. Part(o, Token(p)) = Token(p)
      BY <1>3 DEF Part
    <2>4. Token(p) \in ModifierTokens => Is(Token(p), p, p + 1) <=> tokens[p] = Token(p)
      BY ModifiersThere DEF Is
    <2>5. Token(p) \in Optional[o] => Taking(o, p) = OneOf(Optional[o], p)
      BY <1>3, <2>1 DEF Taking
    <2>6. Token(p) \notin Optional[o] => Taking(o, p) = Result(p, NULL, FALSE)
      BY <1>3, <2>1 DEF Taking
    <2>7. CASE Token(p) \in Optional[o]
      BY <1>1, <2>1, <2>2, <2>3, <2>4, <2>5, <2>7, ModifiersThere DEF There
    <2>8. CASE Token(p) \notin Optional[o]
      <3>1. Taking(o, p).pos = p /\ Taking(o, p).err = FALSE
        BY <2>6, <2>8 DEF Result
      <3>2. ~There(o, p) /\ p \in p .. EndOfFile
        BY <2>1, <2>8, TokenThere DEF There
      <3> QED
        BY <2>1, <3>1, <3>2
    <2> QED
      BY <2>7, <2>8
  <1>4. CASE o \in {"numericVariable", "stringVariable", "string", "label", "variable"}
    <2>1. There(o, p)
      BY <1>4, GivenSets DEF There
    <2>2. CASE o = "numericVariable"
      <3>1. Taking(o, p) = OneOf(NumericVariables, p) /\ Given[o] = NumericVariables
        BY <2>2, GivenSets DEF Taking
      <3> QED
        BY <1>1, <2>1, <2>2, <3>1, Sets DEF Part, Is
    <2>3. CASE o = "stringVariable"
      <3>1. Taking(o, p) = OneOf(StringVariables, p) /\ Given[o] = StringVariables
        BY <2>3, GivenSets DEF Taking
      <3> QED
        BY <1>1, <2>1, <2>3, <3>1, Sets DEF Part, Is
    <2>4. CASE o = "string"
      <3>1. Taking(o, p) = OneOf(StringVariables \cup StringLiterals, p) /\ o \notin DOMAIN Given
        BY <2>4, GivenSets DEF Taking
      <3> QED
        BY <1>1, <2>1, <2>4, <3>1, Sets DEF Part, Is
    <2>5. CASE o = "label"
      <3>1. Taking(o, p) = OneOf(Identifiers, p) /\ o \notin DOMAIN Given
        BY <2>5, GivenSets DEF Taking
      <3> QED
        BY <1>1, <2>1, <2>5, <3>1, Sets DEF Part, Is
    <2>6. CASE o = "variable"
      <3>1. Taking(o, p) = OneOf(Variables, p) /\ o \notin DOMAIN Given
        BY <2>6, GivenSets DEF Taking, Variable
      <3>2. Variables = NumericVariables \cup StringVariables
        BY DEF Variables
      <3> QED
        BY <1>1, <2>1, <2>6, <3>1, <3>2, Sets DEF Part, Is
    <2> QED
      BY <1>4, <2>2, <2>3, <2>4, <2>5, <2>6
  <1>5. CASE o = "numeric"
    <2>1. Taking(o, p) = NumericOperand(p) /\ There(o, p) /\ o \notin DOMAIN Given /\ Part(o, Token(p)) = "numeric"
      BY <1>5, GivenSets DEF Taking, There, Part
    <2> QED
      BY <2>1, NumericOn DEF Onward
  <1>6. CASE o = "expr"
    <2>1. Taking(o, p) = Expr(p) /\ There(o, p) /\ o \notin DOMAIN Given /\ Part(o, Token(p)) = "expr"
      BY <1>6, GivenSets DEF Taking, There, Part
    <2> QED
      BY <2>1, ExprOn DEF Onward, Is
  <1> QED
    BY <1>2, <1>3, <1>4, <1>5, <1>6 DEF OperandNames

LEMMA RuleNames ==
  ASSUME NEW k \in Statements, NEW t
  PROVE  /\ Rule(k, t) \in Seq(OperandNames)
         /\ k # "PRINT" => Rule(k, t) \in Seq(OperandNames \ DOMAIN Optional)
  <1> DEFINE S == OperandNames \ DOMAIN Optional
  <1>1. \A os \in Seq(S) : os \in Seq(OperandNames)
    OBVIOUS
  <1>2. S = OperandNames \ {"chrOrHex", "semicolon"}
    BY GivenSets
  <1> HIDE DEF S
  <1>3. CASE k \in {"BREAK", "CLS", "END", "FILES", "RETURN"}
    <2>1. Rule(k, t) = <<>>
      BY <1>3 DEF Rule
    <2>2. <<>> \in Seq(S)
      BY <1>2 DEF OperandNames
    <2> QED
      BY <1>1, <2>1, <2>2 DEF S
  <1>4. CASE k \in {"ALERT", "DELETE", "SIZE"}
    <2>1. Rule(k, t) = <<"string">>
      BY <1>4 DEF Rule
    <2>2. <<"string">> \in Seq(S)
      BY <1>2 DEF OperandNames
    <2> QED
      BY <1>1, <2>1, <2>2 DEF S
  <1>5. CASE k \in {"INK", "PAUSE"}
    <2>1. Rule(k, t) = <<"numeric">>
      BY <1>5 DEF Rule
    <2>2. <<"numeric">> \in Seq(S)
      BY <1>2 DEF OperandNames
    <2> QED
      BY <1>1, <2>1, <2>2 DEF S
  <1>6. CASE k \in {"GOSUB", "GOTO"}
    <2>1. Rule(k, t) = <<"label">>
      BY <1>6 DEF Rule
    <2>2. <<"label">> \in Seq(S)
      BY <1>2 DEF OperandNames
    <2> QED
      BY <1>1, <2>1, <2>2 DEF S
  <1>7. CASE k = "CALL"
    <2>1. Rule(k, t) = <<"expr">>
      BY <1>7 DEF Rule
    <2>2. <<"expr">> \in Seq(S)
      BY <1>2 DEF OperandNames
    <2> QED
      BY <1>1, <2>1, <2>2 DEF S
  <1>8. CASE k = "INPUT"
    <2>1. Rule(k, t) = <<"variable">>
      BY <1>8 DEF Rule
    <2>2. <<"variable">> \in Seq(S)
      BY <1>2 DEF OperandNames
    <2> QED
      BY <1>1, <2>1, <2>2 DEF S
  <1>9. CASE k = "ASKFILE"
    <2>1. Rule(k, t) = <<"stringVariable">>
      BY <1>9 DEF Rule
    <2>2. <<"stringVariable">> \in Seq(S)
      BY <1>2 DEF OperandNames
    <2> QED
      BY <1>1, <2>1, <2>2 DEF S
  <1>10. CASE k \in {"CURSCHAR", "CURSCOL", "GETKEY", "WAITKEY"}
    <2>1. Rule(k, t) = <<"numericVariable">>
      BY <1>10 DEF Rule
    <2>2. <<"numericVariable">> \in Seq(S)
      BY <1>2 DEF OperandNames
    <2> QED
      BY <1>1, <2>1, <2>2 DEF S
  <1>11. CASE k = "CURSOR"
    <2>1. Rule(k, t) = <<"onOrOff">>
      BY <1>11 DEF Rule
    <2>2. <<"onOrOff">> \in Seq(S)
      BY <1>2 DEF OperandNames
    <2> QED
      BY <1>1, <2>1, <2>2 DEF S
  <1>12. CASE k = "CURSPOS"
    <2>1. Rule(k, t) = <<"numericVariable", "numericVariable">>
      BY <1>12 DEF Rule
    <2>2. <<"numericVariable", "numericVariable">> \in Seq(S)
      BY <1>2 DEF OperandNames
    <2> QED
      BY <1>1, <2>1, <2>2 DEF S
  <1>13. CASE k = "CASE"
    <2>1. Rule(k, t) = <<"lowerOrUpper", "stringVariable">>
      BY <1>13 DEF Rule
    <2>2. <<"lowerOrUpper", "stringVariable">> \in Seq(S)
      BY <1>2 DEF OperandNames
    <2> QED
      BY <1>1, <2>1, <2>2 DEF S
  <1>14. CASE k = "LEN"
    <2>1. Rule(k, t) = <<"string", "numericVariable">>
      BY <1>14 DEF Rule
    <2>2. <<"string", "numericVariable">> \in Seq(S)
      BY <1>2 DEF OperandNames
    <2> QED
      BY <1>1, <2>1, <2>2 DEF S
  <1>15. CASE k = "LOAD"
    <2>1. Rule(k, t) = <<"string", "numeric">>
      BY <1>15 DEF Rule
    <2>2. <<"string", "numeric">> \in Seq(S)
      BY <1>2 DEF OperandNames
    <2> QED
      BY <1>1, <2>1, <2>2 DEF S
  <1>16. CASE k = "RENAME"
    <2>1. Rule(k, t) = <<"string", "string">>
      BY <1>16 DEF Rule
    <2>2. <<"string", "string">> \in Seq(S)
      BY <1>2 DEF OperandNames
    <2> QED
      BY <1>1, <2>1, <2>2 DEF S
  <1>17. CASE k \in {"MOVE", "PAGE", "POKE", "POKEINT", "SOUND"}
    <2>1. Rule(k, t) = <<"numeric", "numeric">>
      BY <1>17 DEF Rule
    <2>2. <<"numeric", "numeric">> \in Seq(S)
      BY <1>2 DEF OperandNames
    <2> QED
      BY <1>1, <2>1, <2>2 DEF S
  <1>18. CASE k \in {"PEEK", "PEEKINT"}
    <2>1. Rule(k, t) = <<"numericVariable", "numeric">>
      BY <1>18 DEF Rule
    <2>2. <<"numericVariable", "numeric">> \in Seq(S)
      BY <1>2 DEF OperandNames
    <2> QED
      BY <1>1, <2>1, <2>2 DEF S
  <1>19. CASE k = "RAND"
    <2>1. Rule(k, t) = <<"numericVariable", "numeric", "numeric">>
      BY <1>19 DEF Rule
    <2>2. <<"numericVariable", "numeric", "numeric">> \in Seq(S)
      BY <1>2 DEF OperandNames
    <2> QED
      BY <1>1, <2>1, <2>2 DEF S
  <1>20. CASE k = "READ"
    <2>1. Rule(k, t) = <<"label", "numeric", "numericVariable">>
      BY <1>20 DEF Rule
    <2>2. <<"label", "numeric", "numericVariable">> \in Seq(S)
      BY <1>2 DEF OperandNames
    <2> QED
      BY <1>1, <2>1, <2>2 DEF S
  <1>21. CASE k = "SAVE"
    <2>1. Rule(k, t) = <<"string", "numeric", "numeric">>
      BY <1>21 DEF Rule
    <2>2. <<"string", "numeric", "numeric">> \in Seq(S)
      BY <1>2 DEF OperandNames
    <2> QED
      BY <1>1, <2>1, <2>2 DEF S
  <1>22. CASE k = "LISTBOX"
    <2>1. Rule(k, t) = <<"string", "string", "string", "numericVariable">>
      BY <1>22 DEF Rule
    <2>2. <<"string", "string", "string", "numericVariable">> \in Seq(S)
      BY <1>2 DEF OperandNames
    <2> QED
      BY <1>1, <2>1, <2>2 DEF S
  <1>23. CASE k = "PRINT"
    <2>1. Rule(k, t) = <<"chrOrHex", "expr", "semicolon">>
      BY <1>23 DEF Rule, PrintOperands
    <2>2. <<"chrOrHex", "expr", "semicolon">> \in Seq(OperandNames)
      BY DEF OperandNames
    <2> QED
      BY <1>23, <2>1, <2>2
  <1>24. CASE k = "STRING"
    <2>1. Rule(k, t) = StringOperands
      BY <1>24 DEF Rule
    <2>2. <<"getOrSet", "stringVariable", "numeric", "numericVariable">> \in Seq(S)
      BY <1>2 DEF OperandNames
    <2> QED
      BY <1>1, <2>1, <2>2 DEF StringOperands, S
  <1>25. CASE k = "NUMBER"
    <2>1. Rule(k, t) = NumberOperands(t)
      BY <1>25 DEF Rule
    <2>2. <<"stringVariable", "numericVariable">> \in Seq(S) /\ <<"numericVariable", "stringVariable">> \in Seq(S)
      BY <1>2 DEF OperandNames
    <2> QED
      BY <1>1, <2>1, <2>2 DEF NumberOperands, S
  <1>26. CASE k = "PORT"
    <2>1. Rule(k, t) = PortOperands(t)
      BY <1>26 DEF Rule
    <2>2. <<"out", "numeric", "numeric">> \in Seq(S) /\ <<"in", "numeric", "numericVariable">> \in Seq(S)
      BY <1>2 DEF OperandNames
    <2> QED
      BY <1>1, <2>1, <2>2 DEF PortOperands, S
  <1>27. CASE k = "SERIAL"
    <2>1. Rule(k, t) = SerialOperands(t)
      BY <1>27 DEF Rule
    <2>2. <<"rec", "numericVariable">> \in Seq(S) /\ <<"onOrSend", "numeric">> \in Seq(S)
      BY <1>2 DEF OperandNames
    <2> QED
      BY <1>1, <2>1, <2>2 DEF SerialOperands, S
  <1> QED
    BY <1>3, <1>4, <1>5, <1>6, <1>7, <1>8, <1>9, <1>10, <1>11, <1>12, <1>13, <1>14, <1>15, <1>16, <1>17, <1>18, <1>19, <1>20, <1>21, <1>22, <1>23, <1>24, <1>25, <1>26, <1>27 DEF Statements

\* The operands, one after the other.
LEMMA OperandsLoop ==
  ASSUME NEW os, NEW p, NEW n \in Nat, n = Len(os)
  PROVE  \E after : /\ after[0] = [pos |-> p, node |-> <<>>, err |-> FALSE, lost |-> FALSE]
                    /\ \A k \in 1 .. n : after[k] = NextOperand(os, after[k - 1])
                    /\ Operands(os, p) = after[n]
  <1> DEFINE a == [pos |-> p, node |-> <<>>, err |-> FALSE, lost |-> FALSE]
             Value(g, k) == IF k = 0 THEN a ELSE NextOperand(os, g[k - 1])
             Solves(g, m) == g = [k \in 0 .. m |-> Value(g, k)]
             bad == {m \in 0 .. n : ~ \E g : Solves(g, m)}
  <1>1. bad = {}
    <2> SUFFICES ASSUME bad # {} PROVE FALSE
      OBVIOUS
    <2>1. PICK m \in bad : \A i \in bad : m <= i
      <3>1. bad \in SUBSET Nat
        OBVIOUS
      <3> HIDE DEF bad
      <3> QED
        BY <3>1, LeastElement
    <2>2. m \in 0 .. n /\ ~ \E g : Solves(g, m)
      BY <2>1
    <2>3. m # 0
      <3> SUFFICES ASSUME m = 0 PROVE FALSE
        OBVIOUS
      <3>1. Solves([k \in 0 .. 0 |-> a], m)
        OBVIOUS
      <3> QED
        BY <2>2, <3>1
    <2>4. m - 1 \in 0 .. n /\ m - 1 \notin bad
      <3> HIDE DEF bad
      <3> QED
        BY <2>1, <2>2, <2>3
    <2>5. PICK g : Solves(g, m - 1)
      BY <2>4
    <2> HIDE DEF Value
    <2> DEFINE h == [k \in 0 .. m |-> IF k = m THEN Value(g, m) ELSE g[k]]
    <2>6. \A k \in 0 .. m : h[k] = Value(h, k)
      <3> SUFFICES ASSUME NEW k \in 0 .. m PROVE h[k] = Value(h, k)
        OBVIOUS
      <3>1. k # 0 => k - 1 \in 0 .. m /\ k - 1 # m
        BY <2>2
      <3>2. k # 0 => h[k - 1] = g[k - 1]
        BY <3>1
      <3> HIDE DEF h
      <3>3. Value(h, k) = Value(g, k)
        BY <3>2 DEF Value
      <3>4. k # m => k \in 0 .. m - 1
        BY <2>2
      <3>5. k # m => g[k] = Value(g, k)
        BY <2>5, <3>4
      <3> QED
        BY <3>3, <3>5 DEF h
    <2>7. h = [k \in 0 .. m |-> h[k]]
      OBVIOUS
    <2> HIDE DEF h
    <2>8. Solves(h, m)
      BY <2>6, <2>7
    <2> QED
      BY <2>2, <2>8
  <1>2. \E g : Solves(g, n)
    <2>1. n \in 0 .. n
      OBVIOUS
    <2> HIDE DEF Solves
    <2> QED
      BY <1>1, <2>1
  <1> DEFINE after == CHOOSE after : after = [k \in 0 .. n |-> IF k = 0 THEN a ELSE NextOperand(os, after[k - 1])]
  <1>3. after = [k \in 0 .. n |-> IF k = 0 THEN a ELSE NextOperand(os, after[k - 1])]
    BY <1>2
  <1>4. Operands(os, p) = after[n]
    BY DEF Operands, Loop
  <1> HIDE DEF after
  <1>5. after[0] = a
    <2>1. 0 \in 0 .. n
      OBVIOUS
    <2> HIDE DEF a
    <2> QED
      BY <1>3, <2>1
  <1>6. ASSUME NEW k \in 1 .. n PROVE after[k] = NextOperand(os, after[k - 1])
    <2>1. k \in 0 .. n /\ k # 0
      OBVIOUS
    <2> HIDE DEF a
    <2> QED
      BY <1>3, <2>1
  <1> QED
    BY <1>4, <1>5, <1>6

\* The operand o is what the tokens i to j - 1 are.
Taken(o, i, j) == Taking(o, i).pos = j /\ ~Taking(o, i).err

LEMMA OperandsOn ==
  ASSUME Source, NEW os \in Seq(OperandNames), NEW p \in 1 .. EndOfFile
  PROVE  /\ Operands(os, p).pos \in p .. EndOfFile
         /\ Operands(os, p).err \in BOOLEAN
         /\ Operands(os, p).lost \in BOOLEAN
         /\ ~Operands(os, p).err =>
               \E cut \in [0 .. Len(os) -> 1 .. EndOfFile] :
                  /\ cut[0] = p /\ cut[Len(os)] = Operands(os, p).pos
                  /\ \A n \in 1 .. Len(os) : Taken(os[n], cut[n - 1], cut[n])
  <1> DEFINE m == Len(os)
             Cut(r, k) == \E cut \in [0 .. k -> 1 .. EndOfFile] :
                             /\ cut[0] = p /\ cut[k] = r.pos
                             /\ \A n \in 1 .. k : Taken(os[n], cut[n - 1], cut[n])
             Good(r, k) == /\ r.pos \in p .. EndOfFile /\ r.err \in BOOLEAN /\ r.lost \in BOOLEAN
                           /\ r.lost => r.err
                           /\ ~r.lost => Len(r.node) = k
                           /\ ~r.err => Cut(r, k)
  <1>1. m \in Nat /\ EndOfFile \in Nat /\ p \in Nat /\ \A n \in 1 .. m : os[n] \in OperandNames
    BY TokenThere
  <1>2. PICK after : /\ after[0] = [pos |-> p, node |-> <<>>, err |-> FALSE, lost |-> FALSE]
                     /\ \A k \in 1 .. m : after[k] = NextOperand(os, after[k - 1])
                     /\ Operands(os, p) = after[m]
    BY <1>1, OperandsLoop
  <1>3. Good(after[0], 0)
    <2>1. /\ after[0].pos = p /\ after[0].err = FALSE /\ after[0].lost = FALSE /\ after[0].node = <<>>
      BY <1>2
    <2>2. Cut(after[0], 0)
      <3> DEFINE cut == [n \in 0 .. 0 |-> p]
      <3>1. cut \in [0 .. 0 -> 1 .. EndOfFile] /\ cut[0] = p
        OBVIOUS
      <3>2. \A n \in 1 .. 0 : Taken(os[n], cut[n - 1], cut[n])
        OBVIOUS
      <3> HIDE DEF cut
      <3> QED
        BY <2>1, <3>1, <3>2
    <2>3. p \in p .. EndOfFile /\ Len(after[0].node) = 0
      BY <1>1, <2>1
    <2> HIDE DEF Cut
    <2> QED
      BY <2>1, <2>2, <2>3
  <1>4. ASSUME NEW k \in 1 .. m, Good(after[k - 1], k - 1) PROVE Good(after[k], k)
    <2> DEFINE r == after[k - 1]
               o == os[k]
               b == Taking(o, r.pos)
    <2>1. after[k] = NextOperand(os, r)
      BY <1>2
    <2>2. CASE r.lost
      <3>1. after[k] = r /\ r.err
        BY <1>4, <2>1, <2>2 DEF NextOperand
      <3> HIDE DEF r, Cut
      <3> QED
        BY <1>4, <2>2, <3>1 DEF r
    <2>3. CASE ~r.lost
      <3>1. Len(r.node) = k - 1 /\ k - 1 # m /\ Len(r.node) + 1 = k
        BY <1>1, <1>4, <2>3
      <3>2. after[k] = [ pos |-> b.pos, node |-> Append(r.node, b.node), err |-> r.err \/ b.err,
                         lost |-> o \in DOMAIN Given /\ b.err ]
        <4> HIDE DEF r
        <4> QED
          BY <2>1, <2>3, <3>1 DEF NextOperand
      <3>3. /\ after[k].pos = b.pos /\ after[k].node = Append(r.node, b.node)
            /\ after[k].err = (r.err \/ b.err) /\ after[k].lost = (o \in DOMAIN Given /\ b.err)
        BY <3>2
      <3>4. o \in OperandNames /\ r.pos \in 1 .. EndOfFile /\ r.pos \in p .. EndOfFile /\ r.err \in BOOLEAN
        BY <1>1, <1>4
      <3>5. b.pos \in r.pos .. EndOfFile /\ b.err \in BOOLEAN
        BY <3>4, TakingOn
      <3>6. b.pos \in p .. EndOfFile /\ b.pos \in 1 .. EndOfFile
        BY <1>1, <3>4, <3>5
      <3>7. Len(Append(r.node, b.node)) = k
        BY <3>1
      <3>8. ~(r.err \/ b.err) => Cut(after[k], k)
        <4> SUFFICES ASSUME ~r.err, ~b.err PROVE Cut(after[k], k)
          OBVIOUS
        <4>1. PICK cut \in [0 .. k - 1 -> 1 .. EndOfFile] :
                  /\ cut[0] = p /\ cut[k - 1] = r.pos
                  /\ \A n \in 1 .. k - 1 : Taken(os[n], cut[n - 1], cut[n])
          BY <1>4
        <4> DEFINE new == [n \in 0 .. k |-> IF n = k THEN b.pos ELSE cut[n]]
        <4>2. new \in [0 .. k -> 1 .. EndOfFile]
          <5>1. \A n \in 0 .. k : n # k => n \in 0 .. k - 1
            OBVIOUS
          <5> QED
            BY <3>6, <4>1, <5>1
        <4>3. /\ new[0] = p /\ new[k] = after[k].pos /\ new[k - 1] = r.pos
              /\ \A n \in 1 .. k - 1 : new[n] = cut[n] /\ new[n - 1] = cut[n - 1]
          BY <3>3, <4>1
        <4>4. Taken(o, r.pos, b.pos)
          BY DEF Taken
        <4> HIDE DEF new, o, b, r
        <4>5. \A n \in 1 .. k : Taken(os[n], new[n - 1], new[n])
          <5> TAKE n \in 1 .. k
          <5>1. CASE n = k
            BY <3>3, <4>3, <4>4, <5>1 DEF o
          <5>2. CASE n # k
            <6>1. n \in 1 .. k - 1
              BY <5>2
            <6> QED
              BY <4>1, <4>3, <6>1
          <5> QED
            BY <5>1, <5>2
        <4> QED
          BY <4>2, <4>3, <4>5
      <3> HIDE DEF r, o, b, Cut
      <3> QED
        BY <3>3, <3>4, <3>5, <3>6, <3>7, <3>8
    <2> QED
      BY <1>4, <2>2, <2>3
  <1>5. Good(after[m], m)
    <2> DEFINE S == {k \in 0 .. m : Good(after[k], k)}
    <2> HIDE DEF Good
    <2>1. 0 \in S
      BY <1>1, <1>3
    <2>2. \A k \in 1 .. m : k - 1 \in S => k \in S
      BY <1>1, <1>4
    <2>3. \A k \in 0 .. m : k \in S
      <3> HIDE DEF S
      <3> QED
        BY <1>1, <2>1, <2>2, UpTo
    <2> QED
      BY <1>1, <2>3
  <1> QED
    BY <1>2, <1>5

NextEnds(parts, i, j, k, ends) == {x \in i .. j : \E h \in ends : h < x /\ Is(parts[k], h, x)}

EndsOf(parts, i, j, n, after) ==
    /\ after[0] = {i}
    /\ \A k \in 1 .. n : after[k] = NextEnds(parts, i, j, k, after[k - 1])
    /\ AreParts(parts, i, j) <=> j \in after[n]

\* The ends that the first parts may have.
LEMMA PartsLoop ==
  ASSUME NEW parts, NEW i \in Nat, NEW j \in Nat, NEW n \in Nat, n = Len(parts)
  PROVE  \E after : EndsOf(parts, i, j, n, after)
  <1> DEFINE Value(g, k) == IF k = 0 THEN {i} ELSE NextEnds(parts, i, j, k, g[k - 1])
             Solves(g, m) == g = [k \in 0 .. m |-> Value(g, k)]
             bad == {m \in 0 .. n : ~ \E g : Solves(g, m)}
  <1>1. bad = {}
    <2> SUFFICES ASSUME bad # {} PROVE FALSE
      OBVIOUS
    <2>1. PICK m \in bad : \A x \in bad : m <= x
      <3>1. bad \in SUBSET Nat
        OBVIOUS
      <3> HIDE DEF bad
      <3> QED
        BY <3>1, LeastElement
    <2>2. m \in 0 .. n /\ ~ \E g : Solves(g, m)
      BY <2>1
    <2>3. m # 0
      <3> SUFFICES ASSUME m = 0 PROVE FALSE
        OBVIOUS
      <3>1. Solves([k \in 0 .. 0 |-> {i}], m)
        OBVIOUS
      <3> QED
        BY <2>2, <3>1
    <2>4. m - 1 \in 0 .. n /\ m - 1 \notin bad
      <3> HIDE DEF bad
      <3> QED
        BY <2>1, <2>2, <2>3
    <2>5. PICK g : Solves(g, m - 1)
      BY <2>4
    <2> HIDE DEF Value
    <2> DEFINE h == [k \in 0 .. m |-> IF k = m THEN Value(g, m) ELSE g[k]]
    <2>6. \A k \in 0 .. m : h[k] = Value(h, k)
      <3> SUFFICES ASSUME NEW k \in 0 .. m PROVE h[k] = Value(h, k)
        OBVIOUS
      <3>1. k # 0 => k - 1 \in 0 .. m /\ k - 1 # m
        BY <2>2
      <3>2. k # 0 => h[k - 1] = g[k - 1]
        BY <3>1
      <3> HIDE DEF h
      <3>3. Value(h, k) = Value(g, k)
        BY <3>2 DEF Value
      <3>4. k # m => k \in 0 .. m - 1
        BY <2>2
      <3>5. k # m => g[k] = Value(g, k)
        BY <2>5, <3>4
      <3> QED
        BY <3>3, <3>5 DEF h
    <2>7. h = [k \in 0 .. m |-> h[k]]
      OBVIOUS
    <2> HIDE DEF h
    <2>8. Solves(h, m)
      BY <2>6, <2>7
    <2> QED
      BY <2>2, <2>8
  <1>2. \E g : Solves(g, n)
    <2>1. n \in 0 .. n
      OBVIOUS
    <2> HIDE DEF Solves
    <2> QED
      BY <1>1, <2>1
  <1> DEFINE after == CHOOSE after : after = [k \in 0 .. n |-> IF k = 0 THEN {i} ELSE NextEnds(parts, i, j, k, after[k - 1])]
  <1>3. after = [k \in 0 .. n |-> IF k = 0 THEN {i} ELSE NextEnds(parts, i, j, k, after[k - 1])]
    BY <1>2
  <1>4. AreParts(parts, i, j) <=> j \in after[n]
    BY DEF AreParts, NextEnds
  <1> HIDE DEF after
  <1>5. after[0] = {i}
    BY <1>3
  <1>6. ASSUME NEW k \in 1 .. n PROVE after[k] = NextEnds(parts, i, j, k, after[k - 1])
    <2>1. k \in 0 .. n /\ k # 0
      OBVIOUS
    <2>2. after = [x \in 0 .. n |-> Value(after, x)]
      BY <1>3
    <2> HIDE DEF Value
    <2>3. after[k] = Value(after, k)
      BY <2>1, <2>2
    <2> QED
      BY <2>1, <2>3 DEF Value
  <1> QED
    BY <1>4, <1>5, <1>6 DEF EndsOf

\* Parts one after the other, between these cuts.
LEMMA PartsInARow ==
  ASSUME NEW parts, NEW m \in Nat, m = Len(parts), NEW i \in Nat, NEW j \in Nat,
         NEW cut \in [0 .. m -> Nat], cut[0] = i, cut[m] = j,
         \A n \in 1 .. m : cut[n - 1] < cut[n] /\ Is(parts[n], cut[n - 1], cut[n])
  PROVE  AreParts(parts, i, j)
  <1>1. \A n \in 0 .. m : i <= cut[n]
    <2> DEFINE S == {n \in 0 .. m : i <= cut[n]}
    <2>1. 0 \in S
      OBVIOUS
    <2>2. \A n \in 1 .. m : n - 1 \in S => n \in S
      OBVIOUS
    <2>3. \A n \in 0 .. m : n \in S
      <3> HIDE DEF S
      <3> QED
        BY <2>1, <2>2, UpTo
    <2> QED
      BY <2>3
  <1>2. \A n \in 0 .. m : cut[n] <= j
    <2> DEFINE S == {d \in 0 .. m : cut[m - d] <= j}
    <2>1. 0 \in S
      OBVIOUS
    <2>2. \A d \in 1 .. m : d - 1 \in S => d \in S
      <3> TAKE d \in 1 .. m
      <3> HAVE d - 1 \in S
      <3> DEFINE e == m - (d - 1)
      <3>1. e \in 1 .. m /\ e - 1 = m - d /\ e - 1 \in 0 .. m /\ d \in 0 .. m
        OBVIOUS
      <3>2. cut[e] <= j
        OBVIOUS
      <3> HIDE DEF e
      <3>3. cut[e - 1] < cut[e] /\ cut[e - 1] \in Nat /\ cut[e] \in Nat
        BY <3>1, SMTT(20)
      <3>4. cut[m - d] <= j
        <4>1. cut[m - d] = cut[e - 1]
          BY <3>1
        <4>2. cut[e - 1] <= j
          BY <3>2, <3>3
        <4> QED
          BY <4>1, <4>2
      <3> QED
        BY <3>1, <3>4
    <2>3. \A d \in 0 .. m : d \in S
      <3> HIDE DEF S
      <3> QED
        BY <2>1, <2>2, UpTo
    <2> TAKE n \in 0 .. m
    <2>4. m - n \in 0 .. m /\ m - (m - n) = n
      OBVIOUS
    <2>5. m - n \in S
      BY <2>3, <2>4
    <2> QED
      BY <2>4, <2>5
  <1>3. PICK after : EndsOf(parts, i, j, m, after)
    BY PartsLoop
  <1>4. \A n \in 0 .. m : cut[n] \in after[n]
    <2> DEFINE S == {n \in 0 .. m : cut[n] \in after[n]}
    <2>1. 0 \in S
      BY <1>3 DEF EndsOf
    <2>2. \A n \in 1 .. m : n - 1 \in S => n \in S
      <3> TAKE n \in 1 .. m
      <3> HAVE n - 1 \in S
      <3>1. n \in 0 .. m /\ cut[n] \in Nat /\ cut[n] \in i .. j
        BY <1>1, <1>2
      <3>2. cut[n - 1] \in after[n - 1] /\ cut[n - 1] < cut[n] /\ Is(parts[n], cut[n - 1], cut[n])
        OBVIOUS
      <3> QED
        BY <1>3, <3>1, <3>2 DEF NextEnds, EndsOf
    <2>3. \A n \in 0 .. m : n \in S
      <3> HIDE DEF S
      <3> QED
        BY <2>1, <2>2, UpTo
    <2> QED
      BY <2>3
  <1> QED
    BY <1>3, <1>4 DEF EndsOf

\* The parts of the grammar that operands stand for, if they are all there.
LEMMA PartsOfOperands ==
  ASSUME Source, NEW os \in Seq(OperandNames), NEW p \in 1 .. EndOfFile,
         NEW cut \in [0 .. Len(os) -> 1 .. EndOfFile], cut[0] = p,
         \A n \in 1 .. Len(os) : Taken(os[n], cut[n - 1], cut[n]) /\ There(os[n], cut[n - 1]),
         NEW parts, Len(parts) = Len(os),
         \A n \in 1 .. Len(os) : parts[n] = Part(os[n], Token(cut[n - 1]))
  PROVE  AreParts(parts, p, cut[Len(os)])
  <1> DEFINE m == Len(os)
  <1>1. m \in Nat /\ EndOfFile \in Nat
    BY TokenThere
  <1>2. cut \in [0 .. m -> Nat] /\ p \in Nat /\ cut[m] \in Nat
    BY <1>1
  <1>3. \A n \in 1 .. m : cut[n - 1] < cut[n] /\ Is(parts[n], cut[n - 1], cut[n])
    <2> TAKE n \in 1 .. m
    <2>1. os[n] \in OperandNames /\ cut[n - 1] \in 1 .. EndOfFile /\ cut[n] \in 1 .. EndOfFile
      BY <1>1, SMTT(20)
    <2>2. Taken(os[n], cut[n - 1], cut[n]) /\ There(os[n], cut[n - 1])
      OBVIOUS
    <2>3. Taking(os[n], cut[n - 1]).pos = cut[n] /\ ~Taking(os[n], cut[n - 1]).err
      BY <2>2 DEF Taken
    <2> QED
      BY <2>1, <2>2, <2>3, TakingOn
  <1> HIDE DEF m
  <1> QED
    BY <1>1, <1>2, <1>3, PartsInARow DEF m

LEMMA SidesOf ==
  /\ Sides("BREAK") = {<<>>}
  /\ Sides("CLS") = {<<>>}
  /\ Sides("END") = {<<>>}
  /\ Sides("FILES") = {<<>>}
  /\ Sides("RETURN") = {<<>>}
  /\ Sides("ALERT") = {<<"string">>}
  /\ Sides("DELETE") = {<<"string">>}
  /\ Sides("SIZE") = {<<"string">>}
  /\ Sides("INK") = {<<"numeric">>}
  /\ Sides("PAUSE") = {<<"numeric">>}
  /\ Sides("GOSUB") = {<<"LABEL">>}
  /\ Sides("GOTO") = {<<"LABEL">>}
  /\ Sides("CALL") = {<<"expr">>}
  /\ Sides("INPUT") = {<<"NUMERIC">>, <<"STRING">>}
  /\ Sides("ASKFILE") = {<<"STRING">>}
  /\ Sides("CURSCHAR") = {<<"NUMERIC">>}
  /\ Sides("CURSCOL") = {<<"NUMERIC">>}
  /\ Sides("GETKEY") = {<<"NUMERIC">>}
  /\ Sides("WAITKEY") = {<<"NUMERIC">>}
  /\ Sides("CURSOR") = {<<"OFF">>, <<"ON">>}
  /\ Sides("CURSPOS") = {<<"NUMERIC", "NUMERIC">>}
  /\ Sides("CASE") = {<<m, "STRING">> : m \in {"LOWER", "UPPER"}}
  /\ Sides("LEN") = {<<"string", "NUMERIC">>}
  /\ Sides("LOAD") = {<<"string", "numeric">>}
  /\ Sides("RENAME") = {<<"string", "string">>}
  /\ Sides("MOVE") = {<<"numeric", "numeric">>}
  /\ Sides("PAGE") = {<<"numeric", "numeric">>}
  /\ Sides("POKE") = {<<"numeric", "numeric">>}
  /\ Sides("POKEINT") = {<<"numeric", "numeric">>}
  /\ Sides("SOUND") = {<<"numeric", "numeric">>}
  /\ Sides("PEEK") = {<<"NUMERIC", "numeric">>}
  /\ Sides("PEEKINT") = {<<"NUMERIC", "numeric">>}
  /\ Sides("RAND") = {<<"NUMERIC", "numeric", "numeric">>}
  /\ Sides("SAVE") = {<<"string", "numeric", "numeric">>}
  /\ Sides("LISTBOX") = {<<"string", "string", "string", "NUMERIC">>}
  /\ Sides("STRING") = {<<m, "STRING", "numeric", "NUMERIC">> : m \in {"GET", "SET"}}
  /\ Sides("NUMBER") = {<<"STRING", "NUMERIC">>, <<"NUMERIC", "STRING">>}
  /\ Sides("PORT") = {<<"IN", "numeric", "NUMERIC">>, <<"OUT", "numeric", "numeric">>}
  /\ Sides("SERIAL") = {<<"ON", "numeric">>, <<"SEND", "numeric">>, <<"REC", "NUMERIC">>}
  BY DEF Sides

\* Every statement that the code takes has operands of the grammar's rule.
LEMMA OperandsOfTheRule ==
  ASSUME Source, NEW k \in Statements \ {"READ", "PRINT"}, NEW p \in 1 .. EndOfFile,
         NEW os, os = Rule(k, Token(p)),
         NEW cut \in [0 .. Len(os) -> 1 .. EndOfFile], cut[0] = p,
         \A n \in 1 .. Len(os) : Taken(os[n], cut[n - 1], cut[n])
  PROVE  \E parts \in Sides(k) : AreParts(parts, p, cut[Len(os)])
  <1> DEFINE t     == Token(p)
             parts == [n \in 1 .. Len(os) |-> Part(os[n], Token(cut[n - 1]))]
  <1>1. os \in Seq(OperandNames \ DOMAIN Optional) /\ os \in Seq(OperandNames) /\ Len(os) \in Nat
    BY RuleNames
  <1>2. SUFFICES parts \in Sides(k)
    <2>1. \A n \in 1 .. Len(os) : There(os[n], cut[n - 1])
      BY <1>1 DEF There
    <2>2. Len(parts) = Len(os) /\ \A n \in 1 .. Len(os) : parts[n] = Part(os[n], Token(cut[n - 1]))
      BY <1>1
    <2> HIDE DEF parts
    <2>3. AreParts(parts, p, cut[Len(os)])
      BY <1>1, <2>1, <2>2, PartsOfOperands
    <2> QED
      BY <1>2, <2>3
  <1>3. ASSUME Len(os) > 0, os[1] \in DOMAIN Given
        PROVE  t \in Given[os[1]]
    <2>1. os[1] \in OperandNames /\ Taken(os[1], cut[1 - 1], cut[1]) /\ cut[1 - 1] = p
      BY <1>1, <1>3
    <2>2. Taking(os[1], p).err = FALSE
      BY <2>1, TakingOn DEF Taken
    <2> QED
      BY <1>3, <2>1, <2>2, TakingOn
  <1>4. cut[1 - 1] = p
    OBVIOUS
  <1>5. CASE k \in {"BREAK", "CLS", "END", "FILES", "RETURN"}
    <2>1. os = <<>>
      BY <1>5 DEF Rule
    <2>2. parts = <<>>
      BY <2>1
    <2> QED
      BY <1>5, <2>2, SidesOf
  <1>6. CASE k \in {"ALERT", "DELETE", "SIZE"}
    <2>1. os = <<"string">>
      BY <1>6 DEF Rule
    <2>2. parts = <<"string">>
      BY <2>1 DEF Part
    <2> HIDE DEF parts
    <2> QED
      BY <1>6, <2>2, SidesOf
  <1>7. CASE k \in {"INK", "PAUSE"}
    <2>1. os = <<"numeric">>
      BY <1>7 DEF Rule
    <2>2. parts = <<"numeric">>
      BY <2>1 DEF Part
    <2> HIDE DEF parts
    <2> QED
      BY <1>7, <2>2, SidesOf
  <1>8. CASE k \in {"GOSUB", "GOTO"}
    <2>1. os = <<"label">>
      BY <1>8 DEF Rule
    <2>2. parts = <<"LABEL">>
      BY <2>1 DEF Part
    <2> HIDE DEF parts
    <2> QED
      BY <1>8, <2>2, SidesOf
  <1>9. CASE k = "CALL"
    <2>1. os = <<"expr">>
      BY <1>9 DEF Rule
    <2>2. parts = <<"expr">>
      BY <2>1 DEF Part
    <2> HIDE DEF parts
    <2> QED
      BY <1>9, <2>2, SidesOf
  <1>10. CASE k = "INPUT"
    <2>1. os = <<"variable">>
      BY <1>10 DEF Rule
    <2>2. parts = <<IF t \in NumericVariables THEN "NUMERIC" ELSE "STRING">>
      BY <1>4, <2>1 DEF Part
    <2> HIDE DEF parts
    <2> QED
      BY <1>10, <2>2, SidesOf
  <1>11. CASE k = "ASKFILE"
    <2>1. os = <<"stringVariable">>
      BY <1>11 DEF Rule
    <2>2. parts = <<"STRING">>
      BY <2>1 DEF Part
    <2> HIDE DEF parts
    <2> QED
      BY <1>11, <2>2, SidesOf
  <1>12. CASE k \in {"CURSCHAR", "CURSCOL", "GETKEY", "WAITKEY"}
    <2>1. os = <<"numericVariable">>
      BY <1>12 DEF Rule
    <2>2. parts = <<"NUMERIC">>
      BY <2>1 DEF Part
    <2> HIDE DEF parts
    <2> QED
      BY <1>12, <2>2, SidesOf
  <1>13. CASE k = "CURSOR"
    <2>1. os = <<"onOrOff">>
      BY <1>13 DEF Rule
    <2>2. parts = <<t>>
      BY <1>4, <2>1 DEF Part
    <2>3. os[1] = "onOrOff" /\ Len(os) > 0
      BY <2>1
    <2>4. t \in Given["onOrOff"]
      BY <1>3, <2>3, GivenSets
    <2>5. t \in {"ON", "OFF"}
      BY <2>4, GivenSets
    <2> HIDE DEF parts
    <2> QED
      BY <1>13, <2>2, <2>5, SidesOf
  <1>14. CASE k = "CURSPOS"
    <2>1. os = <<"numericVariable", "numericVariable">>
      BY <1>14 DEF Rule
    <2>2. parts = <<"NUMERIC", "NUMERIC">>
      BY <2>1 DEF Part
    <2> HIDE DEF parts
    <2> QED
      BY <1>14, <2>2, SidesOf
  <1>15. CASE k = "CASE"
    <2>1. os = <<"lowerOrUpper", "stringVariable">>
      BY <1>15 DEF Rule
    <2>2. parts = <<t, "STRING">>
      BY <1>4, <2>1 DEF Part
    <2>3. os[1] = "lowerOrUpper" /\ Len(os) > 0
      BY <2>1
    <2>4. t \in Given["lowerOrUpper"]
      BY <1>3, <2>3, GivenSets
    <2>5. t \in {"LOWER", "UPPER"}
      BY <2>4, GivenSets
    <2> HIDE DEF parts
    <2> QED
      BY <1>15, <2>2, <2>5, SidesOf
  <1>16. CASE k = "LEN"
    <2>1. os = <<"string", "numericVariable">>
      BY <1>16 DEF Rule
    <2>2. parts = <<"string", "NUMERIC">>
      BY <2>1 DEF Part
    <2> HIDE DEF parts
    <2> QED
      BY <1>16, <2>2, SidesOf
  <1>17. CASE k = "LOAD"
    <2>1. os = <<"string", "numeric">>
      BY <1>17 DEF Rule
    <2>2. parts = <<"string", "numeric">>
      BY <2>1 DEF Part
    <2> HIDE DEF parts
    <2> QED
      BY <1>17, <2>2, SidesOf
  <1>18. CASE k = "RENAME"
    <2>1. os = <<"string", "string">>
      BY <1>18 DEF Rule
    <2>2. parts = <<"string", "string">>
      BY <2>1 DEF Part
    <2> HIDE DEF parts
    <2> QED
      BY <1>18, <2>2, SidesOf
  <1>19. CASE k \in {"MOVE", "PAGE", "POKE", "POKEINT", "SOUND"}
    <2>1. os = <<"numeric", "numeric">>
      BY <1>19 DEF Rule
    <2>2. parts = <<"numeric", "numeric">>
      BY <2>1 DEF Part
    <2> HIDE DEF parts
    <2> QED
      BY <1>19, <2>2, SidesOf
  <1>20. CASE k \in {"PEEK", "PEEKINT"}
    <2>1. os = <<"numericVariable", "numeric">>
      BY <1>20 DEF Rule
    <2>2. parts = <<"NUMERIC", "numeric">>
      BY <2>1 DEF Part
    <2> HIDE DEF parts
    <2> QED
      BY <1>20, <2>2, SidesOf
  <1>21. CASE k = "RAND"
    <2>1. os = <<"numericVariable", "numeric", "numeric">>
      BY <1>21 DEF Rule
    <2>2. parts = <<"NUMERIC", "numeric", "numeric">>
      BY <2>1 DEF Part
    <2> HIDE DEF parts
    <2> QED
      BY <1>21, <2>2, SidesOf
  <1>22. CASE k = "SAVE"
    <2>1. os = <<"string", "numeric", "numeric">>
      BY <1>22 DEF Rule
    <2>2. parts = <<"string", "numeric", "numeric">>
      BY <2>1 DEF Part
    <2> HIDE DEF parts
    <2> QED
      BY <1>22, <2>2, SidesOf
  <1>23. CASE k = "LISTBOX"
    <2>1. os = <<"string", "string", "string", "numericVariable">>
      BY <1>23 DEF Rule
    <2>2. parts = <<"string", "string", "string", "NUMERIC">>
      BY <2>1 DEF Part
    <2> HIDE DEF parts
    <2> QED
      BY <1>23, <2>2, SidesOf
  <1>24. CASE k = "STRING"
    <2>1. os = <<"getOrSet", "stringVariable", "numeric", "numericVariable">>
      BY <1>24 DEF Rule, StringOperands
    <2>2. parts = <<t, "STRING", "numeric", "NUMERIC">>
      BY <1>4, <2>1 DEF Part
    <2>3. os[1] = "getOrSet" /\ Len(os) > 0
      BY <2>1
    <2>4. t \in Given["getOrSet"]
      BY <1>3, <2>3, GivenSets
    <2>5. t \in {"GET", "SET"}
      BY <2>4, GivenSets
    <2> HIDE DEF parts
    <2> QED
      BY <1>24, <2>2, <2>5, SidesOf
  <1>25. CASE k = "NUMBER" /\ t \in StringVariables
    <2>1. os = <<"stringVariable", "numericVariable">>
      BY <1>25 DEF Rule, NumberOperands
    <2>2. parts = <<"STRING", "NUMERIC">>
      BY <2>1 DEF Part
    <2> HIDE DEF parts
    <2> QED
      BY <1>25, <2>2, SidesOf
  <1>26. CASE k = "NUMBER" /\ t \notin StringVariables
    <2>1. os = <<"numericVariable", "stringVariable">>
      BY <1>26 DEF Rule, NumberOperands
    <2>2. parts = <<"NUMERIC", "STRING">>
      BY <2>1 DEF Part
    <2> HIDE DEF parts
    <2> QED
      BY <1>26, <2>2, SidesOf
  <1>27. CASE k = "PORT" /\ t = "OUT"
    <2>1. os = <<"out", "numeric", "numeric">>
      BY <1>27 DEF Rule, PortOperands
    <2>2. parts = <<t, "numeric", "numeric">>
      BY <1>4, <2>1 DEF Part
    <2>3. os[1] = "out" /\ Len(os) > 0
      BY <2>1
    <2>4. t \in Given["out"]
      BY <1>3, <2>3, GivenSets
    <2>5. t \in {"OUT"}
      BY <2>4, GivenSets
    <2> HIDE DEF parts
    <2> QED
      BY <1>27, <2>2, <2>5, SidesOf
  <1>28. CASE k = "PORT" /\ t # "OUT"
    <2>1. os = <<"in", "numeric", "numericVariable">>
      BY <1>28 DEF Rule, PortOperands
    <2>2. parts = <<t, "numeric", "NUMERIC">>
      BY <1>4, <2>1 DEF Part
    <2>3. os[1] = "in" /\ Len(os) > 0
      BY <2>1
    <2>4. t \in Given["in"]
      BY <1>3, <2>3, GivenSets
    <2>5. t \in {"IN"}
      BY <2>4, GivenSets
    <2> HIDE DEF parts
    <2> QED
      BY <1>28, <2>2, <2>5, SidesOf
  <1>29. CASE k = "SERIAL" /\ t = "REC"
    <2>1. os = <<"rec", "numericVariable">>
      BY <1>29 DEF Rule, SerialOperands
    <2>2. parts = <<t, "NUMERIC">>
      BY <1>4, <2>1 DEF Part
    <2>3. os[1] = "rec" /\ Len(os) > 0
      BY <2>1
    <2>4. t \in Given["rec"]
      BY <1>3, <2>3, GivenSets
    <2>5. t \in {"REC"}
      BY <2>4, GivenSets
    <2> HIDE DEF parts
    <2> QED
      BY <1>29, <2>2, <2>5, SidesOf
  <1>30. CASE k = "SERIAL" /\ t # "REC"
    <2>1. os = <<"onOrSend", "numeric">>
      BY <1>30 DEF Rule, SerialOperands
    <2>2. parts = <<t, "numeric">>
      BY <1>4, <2>1 DEF Part
    <2>3. os[1] = "onOrSend" /\ Len(os) > 0
      BY <2>1
    <2>4. t \in Given["onOrSend"]
      BY <1>3, <2>3, GivenSets
    <2>5. t \in {"ON", "SEND"}
      BY <2>4, GivenSets
    <2> HIDE DEF parts
    <2> QED
      BY <1>30, <2>2, <2>5, SidesOf
  <1> QED
    BY <1>5, <1>6, <1>7, <1>8, <1>9, <1>10, <1>11, <1>12, <1>13, <1>14, <1>15, <1>16, <1>17, <1>18, <1>19, <1>20, <1>21, <1>22, <1>23, <1>24, <1>25, <1>26, <1>27, <1>28, <1>29, <1>30 DEF Statements

\* PRINT with and without its two optional tokens.
LEMMA PrintSides ==
  /\ <<"expr">> \in Sides("PRINT")
  /\ \A t \in {"CHR", "HEX"} : <<t, "expr">> \in Sides("PRINT") /\ <<t, "expr", ";">> \in Sides("PRINT")
  /\ <<"expr", ";">> \in Sides("PRINT")
  BY DEF Sides

LEMMA OperandsOfPrint ==
  ASSUME Source, NEW p \in 1 .. EndOfFile,
         NEW cut \in [0 .. 3 -> 1 .. EndOfFile], cut[0] = p,
         \A n \in 1 .. 3 : Taken(PrintOperands[n], cut[n - 1], cut[n])
  PROVE  \E parts \in Sides("PRINT") : AreParts(parts, p, cut[3])
  <1>1. /\ PrintOperands[1] = "chrOrHex" /\ PrintOperands[2] = "expr" /\ PrintOperands[3] = "semicolon"
        /\ "chrOrHex" \in OperandNames /\ "expr" \in OperandNames /\ "semicolon" \in OperandNames
    BY DEF PrintOperands, OperandNames
  <1> DEFINE a == cut[1]
             b == cut[2]
             c == cut[3]
             t == Token(p)
  <1>2. /\ Taken("chrOrHex", p, a) /\ Taken("expr", a, b) /\ Taken("semicolon", b, c)
        /\ a \in 1 .. EndOfFile /\ b \in 1 .. EndOfFile /\ c \in 1 .. EndOfFile
    <2>1. Taken(PrintOperands[1], cut[1 - 1], cut[1])
      OBVIOUS
    <2>2. Taken(PrintOperands[2], cut[2 - 1], cut[2])
      OBVIOUS
    <2>3. Taken(PrintOperands[3], cut[3 - 1], cut[3])
      OBVIOUS
    <2>4. 1 - 1 = 0 /\ 2 - 1 = 1 /\ 3 - 1 = 2
      OBVIOUS
    <2> QED
      BY <1>1, <2>1, <2>2, <2>3, <2>4
  <1> HIDE DEF a, b, c
  <1>3. /\ There("chrOrHex", p) => t \in {"CHR", "HEX"} /\ p < a /\ Is(t, p, a)
        /\ ~There("chrOrHex", p) => a = p
    BY <1>1, <1>2, TakingOn, GivenSets DEF Taken, There, Part
  <1>4. a < b /\ Is("expr", a, b)
    BY <1>1, <1>2, TakingOn, GivenSets DEF Taken, There, Part
  <1>5. /\ There("semicolon", b) => b < c /\ Is(";", b, c)
        /\ ~There("semicolon", b) => c = b
    <2>1. /\ There("semicolon", b) => b < c /\ Is(Part("semicolon", Token(b)), b, c)
          /\ ~There("semicolon", b) => c = b
      BY <1>1, <1>2, TakingOn DEF Taken
    <2>2. Part("semicolon", Token(b)) = Token(b) /\ (There("semicolon", b) => Token(b) = ";")
      BY GivenSets DEF Part, There
    <2> QED
      BY <2>1, <2>2
  <1>6. p \in Nat /\ a \in Nat /\ b \in Nat /\ c \in Nat
    BY <1>2, TokenThere
  <1>7. AreParts(<<"expr">>, a, b)
    <2> DEFINE new == [n \in 0 .. 1 |-> IF n = 0 THEN a ELSE b]
    <2>1. new \in [0 .. 1 -> Nat] /\ new[0] = a /\ new[1] = b
      BY <1>6
    <2>2. \A n \in 1 .. 1 : n = 1 /\ n - 1 = 0 /\ <<"expr">>[n] = "expr"
      OBVIOUS
    <2> HIDE DEF new
    <2>3. \A n \in 1 .. 1 : new[n - 1] < new[n] /\ Is(<<"expr">>[n], new[n - 1], new[n])
      BY <1>4, <2>1, <2>2
    <2> QED
      BY <1>6, <2>1, <2>3, PartsInARow
  <1>8. ASSUME There("chrOrHex", p) PROVE AreParts(<<t, "expr">>, p, b)
    <2> DEFINE new   == [n \in 0 .. 2 |-> IF n = 0 THEN p ELSE IF n = 1 THEN a ELSE b]
               parts == <<t, "expr">>
    <2>1. new \in [0 .. 2 -> Nat] /\ new[0] = p /\ new[1] = a /\ new[2] = b
      BY <1>6
    <2>2. Len(parts) = 2 /\ parts[1] = t /\ parts[2] = "expr"
      OBVIOUS
    <2>3. \A n \in 1 .. 2 : (n = 1 /\ n - 1 = 0) \/ (n = 2 /\ n - 1 = 1)
      OBVIOUS
    <2> HIDE DEF new, parts, t
    <2>4. \A n \in 1 .. 2 : new[n - 1] < new[n] /\ Is(parts[n], new[n - 1], new[n])
      BY <1>3, <1>4, <1>8, <2>1, <2>2, <2>3
    <2>5. AreParts(parts, p, b)
      BY <1>6, <2>1, <2>2, <2>4, PartsInARow
    <2> QED
      BY <2>5 DEF parts
  <1>9. ASSUME There("semicolon", b) PROVE AreParts(<<"expr", ";">>, a, c)
    <2> DEFINE new   == [n \in 0 .. 2 |-> IF n = 0 THEN a ELSE IF n = 1 THEN b ELSE c]
               parts == <<"expr", ";">>
    <2>1. new \in [0 .. 2 -> Nat] /\ new[0] = a /\ new[1] = b /\ new[2] = c
      BY <1>6
    <2>2. Len(parts) = 2 /\ parts[1] = "expr" /\ parts[2] = ";"
      OBVIOUS
    <2>3. \A n \in 1 .. 2 : (n = 1 /\ n - 1 = 0) \/ (n = 2 /\ n - 1 = 1)
      OBVIOUS
    <2> HIDE DEF new, parts
    <2>4. \A n \in 1 .. 2 : new[n - 1] < new[n] /\ Is(parts[n], new[n - 1], new[n])
      BY <1>4, <1>5, <1>9, <2>1, <2>2, <2>3
    <2>5. AreParts(parts, a, c)
      BY <1>6, <2>1, <2>2, <2>4, PartsInARow
    <2> QED
      BY <2>5 DEF parts
  <1>10. ASSUME There("chrOrHex", p), There("semicolon", b) PROVE AreParts(<<t, "expr", ";">>, p, c)
    <2> DEFINE new   == [n \in 0 .. 3 |-> IF n = 0 THEN p ELSE IF n = 1 THEN a ELSE IF n = 2 THEN b ELSE c]
               parts == <<t, "expr", ";">>
    <2>1. new \in [0 .. 3 -> Nat] /\ new[0] = p /\ new[1] = a /\ new[2] = b /\ new[3] = c
      BY <1>6
    <2>2. Len(parts) = 3 /\ parts[1] = t /\ parts[2] = "expr" /\ parts[3] = ";"
      OBVIOUS
    <2>3. \A n \in 1 .. 3 : (n = 1 /\ n - 1 = 0) \/ (n = 2 /\ n - 1 = 1) \/ (n = 3 /\ n - 1 = 2)
      OBVIOUS
    <2> HIDE DEF new, parts, t
    <2>4. \A n \in 1 .. 3 : new[n - 1] < new[n] /\ Is(parts[n], new[n - 1], new[n])
      BY <1>3, <1>4, <1>5, <1>10, <2>1, <2>2, <2>3
    <2>5. AreParts(parts, p, c)
      BY <1>6, <2>1, <2>2, <2>4, PartsInARow
    <2> QED
      BY <2>5 DEF parts
  <1> QED
    BY <1>3, <1>5, <1>7, <1>8, <1>9, <1>10, PrintSides DEF c

-----------------------------------------------------------------------------
(***************************************************************************)
(* Keyword statements.                                                     *)
(***************************************************************************)
LEMMA StatementsThere == Statements \subseteq Keywords /\ Keywords \subseteq Tokens /\ "INCLUDE" \in Keywords
  BY DEF Keywords, Tokens

LEMMA KeywordOn ==
  ASSUME Source, NEW p \in 1 .. EndOfFile
  PROVE  /\ Onward(p, Keyword(p))
         /\ ~Keyword(p).err => /\ p \in 1 .. Len(tokens) /\ Keyword(p).pos > p
                               /\ \E parts \in Sides(tokens[p]) : AreParts(parts, p + 1, Keyword(p).pos)
  <1> DEFINE k  == Token(p)
             os == Rule(k, Token(p + 1))
             r  == Operands(os, p + 1)
  <1>1. CASE k \notin Statements
    <2>1. Keyword(p) = Failed(p)
      BY <1>1 DEF Keyword
    <2> QED
      BY <2>1, FailedOn
  <1>2. CASE k \in Statements
    <2>1. k # "EOF"
      BY <1>2, NoEof, StatementsThere
    <2>2. p \in 1 .. Len(tokens) /\ p + 1 \in 1 .. EndOfFile /\ k = tokens[p] /\ EndOfFile \in Nat /\ p \in Nat
      BY <2>1, TokenThere
    <2>3. os \in Seq(OperandNames)
      BY <1>2, RuleNames
    <2> HIDE DEF os, k
    <2>4. /\ r.pos \in p + 1 .. EndOfFile /\ r.err \in BOOLEAN /\ r.lost \in BOOLEAN
          /\ ~r.err => \E cut \in [0 .. Len(os) -> 1 .. EndOfFile] :
                          /\ cut[0] = p + 1 /\ cut[Len(os)] = r.pos
                          /\ \A n \in 1 .. Len(os) : Taken(os[n], cut[n - 1], cut[n])
      BY <2>2, <2>3, OperandsOn
    <2> HIDE DEF r
    <2>5. /\ Keyword(p).pos = r.pos
          /\ Keyword(p).err \in BOOLEAN
          /\ ~Keyword(p).err => ~r.err /\ k # "READ"
      <3>1. CASE r.lost \/ k = "READ"
        <4>1. Keyword(p) = Result(r.pos, NULL, TRUE)
          BY <1>2, <3>1 DEF Keyword, r, os, k
        <4> QED
          BY <4>1 DEF Result
      <3>2. CASE ~(r.lost \/ k = "READ")
        <4>1. Keyword(p) = Result(r.pos, Node(Token(p), Nested(r.node)), r.err)
          BY <1>2, <3>2 DEF Keyword, r, os, k
        <4> QED
          BY <2>4, <3>2, <4>1 DEF Result
      <3> QED
        BY <3>1, <3>2
    <2>6. Onward(p, Keyword(p)) /\ Keyword(p).pos > p
      BY <2>2, <2>4, <2>5 DEF Onward
    <2>7. ASSUME ~Keyword(p).err
          PROVE  \E parts \in Sides(tokens[p]) : AreParts(parts, p + 1, Keyword(p).pos)
      <3>1. PICK cut \in [0 .. Len(os) -> 1 .. EndOfFile] :
               /\ cut[0] = p + 1 /\ cut[Len(os)] = r.pos
               /\ \A n \in 1 .. Len(os) : Taken(os[n], cut[n - 1], cut[n])
        BY <2>4, <2>5, <2>7
      <3>2. CASE k = "PRINT"
        <4>1. os = PrintOperands
          BY <3>2 DEF os, Rule
        <4>2. Len(os) = 3
          BY <4>1 DEF PrintOperands
        <4>3. cut \in [0 .. 3 -> 1 .. EndOfFile] /\ \A n \in 1 .. 3 : Taken(PrintOperands[n], cut[n - 1], cut[n])
          BY <3>1, <4>1, <4>2
        <4>4. \E parts \in Sides("PRINT") : AreParts(parts, p + 1, cut[3])
          BY <2>2, <3>1, <4>3, OperandsOfPrint
        <4> QED
          BY <2>2, <2>5, <3>1, <3>2, <4>2, <4>4
      <3>3. CASE k # "PRINT"
        <4>1. k \in Statements \ {"READ", "PRINT"} /\ os = Rule(k, Token(p + 1))
          BY <1>2, <2>5, <2>7, <3>3 DEF os
        <4>2. \E parts \in Sides(k) : AreParts(parts, p + 1, cut[Len(os)])
          BY <2>2, <3>1, <4>1, OperandsOfTheRule
        <4> QED
          BY <2>2, <2>5, <3>1, <4>2
      <3> QED
        BY <3>2, <3>3
    <2> QED
      BY <2>2, <2>6, <2>7
  <1> QED
    BY <1>1, <1>2

\* do_include takes pairs of tokens.
LEMMA PastIncludesOn ==
  ASSUME Source, NEW p \in 1 .. EndOfFile
  PROVE  /\ PastIncludes(p) \in p .. EndOfFile
         /\ Token(PastIncludes(p)) # "EOF" => (PastIncludes(p) - p) % 2 = 0
         /\ \A h \in p .. PastIncludes(p) - 1 : (h - p) % 2 = 0 => tokens[h] = "INCLUDE"
  <1> DEFINE In(q) == (q - p) % 2 = 0 /\ Token(q) # "INCLUDE"
             S == {q \in p .. Len(tokens) : In(q)} \cup {Len(tokens) + 1}
             k == PastIncludes(p)
  <1>1. /\ Len(tokens) \in Nat /\ p \in Nat \ {0} /\ EndOfFile = Len(tokens) + 1
        /\ \A h \in p .. Len(tokens) : Token(h) = tokens[h]
    BY TokenThere DEF Token
  <1>2. S \in SUBSET Nat /\ S # {} /\ \A q \in S : q \in p .. EndOfFile
    <2> HIDE DEF In
    <2> QED
      BY <1>1
  <1>3. k = Min(S)
    BY DEF PastIncludes
  <1>4. k \in S /\ \A q \in S : k <= q
    <2> HIDE DEF S, k
    <2> QED
      BY <1>2, <1>3, MinIsLeast
  <1>5. k \in p .. EndOfFile
    <2> HIDE DEF S, k
    <2> QED
      BY <1>2, <1>4
  <1>6. Token(k) # "EOF" => (k - p) % 2 = 0
    <2>1. Token(Len(tokens) + 1) = "EOF"
      BY <1>1 DEF Token
    <2>2. k = Len(tokens) + 1 \/ In(k)
      <3> HIDE DEF In, k
      <3> QED
        BY <1>4
    <2> QED
      BY <2>1, <2>2
  <1>7. \A h \in p .. k - 1 : (h - p) % 2 = 0 => tokens[h] = "INCLUDE"
    <2> SUFFICES ASSUME NEW h \in p .. k - 1, (h - p) % 2 = 0, tokens[h] # "INCLUDE" PROVE FALSE
      OBVIOUS
    <2> HIDE DEF k
    <2>1. h \in p .. Len(tokens) /\ ~ (k <= h)
      BY <1>1, <1>5
    <2>2. In(h)
      BY <1>1, <2>1
    <2>3. h \in S
      <3> HIDE DEF In
      <3> QED
        BY <2>1, <2>2
    <2> HIDE DEF S
    <2> QED
      BY <1>4, <2>1, <2>3
  <1> QED
    BY <1>5, <1>6, <1>7

LEMMA KeywordStatement ==
  ASSUME Source, NEW i \in 1 .. EndOfFile, NEW k, k = PastIncludes(i), ~Keyword(k).err
  PROVE  CodeKeywordStatement(i, Keyword(k).pos) /\ Keyword(k).pos \in i + 1 .. EndOfFile
  <1>1. /\ k \in i .. EndOfFile /\ EndOfFile \in Nat
        /\ Token(k) # "EOF" => (k - i) % 2 = 0
        /\ \A h \in i .. k - 1 : (h - i) % 2 = 0 => tokens[h] = "INCLUDE"
    BY PastIncludesOn, TokenThere
  <1>2. k \in 1 .. EndOfFile
    BY <1>1
  <1>3. /\ k \in 1 .. Len(tokens) /\ Keyword(k).pos > k /\ Keyword(k).pos \in k .. EndOfFile
        /\ \E parts \in Sides(tokens[k]) : AreParts(parts, k + 1, Keyword(k).pos)
    BY <1>2, KeywordOn DEF Onward
  <1>4. Token(k) # "EOF"
    BY <1>3, NoEof DEF Token, Source
  <1>5. k \in i .. Keyword(k).pos - 1 /\ Keyword(k).pos \in i + 1 .. EndOfFile
    BY <1>1, <1>3
  <1> QED
    BY <1>1, <1>3, <1>4, <1>5 DEF CodeKeywordStatement

-----------------------------------------------------------------------------
(***************************************************************************)
(* Every step keeps the types and leaves less to do.                       *)
(***************************************************************************)
Fn == {"label", "then", "else", "do", "for"}

\* A caller of statement(), and the callers as a stack of such.
FrameTyped(f) ==
    /\ f = [fn |-> f.fn, kids |-> f.kids] /\ f.fn \in Fn
    /\ f.fn = "label" => f.kids[1].op \in LabelNames

Stack(s) ==
    /\ \E S : s \in Seq(S)
    /\ \A i \in DOMAIN s : FrameTyped(s[i])

Labels(s) ==
    /\ \E S : s \in Seq(S)
    /\ \A k \in DOMAIN s : s[k].label \in LabelNames

TypeInv ==
    /\ Source
    /\ pos \in 1 .. EndOfFile
    /\ mode \in Modes
    /\ hadError \in BOOLEAN
    /\ Stack(calls)
    /\ Labels(labels)
    /\ mode = "body" => calls # <<>> /\ Head(calls).fn \in {"do", "for"}

LEMMA StackOf ==
  ASSUME NEW s, Stack(s)
  PROVE  /\ Len(s) \in Nat
         /\ s # <<>> => /\ Len(s) >= 1 /\ Head(s) = s[1] /\ FrameTyped(s[1])
                        /\ Stack(Tail(s)) /\ Len(Tail(s)) = Len(s) - 1
                        /\ \A i \in 1 .. Len(s) - 1 : Tail(s)[i] = s[i + 1]
         /\ s = <<>> => Len(s) = 0
  <1>1. PICK S : s \in Seq(S)
    BY DEF Stack
  <1>2. \A i \in 1 .. Len(s) : FrameTyped(s[i])
    BY <1>1 DEF Stack
  <1>3. Len(s) \in Nat
    BY <1>1
  <1>4. ASSUME s # <<>>
        PROVE  /\ Len(s) >= 1 /\ Head(s) = s[1] /\ Tail(s) \in Seq(S) /\ Len(Tail(s)) = Len(s) - 1
               /\ \A i \in 1 .. Len(s) - 1 : Tail(s)[i] = s[i + 1]
               /\ DOMAIN Tail(s) = 1 .. Len(s) - 1
    BY <1>1, <1>4
  <1>5. ASSUME s # <<>> PROVE Stack(Tail(s))
    <2>1. \A i \in DOMAIN Tail(s) : FrameTyped(Tail(s)[i])
      BY <1>2, <1>3, <1>4, <1>5
    <2> QED
      BY <1>4, <1>5, <2>1 DEF Stack
  <1> QED
    BY <1>2, <1>3, <1>4, <1>5

LEMMA Pushed ==
  ASSUME NEW s, Stack(s), NEW f, FrameTyped(f)
  PROVE  /\ Stack(<<f>> \o s) /\ Len(<<f>> \o s) = Len(s) + 1 /\ <<f>> \o s # <<>>
         /\ (<<f>> \o s)[1] = f /\ Head(<<f>> \o s) = f
         /\ \A i \in 1 .. Len(s) : (<<f>> \o s)[i + 1] = s[i]
  <1>1. PICK S : s \in Seq(S)
    BY DEF Stack
  <1>2. s \in Seq(S \cup {f}) /\ <<f>> \in Seq(S \cup {f}) /\ Len(<<f>>) = 1 /\ <<f>>[1] = f
    BY <1>1
  <1> DEFINE t == <<f>> \o s
  <1>3. /\ t \in Seq(S \cup {f}) /\ Len(t) = 1 + Len(s)
        /\ \A i \in 1 .. 1 + Len(s) : t[i] = IF i <= 1 THEN <<f>>[i] ELSE s[i - 1]
    BY <1>2, ConcatProperties
  <1>4. Len(s) \in Nat /\ \A i \in 1 .. Len(s) : FrameTyped(s[i])
    BY <1>1 DEF Stack
  <1> HIDE DEF t
  <1>5. t[1] = f /\ \A i \in 1 .. Len(s) : t[i + 1] = s[i]
    BY <1>2, <1>3, <1>4
  <1>6. \A i \in 1 .. Len(s) + 1 : FrameTyped(t[i])
    <2> TAKE i \in 1 .. Len(s) + 1
    <2>1. CASE i = 1
      BY <1>5, <2>1
    <2>2. CASE i # 1
      <3>1. i - 1 \in 1 .. Len(s) /\ i = (i - 1) + 1
        BY <1>4, <2>2
      <3>2. t[i] = s[i - 1]
        BY <1>5, <3>1
      <3> QED
        BY <1>4, <3>1, <3>2
    <2> QED
      BY <2>1, <2>2
  <1>7. DOMAIN t = 1 .. Len(s) + 1 /\ t # <<>> /\ Head(t) = t[1]
    BY <1>3, <1>4
  <1>8. Stack(t)
    BY <1>3, <1>6, <1>7 DEF Stack
  <1> QED
    BY <1>3, <1>4, <1>5, <1>7, <1>8 DEF t

LEMMA Replaced ==
  ASSUME NEW s, Stack(s), s # <<>>, NEW f, FrameTyped(f)
  PROVE  /\ Stack(<<f>> \o Tail(s)) /\ Len(<<f>> \o Tail(s)) = Len(s) /\ <<f>> \o Tail(s) # <<>>
         /\ (<<f>> \o Tail(s))[1] = f /\ Head(<<f>> \o Tail(s)) = f
         /\ \A i \in 2 .. Len(s) : (<<f>> \o Tail(s))[i] = s[i]
  <1>1. /\ Len(s) \in Nat /\ Len(s) >= 1 /\ Stack(Tail(s)) /\ Len(Tail(s)) = Len(s) - 1
        /\ \A i \in 1 .. Len(s) - 1 : Tail(s)[i] = s[i + 1]
    BY StackOf
  <1> DEFINE r == Tail(s)
             t == <<f>> \o r
  <1> HIDE DEF r, t
  <1>2. /\ Stack(t) /\ Len(t) = Len(r) + 1 /\ t # <<>> /\ t[1] = f /\ Head(t) = f
        /\ \A i \in 1 .. Len(r) : t[i + 1] = r[i]
    BY <1>1, Pushed DEF r, t
  <1>3. \A i \in 2 .. Len(s) : t[i] = s[i]
    <2> TAKE i \in 2 .. Len(s)
    <2>1. i - 1 \in 1 .. Len(s) - 1 /\ (i - 1) + 1 = i
      BY <1>1
    <2> QED
      BY <1>1, <1>2, <2>1 DEF r
  <1> QED
    BY <1>1, <1>2, <1>3 DEF r, t

\* The kids of the innermost frame may grow.
LEMMA Grown ==
  ASSUME NEW s, Stack(s), s # <<>>, s[1].fn \in {"do", "for"}, NEW t,
         NEW kids, t = [s EXCEPT ![1].kids = kids]
  PROVE  /\ Stack(t) /\ Len(t) = Len(s) /\ t # <<>> /\ Head(t) = t[1] /\ t[1].fn = s[1].fn
         /\ t[1].kids = kids
         /\ \A i \in 2 .. Len(s) : t[i] = s[i]
  <1>1. PICK S : s \in Seq(S)
    BY DEF Stack
  <1>2. Len(s) \in Nat /\ Len(s) >= 1 /\ DOMAIN s = 1 .. Len(s) /\ \A i \in 1 .. Len(s) : FrameTyped(s[i])
    BY <1>1 DEF Stack
  <1> DEFINE f == [s[1] EXCEPT !.kids = kids]
  <1>3. f = [fn |-> s[1].fn, kids |-> kids]
    <2>1. FrameTyped(s[1])
      BY <1>2
    <2>2. s[1] = [fn |-> s[1].fn, kids |-> s[1].kids]
      BY <2>1 DEF FrameTyped
    <2> QED
      BY <2>2
  <1>4. FrameTyped(f) /\ f.fn = s[1].fn /\ f.kids = kids
    BY <1>3 DEF FrameTyped, Fn
  <1>5. t = [s EXCEPT ![1] = f]
    OBVIOUS
  <1> HIDE DEF f
  <1>6. t \in Seq(S \cup {f}) /\ Len(t) = Len(s) /\ t[1] = f /\ \A i \in 2 .. Len(s) : t[i] = s[i]
    BY <1>1, <1>2, <1>5
  <1>7. \A i \in 1 .. Len(s) : FrameTyped(t[i])
    BY <1>2, <1>4, <1>6
  <1>8. DOMAIN t = 1 .. Len(s) /\ t # <<>> /\ Head(t) = t[1]
    BY <1>2, <1>6
  <1>9. Stack(t)
    BY <1>6, <1>7, <1>8 DEF Stack
  <1> QED
    BY <1>4, <1>6, <1>8, <1>9

LEMMA Weights ==
  ASSUME NEW m, NEW t
  PROVE  /\ Weight(m, t) \in 0 .. 3
         /\ m = "returned" => Weight(m, t) = 2
         /\ m = "body" => Weight(m, t) = 1
         /\ m = "statement" /\ t = "EOF" => Weight(m, t) = 3
         /\ m = "statement" /\ t # "EOF" => Weight(m, t) = 0
         /\ m \in {"parsed", "crashed"} => Weight(m, t) = 0
  BY DEF Weight

LEMMA Arithmetics ==
  ASSUME NEW n \in Nat, NEW p \in Nat, NEW q \in Nat, NEW a \in Nat, NEW b \in Nat, NEW w \in Nat,
         NEW x \in Nat, 8 * (q - p) > 4 * (b - a) + x - w
  PROVE  8 * (n + 1 - q) + 4 * b + x < 8 * (n + 1 - p) + 4 * a + w
  OBVIOUS

LEMMA Within ==
  ASSUME NEW e \in Nat, NEW p \in 1 .. e, NEW q \in p .. e
  PROVE  q \in 1 .. e /\ q - p >= 0
  OBVIOUS

\* The arithmetic of a step: e tokens consumed, d callers more.
LEMMA LeavesLess ==
  ASSUME TypeInv, tokens' = tokens, pos' \in 1 .. EndOfFile, Len(calls') \in Nat,
         8 * (pos' - pos) > 4 * (Len(calls') - Len(calls))
                            + Weight(mode', Token(pos)') - Weight(mode, Token(pos))
  PROVE  Left' < Left
  <1>1. /\ Len(tokens) \in Nat /\ Len(tokens') = Len(tokens) /\ EndOfFile \in Nat /\ pos \in Nat /\ pos' \in Nat
        /\ Len(calls) \in Nat
    BY TokenThere, StackOf DEF TypeInv
  <1>2. Weight(mode, Token(pos)) \in Nat /\ Weight(mode', Token(pos)') \in Nat
    BY Weights
  <1>3. /\ Left = 8 * (Len(tokens) + 1 - pos) + 4 * Len(calls) + Weight(mode, Token(pos))
        /\ Left' = 8 * (Len(tokens) + 1 - pos') + 4 * Len(calls') + Weight(mode', Token(pos)')
    BY <1>1 DEF Left
  <1> QED
    BY <1>1, <1>2, <1>3, Arithmetics

Lesser == TypeInv' /\ Left' < Left

\* A step that ends a function of statement() at a token before the end.
LEMMA Returns ==
  ASSUME TypeInv, mode = "statement", Token(pos) # "EOF", tokens' = tokens,
         NEW r, r.pos \in pos + 1 .. EndOfFile, r.err \in BOOLEAN, NEW node, Return(r, node),
         calls' = calls, labels' = labels
  PROVE  Lesser
  <1>1. /\ pos' = r.pos /\ mode' = "returned" /\ hadError' \in BOOLEAN /\ pos \in Nat /\ EndOfFile \in Nat
        /\ Len(calls) \in Nat /\ EndOfFile' = EndOfFile
    BY TokenThere, StackOf DEF TypeInv, Return, EndOfFile
  <1>2. pos' \in 1 .. EndOfFile /\ pos' - pos >= 1
    <2>1. pos >= 1
      BY <1>1 DEF TypeInv
    <2> QED
      BY <1>1, <2>1
  <1>3. TypeInv'
    BY <1>1, <1>2 DEF TypeInv, Source, Modes
  <1>4. Weight(mode', Token(pos)') = 2 /\ Weight(mode, Token(pos)) = 0
    BY <1>1, Weights
  <1>5. Left' < Left
    BY <1>1, <1>2, <1>4, LeavesLess
  <1> QED
    BY <1>3, <1>5 DEF Lesser

\* A step that calls statement() from a new frame.
LEMMA Awaits ==
  ASSUME TypeInv, mode = "statement", Token(pos) # "EOF", tokens' = tokens,
         NEW r, r.pos \in pos + 1 .. EndOfFile, r.err \in BOOLEAN, NEW f, FrameTyped(f), Await(f, r),
         mode' \in {"statement", "body"}, mode' = "body" => f.fn \in {"do", "for"}, labels' = labels
  PROVE  Lesser
  <1>1. /\ pos' = r.pos /\ hadError' \in BOOLEAN /\ pos \in Nat /\ EndOfFile \in Nat
        /\ Len(calls) \in Nat /\ EndOfFile' = EndOfFile /\ calls' = <<f>> \o calls
    BY TokenThere, StackOf DEF TypeInv, Await, EndOfFile
  <1>2. pos' \in 1 .. EndOfFile /\ pos' - pos >= 1
    <2>1. pos >= 1
      BY <1>1 DEF TypeInv
    <2> QED
      BY <1>1, <2>1
  <1>3. Stack(calls') /\ Len(calls') = Len(calls) + 1 /\ calls' # <<>> /\ Head(calls') = f
    BY <1>1, Pushed DEF TypeInv
  <1>4. TypeInv'
    BY <1>1, <1>2, <1>3 DEF TypeInv, Source, Modes
  <1>5. Weight(mode', Token(pos)') \in 0 .. 3 /\ Weight(mode, Token(pos)) = 0
    BY Weights
  <1>6. Left' < Left
    BY <1>1, <1>2, <1>3, <1>5, LeavesLess
  <1> QED
    BY <1>4, <1>6 DEF Lesser

\* A step that leaves a frame.
LEMMA Leaves ==
  ASSUME TypeInv, calls # <<>>, mode \in {"returned", "body"}, tokens' = tokens, calls' = Tail(calls),
         pos' \in pos .. EndOfFile, mode' \in {"returned", "crashed"}, hadError' \in BOOLEAN, Labels(labels')
  PROVE  Lesser
  <1>1. /\ pos \in Nat /\ EndOfFile \in Nat /\ EndOfFile' = EndOfFile /\ Len(calls) \in Nat
        /\ Stack(calls') /\ Len(calls') = Len(calls) - 1 /\ Len(calls) >= 1
    BY TokenThere, StackOf DEF TypeInv, EndOfFile
  <1>2. pos' \in 1 .. EndOfFile /\ pos' - pos >= 0
    <2>1. pos \in 1 .. EndOfFile
      BY DEF TypeInv
    <2> QED
      BY <1>1, <2>1, Within
  <1>3. TypeInv'
    BY <1>1, <1>2 DEF TypeInv, Source, Modes
  <1>4. Weight(mode', Token(pos)') <= 2 /\ Weight(mode', Token(pos)') \in Nat
        /\ Weight(mode, Token(pos)) >= 1 /\ Weight(mode, Token(pos)) \in Nat
    BY Weights
  <1>5. Left' < Left
    BY <1>1, <1>2, <1>4, LeavesLess
  <1> QED
    BY <1>3, <1>5 DEF Lesser

\* The first word of a statement is not the end of the file.
LEMMA FirstWords ==
  "EOF" \notin Variables \cup Keywords \cup Literals \cup Arithmetic \cup Relations \cup Signs \cup Identifiers
               \cup LabelNames
  BY NoEof DEF Tokens

\* Behind the first word of a statement.
LEMMA Begun ==
  ASSUME TypeInv, NEW ts, At(ts), "EOF" \notin ts
  PROVE  /\ mode = "statement" /\ Token(pos) \in ts /\ Token(pos) # "EOF" /\ tokens' = tokens /\ Source
         /\ pos \in 1 .. Len(tokens) /\ pos + 1 \in 1 .. EndOfFile /\ pos \in 1 .. EndOfFile
         /\ pos \in Nat /\ EndOfFile \in Nat /\ Token(pos) = tokens[pos]
  BY TokenThere DEF TypeInv, At

\* What the stack has on it when statement() returns to fn.
LEMMA Back ==
  ASSUME TypeInv, NEW fn \in Fn, Returned(fn)
  PROVE  /\ mode = "returned" /\ calls # <<>> /\ Head(calls) = calls[1] /\ calls[1].fn = fn /\ tokens' = tokens
         /\ FrameTyped(calls[1]) /\ Len(calls) \in Nat /\ Source
  BY StackOf DEF TypeInv, Returned

LEMMA Inside ==
  ASSUME TypeInv, NEW fn \in {"do", "for"}, InBody(fn)
  PROVE  /\ mode = "body" /\ calls # <<>> /\ Head(calls) = calls[1] /\ calls[1].fn = fn /\ tokens' = tokens
         /\ Len(calls) \in Nat /\ Source /\ labels' = labels /\ Labels(labels)
         /\ pos \in 1 .. EndOfFile /\ pos \in Nat /\ EndOfFile \in Nat
  BY StackOf, TokenThere DEF TypeInv, InBody

LEMMA LabelAdded ==
  ASSUME NEW s, Labels(s), NEW l, l.label \in LabelNames
  PROVE  Labels(Append(s, l))
  <1>1. PICK S : s \in Seq(S)
    BY DEF Labels
  <1>2. /\ Append(s, l) \in Seq(S \cup {l}) /\ Len(s) \in Nat /\ Len(Append(s, l)) = Len(s) + 1
        /\ \A k \in 1 .. Len(s) : Append(s, l)[k] = s[k]
        /\ Append(s, l)[Len(s) + 1] = l
    <2>1. s \in Seq(S \cup {l}) /\ l \in S \cup {l}
      BY <1>1
    <2> QED
      BY <2>1, AppendProperties
  <1>3. \A k \in 1 .. Len(s) : s[k].label \in LabelNames
    BY <1>1 DEF Labels
  <1> DEFINE t == Append(s, l)
  <1>4. DOMAIN t = 1 .. Len(s) + 1
    BY <1>2
  <1> HIDE DEF t
  <1>5. \A k \in DOMAIN t : t[k].label \in LabelNames
    BY <1>2, <1>3, <1>4 DEF t
  <1> QED
    BY <1>2, <1>5 DEF Labels, t

LEMMA StepLeavesLess ==
  ASSUME TypeInv, Next, vars' # vars
  PROVE  Lesser
  <1>1. CASE ParseEndOfFile
    <2>1. /\ mode = "statement" /\ Token(pos) = "EOF" /\ pos' = pos /\ mode' = "returned"
          /\ hadError' \in BOOLEAN /\ tokens' = tokens /\ calls' = calls /\ labels' = labels
      BY <1>1 DEF ParseEndOfFile, At, Return, Result, TypeInv
    <2>2. /\ pos \in Nat /\ Len(calls) \in Nat /\ EndOfFile' = EndOfFile
      BY <2>1, TokenThere, StackOf DEF TypeInv, EndOfFile
    <2>3. Weight(mode', Token(pos)') = 2 /\ Weight(mode, Token(pos)) = 3
      BY <2>1, Weights
    <2>4. TypeInv'
      BY <2>1, <2>2 DEF TypeInv, Source, Modes
    <2>5. Left' < Left
      BY <2>1, <2>2, <2>3, LeavesLess DEF TypeInv
    <2> QED
      BY <2>4, <2>5 DEF Lesser
  <1>2. CASE ParseAssign
    <2>1. At(Variables) /\ Return(Assign(pos), Assign(pos).node) /\ calls' = calls /\ labels' = labels
      BY <1>2 DEF ParseAssign
    <2>2. /\ mode = "statement" /\ Token(pos) # "EOF" /\ tokens' = tokens /\ Source /\ pos \in 1 .. EndOfFile
          /\ pos \in Nat /\ EndOfFile \in Nat
      BY <2>1, FirstWords, Begun
    <2>3. Assign(pos).pos \in pos + 1 .. EndOfFile /\ Assign(pos).err \in BOOLEAN
      BY <2>2, AssignOn DEF Onward
    <2> QED
      BY <2>1, <2>2, <2>3, Returns
  <1>3. CASE ParseKeyword
    <2> DEFINE k == PastIncludes(pos)
               r == Keyword(k)
               ts == Keywords \ {"IF", "DO", "FOR"}
    <2>1. At(ts) /\ calls' = calls /\ labels' = labels
      BY <1>3 DEF ParseKeyword
    <2>2. /\ mode = "statement" /\ Token(pos) # "EOF" /\ tokens' = tokens /\ Source /\ pos \in 1 .. EndOfFile
          /\ pos \in Nat /\ EndOfFile \in Nat /\ Token(pos) \in Keywords
      BY <2>1, FirstWords, Begun
    <2>3. k \in pos .. EndOfFile /\ k \in 1 .. EndOfFile
      BY <2>2, PastIncludesOn
    <2>4. k = pos => Token(k) \in Keywords
      BY <2>2
    <2> HIDE DEF k
    <2>5. CASE Token(k) \in Keywords /\ Return(r, r.node)
      <3>1. Token(k) # "EOF"
        BY <2>5, FirstWords
      <3>2. r.pos \in pos + 1 .. EndOfFile /\ r.err \in BOOLEAN
        BY <2>2, <2>3, <3>1, KeywordOn DEF Onward
      <3> QED
        BY <2>1, <2>2, <2>5, <3>2, Returns
    <2>6. CASE Token(k) \notin Keywords /\ Return(Failed(k), NULL)
      <3>1. Failed(k).pos \in pos + 1 .. EndOfFile /\ Failed(k).err \in BOOLEAN
        BY <2>2, <2>3, <2>4, <2>6, FailedOn DEF Onward
      <3> QED
        BY <2>1, <2>2, <2>6, <3>1, Returns
    <2>7. CASE Token(k) \notin Keywords /\ pos' = k /\ mode' = "crashed" /\ UNCHANGED <<ret, hadError>>
      <3>1. k \in pos + 1 .. EndOfFile
        BY <2>2, <2>3, <2>4, <2>7
      <3>2. Len(calls) \in Nat /\ EndOfFile' = EndOfFile
        BY <2>2, StackOf DEF TypeInv, EndOfFile
      <3>3. TypeInv'
        BY <2>1, <2>2, <2>3, <2>7, <3>2 DEF TypeInv, Source, Modes
      <3>4. Weight(mode', Token(pos)') = 0 /\ Weight(mode, Token(pos)) = 0
        BY <2>2, <2>7, Weights
      <3>5. pos' - pos >= 1
        BY <2>2, <2>7, <3>1
      <3>6. Left' < Left
        BY <2>1, <2>2, <2>3, <2>7, <3>2, <3>4, <3>5, LeavesLess
      <3> QED
        BY <3>3, <3>6 DEF Lesser
    <2>8. \/ Token(k) \in Keywords /\ Return(r, r.node)
          \/ Token(k) \notin Keywords /\ Return(Failed(k), NULL)
          \/ Token(k) \notin Keywords /\ pos' = k /\ mode' = "crashed" /\ UNCHANGED <<ret, hadError>>
      BY <1>3 DEF ParseKeyword, k
    <2> QED
      BY <2>5, <2>6, <2>7, <2>8
  <1>4. CASE ParseUnexpected
    <2> DEFINE ts == Literals \cup Arithmetic \cup Relations \cup Signs \cup Identifiers
    <2>1. At(ts) /\ Return(Failed(pos), NULL) /\ calls' = calls /\ labels' = labels
      BY <1>4 DEF ParseUnexpected
    <2>2. /\ mode = "statement" /\ Token(pos) # "EOF" /\ tokens' = tokens /\ Source /\ pos \in 1 .. EndOfFile
          /\ pos \in Nat /\ EndOfFile \in Nat
      BY <2>1, FirstWords, Begun
    <2>3. Failed(pos).pos \in pos + 1 .. EndOfFile /\ Failed(pos).err \in BOOLEAN
      BY <2>2, FailedOn DEF Onward
    <2> QED
      BY <2>1, <2>2, <2>3, Returns
  <1>5. CASE ParseLabel
    <2> DEFINE f == [fn |-> "label", kids |-> <<Leaf(Token(pos))>>]
               r == Result(pos + 1, NULL, FALSE)
    <2>1. At(LabelNames) /\ Await(f, r) /\ mode' = mode /\ labels' = labels
      BY <1>5 DEF ParseLabel
    <2>2. /\ mode = "statement" /\ Token(pos) # "EOF" /\ tokens' = tokens /\ pos + 1 \in 1 .. EndOfFile
          /\ pos \in Nat /\ EndOfFile \in Nat /\ Token(pos) \in LabelNames
      BY <2>1, FirstWords, Begun
    <2>3. FrameTyped(f)
      <3>1. f.fn = "label" /\ f.kids[1].op = Token(pos) /\ f = [fn |-> f.fn, kids |-> f.kids]
        BY DEF Leaf, Node
      <3> HIDE DEF f
      <3> QED
        BY <2>2, <3>1 DEF FrameTyped, Fn
    <2>4. r.pos \in pos + 1 .. EndOfFile /\ r.err \in BOOLEAN
      BY <2>2 DEF Result
    <2> HIDE DEF f, r
    <2> QED
      BY <2>1, <2>2, <2>3, <2>4, Awaits
  <1>6. CASE ParseIf
    <2> DEFINE cond == BooleanExpr(pos + 1)
               f == [fn |-> "then", kids |-> <<cond.node>>]
               r == Result(cond.pos + 1, cond.node, cond.err)
    <2>1. At({"IF"}) /\ labels' = labels
      BY <1>6 DEF ParseIf
    <2>2. /\ mode = "statement" /\ Token(pos) # "EOF" /\ tokens' = tokens /\ Source /\ pos + 1 \in 1 .. EndOfFile
          /\ pos \in Nat /\ EndOfFile \in Nat
      BY <2>1, Begun
    <2>3. cond.pos \in pos + 1 .. EndOfFile /\ cond.err \in BOOLEAN /\ cond.pos \in 1 .. EndOfFile
      BY <2>2, BooleanExprOn DEF Onward
    <2>4. r.pos = cond.pos + 1 /\ r.err = cond.err
      BY DEF Result
    <2>5. CASE Token(cond.pos) = "THEN" /\ Await(f, r) /\ UNCHANGED mode
      <3>1. cond.pos + 1 \in pos + 1 .. EndOfFile
        BY <2>2, <2>3, <2>5, TokenThere, SMTT(20)
      <3>2. FrameTyped(f)
        BY DEF FrameTyped, Fn
      <3> HIDE DEF cond, f, r
      <3> QED
        BY <2>1, <2>2, <2>3, <2>4, <2>5, <3>1, <3>2, Awaits
    <2>6. CASE Token(cond.pos) # "THEN" /\ Return(Failed(cond.pos), NULL) /\ UNCHANGED calls
      <3>1. Failed(cond.pos).pos \in pos + 1 .. EndOfFile /\ Failed(cond.pos).err \in BOOLEAN
        BY <2>2, <2>3, FailedOn DEF Onward
      <3> HIDE DEF cond
      <3> QED
        BY <2>1, <2>2, <2>6, <3>1, Returns
    <2> QED
      BY <1>6, <2>5, <2>6 DEF ParseIf
  <1>7. CASE ParseDo
    <2> DEFINE f == [fn |-> "do", kids |-> <<>>]
               r == Result(pos + 1, NULL, FALSE)
    <2>1. At({"DO"}) /\ Await(f, r) /\ mode' = "body" /\ labels' = labels
      BY <1>7 DEF ParseDo
    <2>2. /\ mode = "statement" /\ Token(pos) # "EOF" /\ tokens' = tokens /\ pos + 1 \in 1 .. EndOfFile
          /\ pos \in Nat /\ EndOfFile \in Nat
      BY <2>1, Begun
    <2>3. FrameTyped(f) /\ f.fn = "do"
      BY DEF FrameTyped, Fn
    <2>4. r.pos \in pos + 1 .. EndOfFile /\ r.err \in BOOLEAN
      BY <2>2 DEF Result
    <2> HIDE DEF f, r
    <2> QED
      BY <2>1, <2>2, <2>3, <2>4, Awaits
  <1>8. CASE ParseFor
    <2> DEFINE init == Assign(pos + 1)
               to   == Expr(init.pos + 1)
               f    == [fn |-> "for", kids |-> <<init.node, to.node>>]
               r    == Result(to.pos, to.node, to.err \/ init.err)
    <2>1. At({"FOR"}) /\ labels' = labels
      BY <1>8 DEF ParseFor
    <2>2. /\ mode = "statement" /\ Token(pos) # "EOF" /\ tokens' = tokens /\ Source /\ pos + 1 \in 1 .. EndOfFile
          /\ pos \in Nat /\ EndOfFile \in Nat
      BY <2>1, Begun
    <2>3. init.pos \in pos + 1 .. EndOfFile /\ init.pos \in 1 .. EndOfFile /\ init.err \in BOOLEAN
      BY <2>2, AssignOn DEF Onward
    <2>4. CASE Return(Failed(pos + 1), NULL) /\ UNCHANGED calls
      <3>1. Failed(pos + 1).pos \in pos + 1 .. EndOfFile /\ Failed(pos + 1).err \in BOOLEAN
        BY <2>2, FailedOn DEF Onward
      <3> QED
        BY <2>1, <2>2, <2>4, <3>1, Returns
    <2>5. CASE Return(Failed(init.pos), NULL) /\ UNCHANGED calls
      <3>1. Failed(init.pos).pos \in pos + 1 .. EndOfFile /\ Failed(init.pos).err \in BOOLEAN
        BY <2>2, <2>3, FailedOn DEF Onward
      <3> HIDE DEF init
      <3> QED
        BY <2>1, <2>2, <2>5, <3>1, Returns
    <2>6. CASE Token(init.pos) = "TO" /\ Await(f, r) /\ mode' = "body"
      <3>1. init.pos + 1 \in 1 .. EndOfFile
        <4> HIDE DEF init
        <4> QED
          BY <2>2, <2>3, <2>6, TokenThere
      <3>2. to.pos \in init.pos + 1 .. EndOfFile /\ to.err \in BOOLEAN
        BY <2>2, <3>1, ExprOn DEF Onward
      <3>3. r.pos \in pos + 1 .. EndOfFile /\ r.err \in BOOLEAN
        <4>1. r.pos = to.pos /\ r.err = (to.err \/ init.err)
          BY DEF Result
        <4> HIDE DEF r, to, init
        <4> QED
          BY <2>2, <2>3, <3>2, <4>1
      <3>4. FrameTyped(f) /\ f.fn = "for"
        BY DEF FrameTyped, Fn
      <3> HIDE DEF f, r, to, init
      <3> QED
        BY <2>1, <2>2, <2>6, <3>3, <3>4, Awaits
    <2> QED
      BY <1>8, <2>4, <2>5, <2>6 DEF ParseFor
  <1>9. CASE ReturnToLabel
    <2>1. Returned("label") /\ calls' = Tail(calls) /\ pos' = pos /\ mode' = mode /\ hadError' = hadError
      BY <1>9 DEF ReturnToLabel
    <2>2. /\ mode = "returned" /\ calls # <<>> /\ Head(calls) = calls[1] /\ calls[1].fn = "label" /\ tokens' = tokens
          /\ FrameTyped(calls[1])
      BY <2>1, Back DEF Fn
    <2>3. labels' = Append(labels, [label |-> calls[1].kids[1].op, node |-> ret])
      BY <1>9, <2>2 DEF ReturnToLabel, LabelsWith
    <2>4. calls[1].kids[1].op \in LabelNames
      BY <2>2 DEF FrameTyped
    <2> DEFINE l == [label |-> calls[1].kids[1].op, node |-> ret]
    <2>5. l.label \in LabelNames
      BY <2>4
    <2> HIDE DEF l
    <2>6. Labels(labels')
      BY <2>3, <2>5, LabelAdded DEF l, TypeInv
    <2>7. pos' \in pos .. EndOfFile /\ hadError' \in BOOLEAN
      BY <2>1, TokenThere DEF TypeInv
    <2> QED
      BY <2>1, <2>2, <2>6, <2>7, Leaves
  <1>10. CASE ReturnToThen
    <2> DEFINE kids == Append(Head(calls).kids, ret)
               f    == [fn |-> "else", kids |-> kids]
    <2>1. Returned("then") /\ UNCHANGED <<hadError, labels>>
      BY <1>10 DEF ReturnToThen
    <2>2. /\ mode = "returned" /\ calls # <<>> /\ Head(calls) = calls[1] /\ tokens' = tokens /\ Source
          /\ pos \in 1 .. EndOfFile /\ pos \in Nat /\ EndOfFile \in Nat
      BY <2>1, Back, TokenThere DEF Fn, TypeInv
    <2>3. CASE TakesElse /\ calls' = <<f>> \o Tail(calls) /\ pos' = pos + 1 /\ mode' = "statement"
      <3>1. Token(pos) # "EOF" /\ pos + 1 \in 1 .. EndOfFile
        BY <2>2, <2>3, TokenThere DEF TakesElse
      <3>2. FrameTyped(f)
        BY DEF FrameTyped, Fn
      <3>3. Stack(calls') /\ Len(calls') = Len(calls) /\ Len(calls) \in Nat
        <4> HIDE DEF f
        <4> QED
          BY <2>2, <2>3, <3>2, Replaced, StackOf DEF TypeInv
      <3>4. EndOfFile' = EndOfFile
        BY <2>2 DEF EndOfFile
      <3>5. TypeInv'
        BY <2>1, <2>2, <2>3, <3>1, <3>3, <3>4 DEF TypeInv, Source, Modes
      <3>6. Weight(mode', Token(pos)') \in 0 .. 3 /\ Weight(mode, Token(pos)) = 2
        BY <2>2, Weights
      <3>7. Left' < Left
        <4>1. pos' \in 1 .. EndOfFile /\ pos' - pos = 1
          BY <2>2, <2>3, <3>1
        <4> DEFINE w == Weight(mode', Token(pos)')
        <4>2. w \in 0 .. 3 /\ Weight(mode, Token(pos)) = 2
          BY <3>6
        <4> HIDE DEF w
        <4>3. 8 * (pos' - pos) > 4 * (Len(calls') - Len(calls)) + w - 2
          BY <3>3, <4>1, <4>2
        <4> QED
          BY <2>2, <3>3, <4>1, <4>2, <4>3, LeavesLess DEF w
      <3> QED
        BY <3>5, <3>7 DEF Lesser
    <2>4. CASE calls' = Tail(calls) /\ UNCHANGED <<pos, mode>>
      <3>1. pos' \in pos .. EndOfFile /\ hadError' \in BOOLEAN /\ Labels(labels')
        BY <2>1, <2>2, <2>4 DEF TypeInv
      <3> QED
        BY <2>2, <2>4, <3>1, Leaves
    <2> QED
      BY <1>10, <2>3, <2>4 DEF ReturnToThen
  <1>11. CASE ReturnToElse
    <2>1. Returned("else") /\ calls' = Tail(calls) /\ UNCHANGED <<pos, mode, hadError, labels>>
      BY <1>11 DEF ReturnToElse
    <2>2. mode = "returned" /\ calls # <<>> /\ tokens' = tokens
      BY <2>1, Back DEF Fn
    <2>3. pos' \in pos .. EndOfFile /\ hadError' \in BOOLEAN /\ Labels(labels')
      BY <2>1, TokenThere DEF TypeInv
    <2> QED
      BY <2>1, <2>2, <2>3, Leaves
  <1>12. CASE ReturnToBody
    <2> DEFINE kids == Append(calls[1].kids, ret)
    <2>1. PICK fn \in {"do", "for"} : Returned(fn)
      BY <1>12 DEF ReturnToBody
    <2>2. /\ calls' = [calls EXCEPT ![1].kids = kids] /\ mode' = "body"
          /\ UNCHANGED <<pos, ret, hadError, labels>>
      BY <1>12 DEF ReturnToBody
    <2>3. /\ mode = "returned" /\ calls # <<>> /\ calls[1].fn = fn /\ tokens' = tokens /\ Len(calls) \in Nat
      BY <2>1, Back DEF Fn
    <2> HIDE DEF kids
    <2>4. Stack(calls') /\ Len(calls') = Len(calls) /\ calls' # <<>> /\ Head(calls').fn \in {"do", "for"}
      <3>1. calls[1].fn \in {"do", "for"} /\ Stack(calls)
        BY <2>3 DEF TypeInv
      <3>2. /\ Stack(calls') /\ Len(calls') = Len(calls) /\ calls' # <<>>
            /\ Head(calls') = calls'[1] /\ calls'[1].fn = calls[1].fn
        BY <2>2, <2>3, <3>1, Grown, ZenonT(30)
      <3> QED
        BY <3>1, <3>2
    <2>5. EndOfFile' = EndOfFile
      BY <2>3 DEF EndOfFile
    <2>6. TypeInv'
      BY <2>2, <2>3, <2>4, <2>5 DEF TypeInv, Source, Modes
    <2>7. Weight(mode', Token(pos)') = 1 /\ Weight(mode, Token(pos)) = 2
      BY <2>2, <2>3, Weights
    <2>8. pos' \in 1 .. EndOfFile /\ pos' - pos = 0
      BY <2>2, TokenThere DEF TypeInv
    <2>9. Left' < Left
      BY <2>3, <2>4, <2>7, <2>8, LeavesLess
    <2> QED
      BY <2>6, <2>9 DEF Lesser
  <1>13. ASSUME NEW fn \in {"do", "for"}, MoreBody(fn) PROVE Lesser
    <2>1. /\ mode = "body" /\ tokens' = tokens /\ Len(calls) \in Nat /\ labels' = labels
          /\ mode' = "statement" /\ UNCHANGED <<pos, calls, ret, hadError>> /\ Token(pos) # "EOF"
          /\ pos \in Nat /\ pos \in 1 .. EndOfFile
      BY <1>13, Inside DEF MoreBody
    <2>2. EndOfFile' = EndOfFile /\ Token(pos)' = Token(pos)
      BY <2>1 DEF EndOfFile, Token
    <2>3. TypeInv'
      BY <2>1, <2>2 DEF TypeInv, Source, Modes
    <2>4. Weight(mode', Token(pos)') = 0 /\ Weight(mode, Token(pos)) = 1
      BY <2>1, <2>2, Weights
    <2>5. Left' < Left
      BY <2>1, <2>4, LeavesLess
    <2> QED
      BY <2>3, <2>5 DEF Lesser
  <1>14. ASSUME NEW fn \in {"do", "for"}, BodyAtEndOfFile(fn) PROVE Lesser
    <2>1. /\ InBody(fn) /\ calls' = Tail(calls) /\ pos' = pos /\ mode' = "returned" /\ hadError' \in BOOLEAN
      BY <1>14 DEF BodyAtEndOfFile, Return, Result, TypeInv
    <2>2. /\ mode = "body" /\ calls # <<>> /\ tokens' = tokens /\ labels' = labels /\ Labels(labels)
          /\ pos \in 1 .. EndOfFile /\ pos \in Nat /\ EndOfFile \in Nat
      BY <2>1, Inside
    <2>3. pos' \in pos .. EndOfFile
      BY <2>1, <2>2
    <2> QED
      BY <2>1, <2>2, <2>3, Leaves
  <1>15. CASE CloseDo
    <2> DEFINE kids == Head(calls).kids
               cond == BooleanExpr(pos + 2)
    <2>1. InBody("do") /\ Token(pos) = "LOOP" /\ calls' = Tail(calls)
      BY <1>15 DEF CloseDo
    <2>2. /\ mode = "body" /\ calls # <<>> /\ tokens' = tokens /\ labels' = labels /\ Labels(labels) /\ Source
          /\ pos \in 1 .. EndOfFile /\ pos \in Nat /\ EndOfFile \in Nat
      BY <2>1, Inside
    <2>3. pos + 1 \in 1 .. EndOfFile /\ (Token(pos + 1) # "EOF" => pos + 2 \in 1 .. EndOfFile)
      <3>1. pos + 1 \in 1 .. EndOfFile
        BY <2>1, <2>2, TokenThere
      <3>2. Token(pos + 1) # "EOF" => (pos + 1) + 1 \in 1 .. EndOfFile
        BY <2>2, <3>1, TokenThere
      <3> QED
        BY <2>2, <3>1, <3>2
    <2>4. CASE Token(pos + 1) = "ENDLESS" /\ Return(Result(pos + 2, NULL, FALSE), Node("ENDLESS", <<NULL>> \o kids))
      <3>1. pos' = pos + 2 /\ mode' = "returned" /\ hadError' \in BOOLEAN
        BY <2>4 DEF Return, Result, TypeInv
      <3>2. pos' \in pos .. EndOfFile
        BY <2>2, <2>3, <2>4, <3>1
      <3> QED
        BY <2>1, <2>2, <3>1, <3>2, Leaves
    <2>5. CASE Token(pos + 1) \in {"WHILE", "UNTIL"} /\ Return(cond, Node(Token(pos + 1), <<cond.node>> \o kids))
      <3>1. pos' = cond.pos /\ mode' = "returned" /\ hadError' = (hadError \/ cond.err)
        BY <2>5 DEF Return
      <3>2. cond.pos \in pos + 2 .. EndOfFile /\ cond.err \in BOOLEAN
        BY <2>2, <2>3, <2>5, BooleanExprOn DEF Onward
      <3> HIDE DEF cond
      <3>3. pos' \in pos .. EndOfFile
        BY <2>2, <3>1, <3>2
      <3>4. hadError' \in BOOLEAN
        BY <3>1, <3>2 DEF TypeInv
      <3> QED
        BY <2>1, <2>2, <3>1, <3>3, <3>4, Leaves
    <2>6. CASE Return(Result(pos + 1, NULL, TRUE), NULL)
      <3>1. pos' = pos + 1 /\ mode' = "returned" /\ hadError' \in BOOLEAN
        BY <2>6 DEF Return, Result, TypeInv
      <3>2. pos' \in pos .. EndOfFile
        BY <2>2, <2>3, <3>1
      <3> QED
        BY <2>1, <2>2, <3>1, <3>2, Leaves
    <2> QED
      BY <1>15, <2>4, <2>5, <2>6 DEF CloseDo
  <1>16. CASE CloseFor
    <2> DEFINE kids == Head(calls).kids
               temp == Variable(pos + 1)
    <2>1. InBody("for") /\ Token(pos) = "NEXT" /\ calls' = Tail(calls)
      BY <1>16 DEF CloseFor
    <2>2. /\ mode = "body" /\ calls # <<>> /\ tokens' = tokens /\ labels' = labels /\ Labels(labels) /\ Source
          /\ pos \in 1 .. EndOfFile /\ pos \in Nat /\ EndOfFile \in Nat
      BY <2>1, Inside
    <2>3. pos + 1 \in 1 .. EndOfFile
      BY <2>1, <2>2, TokenThere
    <2>4. temp.pos \in pos .. EndOfFile /\ temp.err \in BOOLEAN
      BY <2>2, <2>3, VariableOn DEF Onward
    <2>5. pos' = temp.pos /\ mode' \in {"returned", "crashed"} /\ hadError' \in {TRUE, hadError \/ temp.err}
      <3>1. CASE temp.node = NULL
        BY <1>16, <3>1 DEF CloseFor
      <3>2. CASE temp.node # NULL /\ SameVariable(kids, temp.node)
        <4>1. Return(temp, Node("FOR", kids))
          BY <1>16, <3>2 DEF CloseFor
        <4> QED
          BY <4>1 DEF Return
      <3>3. CASE temp.node # NULL /\ ~SameVariable(kids, temp.node)
        <4>1. Return(Result(temp.pos, temp.node, TRUE), NULL)
          BY <1>16, <3>3 DEF CloseFor
        <4> QED
          BY <4>1 DEF Return, Result
      <3> QED
        BY <3>1, <3>2, <3>3
    <2> HIDE DEF temp
    <2>6. hadError' \in BOOLEAN /\ pos' \in pos .. EndOfFile
      BY <2>4, <2>5 DEF TypeInv
    <2> QED
      BY <2>1, <2>2, <2>5, <2>6, Leaves
  <1>17. CASE ReturnToParse
    <2>1. /\ mode = "returned" /\ calls = <<>> /\ mode' = (IF Token(pos) = "EOF" THEN "parsed" ELSE "statement")
          /\ UNCHANGED <<tokens, pos, calls, ret, hadError, labels>>
      BY <1>17 DEF ReturnToParse
    <2>2. EndOfFile' = EndOfFile /\ Token(pos)' = Token(pos) /\ pos \in Nat /\ Len(calls) \in Nat
      BY <2>1, TokenThere, StackOf DEF EndOfFile, Token, TypeInv
    <2>3. TypeInv'
      BY <2>1, <2>2 DEF TypeInv, Source, Modes
    <2>4. Weight(mode', Token(pos)') = 0 /\ Weight(mode, Token(pos)) = 2
      BY <2>1, <2>2, Weights
    <2>5. Left' < Left
      BY <2>1, <2>2, <2>4, LeavesLess DEF TypeInv
    <2> QED
      BY <2>3, <2>5 DEF Lesser
  <1> QED
    <2>1. ~Stop
      BY DEF Stop
    <2> QED
      BY <2>1, <1>1, <1>2, <1>3, <1>4, <1>5, <1>6, <1>7, <1>8, <1>9, <1>10, <1>11, <1>12, <1>13, <1>14, <1>15,
         <1>16, <1>17 DEF Next

LEMMA TypesAtFirst ==
  ASSUME Init
  PROVE  TypeInv
  <1>1. Source
    BY SourcesAssumption DEF Init, Source
  <1>2. Stack(<<>>) /\ Labels(<<>>)
    <2>1. <<>> \in Seq({}) /\ DOMAIN <<>> = {}
      OBVIOUS
    <2> QED
      BY <2>1 DEF Stack, Labels
  <1>3. 1 \in 1 .. EndOfFile
    BY <1>1 DEF EndOfFile, Source
  <1> QED
    BY <1>1, <1>2, <1>3 DEF Init, TypeInv, Modes

LEMMA TypesHold == Spec => []TypeInv
  <1>1. Init => TypeInv
    BY TypesAtFirst
  <1>2. TypeInv /\ [Next]_vars => TypeInv'
    <2> SUFFICES ASSUME TypeInv, [Next]_vars PROVE TypeInv'
      OBVIOUS
    <2>1. CASE vars' = vars
      BY <2>1 DEF vars, TypeInv, Source, EndOfFile
    <2>2. CASE Next /\ vars' # vars
      BY <2>2, StepLeavesLess DEF Lesser
    <2> QED
      BY <2>1, <2>2
  <1> QED
    BY <1>1, <1>2, PTL DEF Spec

\* The types of the parser's state.
THEOREM ParserTypes == Spec => []TypeOK
  <1>1. TypeInv => TypeOK
    BY DEF TypeInv, TypeOK, Source, EndOfFile, Stack, Labels, FrameTyped, Fn
  <1> QED
    BY <1>1, TypesHold, PTL

\* The parser ends on every source, a program or not: each step of it leaves less
\* to do than the one before, and what there is to do is counted by a natural.
THEOREM ParserEnds == Spec => EveryStepLeavesLess /\ [](Left \in Nat)
  <1>1. TypeInv => Left \in Nat
    <2> SUFFICES ASSUME TypeInv PROVE Left \in Nat
      OBVIOUS
    <2>1. /\ Len(tokens) \in Nat /\ pos \in 1 .. Len(tokens) + 1 /\ Len(calls) \in Nat
      BY TokenThere, StackOf DEF TypeInv
    <2>2. Weight(mode, Token(pos)) \in 0 .. 3
      BY Weights
    <2> QED
      BY <2>1, <2>2 DEF Left
  <1>2. TypeInv /\ [Next]_vars => [Left' < Left]_vars
    BY StepLeavesLess DEF Lesser
  <1> QED
    BY <1>1, <1>2, TypesHold, PTL DEF Spec, EveryStepLeavesLess

-----------------------------------------------------------------------------
(***************************************************************************)
(* CodeEnds is defined by recursion on what begins later: it exists.       *)
(***************************************************************************)
EndsAt(g, i) ==
    [one |-> CodeStatementEnds(g, i), all |-> {i} \cup UNION {g[k].all : k \in CodeStatementEnds(g, i)}]

LEMMA EndsAfter ==
  ASSUME NEW g, NEW i
  PROVE  CodeStatementEnds(g, i) \subseteq i + 1 .. EndOfFile
  BY DEF CodeStatementEnds

LEMMA EndsAgree ==
  ASSUME Source, NEW i \in 1 .. EndOfFile, NEW g, NEW h,
         \A k \in i + 1 .. EndOfFile : g[k] = h[k] /\ g[k].one \subseteq k + 1 .. EndOfFile
  PROVE  EndsAt(g, i) = EndsAt(h, i)
  <1>1. EndOfFile \in Nat /\ EndOfFile = Len(tokens) + 1 /\ i \in Nat
    BY TokenThere
  <1>2. CodeElses(g, i) = CodeElses(h, i) /\ \A k \in CodeThens(i) \cup CodeElses(g, i) : k + 1 \in i + 1 .. EndOfFile
    <2>1. \A k \in CodeThens(i) : k + 1 \in i + 1 .. EndOfFile
      BY <1>1 DEF CodeThens
    <2>2. \A k \in CodeThens(i) : g[k + 1].one = h[k + 1].one /\ g[k + 1].one \subseteq (k + 1) + 1 .. EndOfFile
      BY <2>1
    <2>3. CodeElses(g, i) = CodeElses(h, i)
      BY <2>2 DEF CodeElses
    <2>4. ASSUME NEW e \in CodeElses(g, i) PROVE e + 1 \in i + 1 .. EndOfFile
      <3>1. PICK k \in CodeThens(i) : e \in g[k + 1].one
        BY DEF CodeElses
      <3>2. e \in (k + 1) + 1 .. EndOfFile /\ e < EndOfFile /\ k + 1 \in i + 1 .. EndOfFile /\ k \in Int
        BY <2>1, <2>2, <3>1 DEF CodeElses, CodeThens
      <3> QED
        BY <1>1, <3>2
    <2> QED
      BY <2>1, <2>3, <2>4
  <1>3. \A k \in i + 1 .. EndOfFile : LastEnds(g, k) = LastEnds(h, k)
    BY DEF LastEnds
  <1>4. i < EndOfFile => i + 1 \in i + 1 .. EndOfFile /\ Loops(g, i) = Loops(h, i)
    BY <1>1 DEF Loops
  <1>5. Nexts(g, i) = Nexts(h, i)
    <2>1. \A m \in Headers(i) : g[m].all = h[m].all
      BY DEF Headers
    <2> QED
      BY <2>1 DEF Nexts
  <1>6. CodeStatementEnds(g, i) = CodeStatementEnds(h, i)
    <2>1. CASE i < EndOfFile
      <3>1. \A k \in CodeThens(i) \cup CodeElses(g, i) : LastEnds(g, k + 1) = LastEnds(h, k + 1)
        BY <1>2, <1>3
      <3>2. LastEnds(g, i + 1) = LastEnds(h, i + 1)
        BY <1>3, <1>4, <2>1
      <3> QED
        BY <1>2, <1>4, <1>5, <2>1, <3>1, <3>2 DEF CodeStatementEnds
    <2>2. CASE ~ (i < EndOfFile)
      <3>1. i + 1 .. EndOfFile = {}
        BY <1>1, <2>2
      <3>2. CodeStatementEnds(g, i) = {} /\ CodeStatementEnds(h, i) = {}
        BY <3>1, EndsAfter
      <3> QED
        BY <3>2
    <2> QED
      BY <2>1, <2>2
  <1>7. \A k \in CodeStatementEnds(g, i) : g[k].all = h[k].all
    BY EndsAfter
  <1> QED
    BY <1>6, <1>7, ZenonT(30) DEF EndsAt

LEMMA EndsAtHas ==
  ASSUME NEW g, NEW i
  PROVE  /\ EndsAt(g, i).one = CodeStatementEnds(g, i)
         /\ EndsAt(g, i).all = {i} \cup UNION {g[k].all : k \in EndsAt(g, i).one}
         /\ EndsAt(g, i).one \subseteq i + 1 .. EndOfFile
  <1>1. EndsAt(g, i).one = CodeStatementEnds(g, i)
    BY DEF EndsAt
  <1>2. EndsAt(g, i).all = {i} \cup UNION {g[k].all : k \in CodeStatementEnds(g, i)}
    BY DEF EndsAt
  <1> QED
    BY <1>1, <1>2, EndsAfter

\* The functions that are as CodeEnds from m on.
SolvesFrom(g, m) == g = [i \in m .. EndOfFile |-> EndsAt(g, i)]

LEMMA EndsExist ==
  ASSUME Source
  PROVE  \E g : SolvesFrom(g, 1)
  <1> DEFINE n == EndOfFile
             S == {d \in 0 .. n : \E g : SolvesFrom(g, n + 1 - d)}
  <1>1. n \in Nat \ {0}
    BY DEF EndOfFile, Source
  <1>2. 0 \in S
    <2>1. SolvesFrom([i \in n + 1 .. n |-> i], n + 1)
      <3>1. n + 1 .. n = {}
        BY <1>1
      <3> QED
        BY <3>1 DEF SolvesFrom
    <2> QED
      BY <1>1, <2>1
  <1>3. \A d \in 1 .. n : d - 1 \in S => d \in S
    <2> TAKE d \in 1 .. n
    <2> HAVE d - 1 \in S
    <2> DEFINE m == n + 1 - d
    <2>1. n + 1 - (d - 1) = m + 1 /\ m \in 1 .. n /\ d \in 0 .. n
      BY <1>1
    <2>2. PICK g : SolvesFrom(g, m + 1)
      BY <2>1
    <2> HIDE DEF m, n
    <2> DEFINE h == [i \in m .. n |-> IF i = m THEN EndsAt(g, m) ELSE g[i]]
    <2>3. \A i \in m .. n : i # m => i \in m + 1 .. n
      BY <1>1, <2>1
    <2>4. \A i \in m + 1 .. n : g[i] = EndsAt(g, i) /\ h[i] = g[i] /\ i \in m .. n /\ i # m
      <3> TAKE i \in m + 1 .. n
      <3>1. i \in m .. n /\ i # m
        BY <1>1, <2>1
      <3>2. g[i] = EndsAt(g, i)
        BY <2>2 DEF SolvesFrom, n
      <3> QED
        BY <3>1, <3>2
    <2>5. h[m] = EndsAt(g, m)
      BY <1>1, <2>1
    <2>6. \A i \in m + 1 .. n : g[i].one \subseteq i + 1 .. n
      BY <2>4, EndsAtHas DEF n
    <2>7. h = [i \in m .. n |-> h[i]]
      OBVIOUS
    <2> HIDE DEF h
    <2>8. \A i \in m .. n : EndsAt(g, i) = EndsAt(h, i)
      <3> TAKE i \in m .. n
      <3>1. i \in 1 .. EndOfFile /\ \A k \in i + 1 .. EndOfFile : k \in m + 1 .. n
        BY <1>1, <2>1 DEF n
      <3>2. \A k \in i + 1 .. EndOfFile : g[k] = h[k] /\ g[k].one \subseteq k + 1 .. EndOfFile
        BY <2>4, <2>6, <3>1 DEF n
      <3> QED
        BY <3>1, <3>2, EndsAgree
    <2>9. \A i \in m .. n : h[i] = EndsAt(h, i)
      BY <2>3, <2>4, <2>5, <2>8
    <2>10. SolvesFrom(h, m)
      BY <2>7, <2>9 DEF SolvesFrom, n
    <2> QED
      BY <2>1, <2>10 DEF m
  <1>4. \A d \in 0 .. n : d \in S
    <2> HIDE DEF S, n
    <2> QED
      BY <1>1, <1>2, <1>3, UpTo
  <1>5. n \in S /\ n + 1 - n = 1
    BY <1>1, <1>4
  <1> QED
    BY <1>5

LEMMA EndsAre ==
  ASSUME Source
  PROVE  \A i \in 1 .. EndOfFile : /\ CodeEnds[i].one = CodeStatementEnds(CodeEnds, i)
                                   /\ CodeEnds[i].all = {i} \cup UNION {CodeEnds[k].all : k \in CodeEnds[i].one}
                                   /\ CodeEnds[i].one \subseteq i + 1 .. EndOfFile
  <1>1. CodeEnds = CHOOSE g : SolvesFrom(g, 1)
    BY DEF CodeEnds, SolvesFrom, EndsAt
  <1>2. SolvesFrom(CodeEnds, 1)
    BY <1>1, EndsExist
  <1>3. \A i \in 1 .. EndOfFile : CodeEnds[i] = EndsAt(CodeEnds, i)
    BY <1>2 DEF SolvesFrom
  <1> QED
    BY <1>3, EndsAtHas

\* Statements one after the other.
LEMMA OneMore ==
  ASSUME Source, NEW i \in 1 .. EndOfFile, NEW k \in CodeEnds[i].all
  PROVE  k \in i .. EndOfFile /\ CodeEnds[k].one \subseteq CodeEnds[i].all
  <1> DEFINE n == EndOfFile
             Fine(x) == \A y \in CodeEnds[x].all : y \in x .. n /\ CodeEnds[y].one \subseteq CodeEnds[x].all
             S == {d \in 0 .. n - 1 : \A e \in 0 .. d : Fine(n - e)}
  <1>1. n \in Nat \ {0} /\ i \in 1 .. n
    BY TokenThere
  <1>2. ASSUME NEW x \in 1 .. n, \A y \in x + 1 .. n : Fine(y) PROVE Fine(x)
    <2> SUFFICES ASSUME NEW y \in CodeEnds[x].all PROVE y \in x .. n /\ CodeEnds[y].one \subseteq CodeEnds[x].all
      OBVIOUS
    <2>1. /\ CodeEnds[x].all = {x} \cup UNION {CodeEnds[z].all : z \in CodeEnds[x].one}
          /\ CodeEnds[x].one \subseteq x + 1 .. n
      BY EndsAre
    <2>2. CASE y = x
      <3>1. ASSUME NEW z \in CodeEnds[x].one PROVE z \in CodeEnds[x].all
        <4>1. z \in x + 1 .. n /\ z \in 1 .. n
          BY <1>1, <2>1
        <4>2. z \in CodeEnds[z].all
          BY <4>1, EndsAre
        <4> QED
          BY <2>1, <4>2
      <3> QED
        BY <1>1, <2>2, <3>1
    <2>3. CASE y # x
      <3>1. PICK z \in CodeEnds[x].one : y \in CodeEnds[z].all
        BY <2>1, <2>3
      <3>2. z \in x + 1 .. n
        BY <2>1
      <3>3. y \in z .. n /\ CodeEnds[y].one \subseteq CodeEnds[z].all
        BY <1>2, <3>1, <3>2
      <3>4. CodeEnds[z].all \subseteq CodeEnds[x].all
        BY <2>1
      <3> QED
        BY <1>1, <3>2, <3>3, <3>4
    <2> QED
      BY <2>2, <2>3
  <1> HIDE DEF Fine
  <1>3. 0 \in S
    <2>1. Fine(n - 0)
      <3>1. n - 0 \in 1 .. n /\ (n - 0) + 1 .. n = {}
        BY <1>1
      <3> QED
        BY <1>2, <3>1
    <2> QED
      BY <1>1, <2>1
  <1>4. \A d \in 1 .. n - 1 : d - 1 \in S => d \in S
    <2> TAKE d \in 1 .. n - 1
    <2> HAVE d - 1 \in S
    <2>1. n - d \in 1 .. n
      BY <1>1
    <2>2. \A y \in (n - d) + 1 .. n : Fine(y)
      <3> TAKE y \in (n - d) + 1 .. n
      <3>1. n - y \in 0 .. d - 1 /\ n - (n - y) = y
        BY <1>1, <2>1
      <3> QED
        BY <3>1
    <2>3. Fine(n - d)
      BY <1>2, <2>1, <2>2
    <2>4. \A e \in 0 .. d : e \in 0 .. d - 1 \/ e = d
      BY <1>1
    <2>5. \A e \in 0 .. d : Fine(n - e)
      BY <2>3, <2>4
    <2> QED
      BY <1>1, <2>5
  <1>5. \A d \in 0 .. n - 1 : d \in S
    <2>1. n - 1 \in Nat
      BY <1>1
    <2> HIDE DEF S
    <2> QED
      BY <1>3, <1>4, <2>1, UpTo
  <1>6. Fine(i)
    <2>1. n - i \in 0 .. n - 1 /\ n - (n - i) = i /\ n - i \in 0 .. n - i
      BY <1>1
    <2>2. n - i \in S
      BY <1>5, <2>1
    <2> QED
      BY <2>1, <2>2
  <1> QED
    BY <1>6 DEF Fine

-----------------------------------------------------------------------------
(***************************************************************************)
(* Without an error, the tokens taken so far are the beginning of a source *)
(* of the code's language: every caller on the stack began a statement b[k] tokens into   *)
(* the source, and waits for one that began, or begins, at b[k - 1].       *)
(***************************************************************************)
FrameFits(f, b, c) ==
    \/ f.fn = "label" /\ tokens[b] \in LabelNames /\ c = b + 1
    \/ f.fn = "then" /\ tokens[b] = "IF" /\ \E k \in CodeThens(b) : c = k + 1
    \/ f.fn = "else" /\ tokens[b] = "IF" /\ \E k \in CodeElses(CodeEnds, b) : c = k + 1
    \/ f.fn = "do" /\ tokens[b] = "DO" /\ c \in CodeEnds[b + 1].all
    \/ /\ f.fn = "for" /\ tokens[b] = "FOR" /\ tokens[b + 1] \in NumericVariables
       /\ f.kids # <<>> /\ (\E S : f.kids \in Seq(S))
       /\ f.kids[1].kids[1] = Leaf(tokens[b + 1])
       /\ \E m \in Headers(b) : c \in CodeEnds[m].all

Chain(c, b) ==
    /\ b \in [0 .. Len(c) -> 1 .. EndOfFile]
    /\ \A k \in 1 .. Len(c) : b[k] \in 1 .. Len(tokens) /\ FrameFits(c[k], b[k], b[k - 1])
    /\ b[Len(c)] \in CodeEnds[1].all

\* The token that is next, when the statement waited for begins at c.
CursorAt(p, m, c) ==
    /\ m \in {"statement", "body"} => p = c
    /\ m = "returned" => p \in LastEnds(CodeEnds, c)
    /\ m = "parsed" => p \in CodeEnds[1].all /\ p = EndOfFile

GrammarAt(p, c, m, h) ==
    ~h /\ m # "crashed" => \E b : Chain(c, b) /\ CursorAt(p, m, b[0])

GrammarInv == GrammarAt(pos, calls, mode, hadError)

LEMMA SourceStays ==
  ASSUME tokens' = tokens
  PROVE  /\ CodeEnds' = CodeEnds
         /\ \A p, c, m, h : GrammarAt(p, c, m, h)' <=> GrammarAt(p, c, m, h)
  <1>1. CodeEnds' = CodeEnds
    BY DEF CodeEnds, CodeStatementEnds, CodeThens, Headers, CodeElses, Loops, Nexts, LastEnds, CodeKeywordStatement, AreParts, Is,
           IsAssign, CodeBoolean, CodeComparison, IsExpr, Separated, IsPrimary, EndOfFile
  <1>2. /\ EndOfFile' = EndOfFile /\ \A i : CodeThens(i)' = CodeThens(i) /\ Headers(i)' = Headers(i)
    BY DEF CodeThens, Headers, IsAssign, CodeBoolean, CodeComparison, IsExpr, Separated, IsPrimary, EndOfFile
  <1>3. \A f, x, c : FrameFits(f, x, c)' <=> FrameFits(f, x, c)
    BY <1>1, <1>2 DEF FrameFits, CodeElses
  <1>4. \A p, m, c : CursorAt(p, m, c)' <=> CursorAt(p, m, c)
    BY <1>1, <1>2 DEF CursorAt, LastEnds
  <1>5. \A c, b : Chain(c, b)' <=> Chain(c, b)
    BY <1>1, <1>2, <1>3 DEF Chain
  <1> QED
    BY <1>1, <1>4, <1>5 DEF GrammarAt

LEMMA ChainPop ==
  ASSUME NEW c, Stack(c), c # <<>>, NEW b, Chain(c, b)
  PROVE  \E d : Chain(Tail(c), d) /\ d[0] = b[1]
  <1>1. /\ Len(c) \in Nat /\ Len(c) >= 1 /\ Len(Tail(c)) = Len(c) - 1
        /\ \A i \in 1 .. Len(c) - 1 : Tail(c)[i] = c[i + 1]
    BY StackOf
  <1> DEFINE n == Len(c)
             d == [k \in 0 .. n - 1 |-> b[k + 1]]
             t == Tail(c)
  <1>2. \A k \in 0 .. n - 1 : k + 1 \in 0 .. n /\ d[k] = b[k + 1]
    BY <1>1
  <1>3. /\ b \in [0 .. n -> 1 .. EndOfFile] /\ b[n] \in CodeEnds[1].all
        /\ \A k \in 1 .. n : b[k] \in 1 .. Len(tokens) /\ FrameFits(c[k], b[k], b[k - 1])
    BY DEF Chain
  <1>4. d \in [0 .. n - 1 -> 1 .. EndOfFile]
    BY <1>2, <1>3
  <1> HIDE DEF n, d, t
  <1>5. \A k \in 1 .. n - 1 : d[k] \in 1 .. Len(tokens) /\ FrameFits(t[k], d[k], d[k - 1])
    <2> TAKE k \in 1 .. n - 1
    <2>1. k + 1 \in 1 .. n /\ (k + 1) - 1 = k /\ k \in 0 .. n - 1 /\ k - 1 \in 0 .. n - 1 /\ (k - 1) + 1 = k
      BY <1>1 DEF n
    <2>2. d[k] = b[k + 1] /\ d[k - 1] = b[k] /\ t[k] = c[k + 1]
      BY <1>1, <1>2, <2>1 DEF n, t
    <2>3. b[k + 1] \in 1 .. Len(tokens) /\ FrameFits(c[k + 1], b[k + 1], b[k])
      BY <1>3, <2>1
    <2> QED
      BY <2>2, <2>3
  <1>6. d[n - 1] = b[n] /\ d[0] = b[1] /\ Len(t) = n - 1
    BY <1>1, <1>2 DEF n, t
  <1>7. Chain(t, d)
    BY <1>3, <1>4, <1>5, <1>6 DEF Chain
  <1> QED
    BY <1>6, <1>7 DEF t

LEMMA ChainPush ==
  ASSUME Source, NEW c, Stack(c), NEW b, Chain(c, b), NEW f, FrameTyped(f), NEW x \in 1 .. EndOfFile,
         b[0] \in 1 .. Len(tokens), FrameFits(f, b[0], x)
  PROVE  \E d : Chain(<<f>> \o c, d) /\ d[0] = x
  <1> DEFINE n == Len(c)
             t == <<f>> \o c
             d == [k \in 0 .. n + 1 |-> IF k = 0 THEN x ELSE b[k - 1]]
  <1>1. n \in Nat /\ Len(t) = n + 1 /\ t[1] = f /\ \A i \in 1 .. n : t[i + 1] = c[i]
    BY StackOf, Pushed
  <1>2. /\ b \in [0 .. n -> 1 .. EndOfFile] /\ b[n] \in CodeEnds[1].all
        /\ \A k \in 1 .. n : b[k] \in 1 .. Len(tokens) /\ FrameFits(c[k], b[k], b[k - 1])
    BY DEF Chain
  <1>3. d[0] = x /\ \A k \in 1 .. n + 1 : k - 1 \in 0 .. n /\ d[k] = b[k - 1]
    BY <1>1
  <1>4. d \in [0 .. n + 1 -> 1 .. EndOfFile]
    <2>1. \A k \in 0 .. n + 1 : k # 0 => k - 1 \in 0 .. n
      BY <1>1
    <2> HIDE DEF n
    <2> QED
      BY <1>2, <2>1
  <1> HIDE DEF n, d, t
  <1>5. \A k \in 1 .. n + 1 : d[k] \in 1 .. Len(tokens) /\ FrameFits(t[k], d[k], d[k - 1])
    <2> TAKE k \in 1 .. n + 1
    <2>1. CASE k = 1
      <3>1. d[1] = b[0] /\ d[1 - 1] = x
        BY <1>1, <1>3
      <3> QED
        BY <1>1, <2>1, <3>1
    <2>2. CASE k # 1
      <3>1. k - 1 \in 1 .. n /\ (k - 1) + 1 = k /\ k - 1 \in 1 .. n + 1
        BY <1>1, <2>2
      <3>2. d[k] = b[k - 1] /\ d[k - 1] = b[(k - 1) - 1] /\ t[k] = c[k - 1]
        BY <1>1, <1>3, <3>1
      <3>3. b[k - 1] \in 1 .. Len(tokens) /\ FrameFits(c[k - 1], b[k - 1], b[(k - 1) - 1])
        BY <1>2, <3>1
      <3> QED
        BY <3>2, <3>3
    <2> QED
      BY <2>1, <2>2
  <1>6. d[n + 1] = b[n]
    <2>1. n + 1 \in 1 .. n + 1 /\ (n + 1) - 1 = n
      BY <1>1
    <2> QED
      BY <1>3, <2>1
  <1>7. Chain(t, d)
    BY <1>1, <1>2, <1>4, <1>5, <1>6 DEF Chain
  <1> QED
    BY <1>3, <1>7 DEF t

\* The innermost caller goes on: it waits for the statement at x.
LEMMA ChainOn ==
  ASSUME NEW c, Stack(c), c # <<>>, NEW b, Chain(c, b), NEW x \in 1 .. EndOfFile,
         NEW t, Len(t) = Len(c), \A i \in 2 .. Len(c) : t[i] = c[i], FrameFits(t[1], b[1], x)
  PROVE  \E d : Chain(t, d) /\ d[0] = x
  <1> DEFINE n == Len(c)
             d == [b EXCEPT ![0] = x]
  <1>1. n \in Nat /\ n >= 1
    BY StackOf
  <1>2. /\ b \in [0 .. n -> 1 .. EndOfFile] /\ b[n] \in CodeEnds[1].all
        /\ \A k \in 1 .. n : b[k] \in 1 .. Len(tokens) /\ FrameFits(c[k], b[k], b[k - 1])
    BY DEF Chain
  <1>3. d \in [0 .. n -> 1 .. EndOfFile] /\ d[0] = x /\ \A k \in 1 .. n : d[k] = b[k]
    <2> HIDE DEF n
    <2> QED
      BY <1>1, <1>2
  <1> HIDE DEF n, d
  <1>4. \A k \in 1 .. n : d[k] \in 1 .. Len(tokens) /\ FrameFits(t[k], d[k], d[k - 1])
    <2> TAKE k \in 1 .. n
    <2>1. CASE k = 1
      <3>1. d[1] = b[1] /\ d[1 - 1] = x /\ b[1] \in 1 .. Len(tokens)
        BY <1>1, <1>2, <1>3
      <3> QED
        BY <2>1, <3>1
    <2>2. CASE k # 1
      <3>1. k \in 2 .. n /\ k - 1 \in 1 .. n
        BY <1>1, <2>2
      <3>2. d[k] = b[k] /\ d[k - 1] = b[k - 1] /\ t[k] = c[k]
        BY <1>3, <3>1 DEF n
      <3> QED
        BY <1>2, <3>2
    <2> QED
      BY <2>1, <2>2
  <1>5. d[n] = b[n]
    BY <1>1, <1>3
  <1>6. Chain(t, d)
    BY <1>2, <1>3, <1>4, <1>5 DEF Chain, n
  <1> QED
    BY <1>3, <1>6

\* The innermost caller.
LEMMA ChainHead ==
  ASSUME NEW c, Stack(c), c # <<>>, NEW b, Chain(c, b)
  PROVE  b[0] \in 1 .. EndOfFile /\ b[1] \in 1 .. Len(tokens) /\ FrameFits(c[1], b[1], b[0])
  <1>1. Len(c) \in Nat /\ Len(c) >= 1
    BY StackOf
  <1>2. 0 \in 0 .. Len(c) /\ 1 \in 1 .. Len(c) /\ 1 - 1 = 0
    BY <1>1
  <1> QED
    BY <1>2 DEF Chain

LEMMA LastAfter ==
  ASSUME Source, NEW k \in 1 .. EndOfFile, NEW p \in LastEnds(CodeEnds, k)
  PROVE  p \in k .. EndOfFile /\ (p # EndOfFile => p \in CodeEnds[k].one)
  <1>1. EndOfFile \in Nat /\ CodeEnds[k].one \subseteq k + 1 .. EndOfFile
    BY TokenThere, EndsAre
  <1>2. p \in CodeEnds[k].one \/ (p = k /\ p = EndOfFile)
    BY DEF LastEnds
  <1> QED
    BY <1>1, <1>2

\* A statement, or the end of the file, after statements.
LEMMA OneMoreAt ==
  ASSUME Source, NEW i \in 1 .. EndOfFile, NEW k \in CodeEnds[i].all, NEW p \in LastEnds(CodeEnds, k)
  PROVE  p \in CodeEnds[i].all /\ p \in i .. EndOfFile
  <1>1. k \in i .. EndOfFile /\ CodeEnds[k].one \subseteq CodeEnds[i].all
    BY OneMore
  <1>2. p \in CodeEnds[i].all
    BY <1>1 DEF LastEnds
  <1> QED
    BY <1>2, OneMore

\* The parts of a statement at i are behind its first word.
LEMMA PartsBehind ==
  ASSUME Source, NEW i \in 1 .. Len(tokens)
  PROVE  /\ \A k \in CodeThens(i) : k \in i + 1 .. Len(tokens) /\ k + 1 \in 1 .. EndOfFile
         /\ \A m \in Headers(i) : m \in i + 1 .. EndOfFile /\ m \in 1 .. EndOfFile
         /\ \A k \in CodeElses(CodeEnds, i) : k \in i + 1 .. Len(tokens) /\ k + 1 \in 1 .. EndOfFile
  <1>1. Len(tokens) \in Nat /\ EndOfFile = Len(tokens) + 1 /\ i \in Nat
    BY DEF Source, EndOfFile
  <1>2. \A k \in CodeThens(i) : k \in i + 1 .. Len(tokens) /\ k + 1 \in 1 .. EndOfFile
    BY <1>1 DEF CodeThens
  <1>3. \A m \in Headers(i) : m \in i + 1 .. EndOfFile /\ m \in 1 .. EndOfFile
    BY <1>1 DEF Headers
  <1>4. ASSUME NEW k \in CodeElses(CodeEnds, i) PROVE k \in i + 1 .. Len(tokens) /\ k + 1 \in 1 .. EndOfFile
    <2>1. PICK t \in CodeThens(i) : k \in CodeEnds[t + 1].one
      BY DEF CodeElses
    <2>2. k < EndOfFile
      BY DEF CodeElses
    <2>3. t + 1 \in 1 .. EndOfFile /\ t \in i + 1 .. Len(tokens)
      BY <1>2
    <2>4. k \in (t + 1) + 1 .. EndOfFile
      BY <2>1, <2>3, EndsAre
    <2> QED
      BY <1>1, <2>2, <2>3, <2>4
  <1> QED
    BY <1>2, <1>3, <1>4

\* The statement that the innermost caller began is complete.
LEMMA Finished ==
  ASSUME Source, NEW c, Stack(c), c # <<>>, NEW b, Chain(c, b), NEW p \in CodeStatementEnds(CodeEnds, b[1]), NEW h
  PROVE  GrammarAt(p, Tail(c), "returned", h)
  <1>1. b[1] \in 1 .. EndOfFile
    BY ChainHead DEF EndOfFile, Source
  <1>2. p \in CodeEnds[b[1]].one
    BY <1>1, EndsAre
  <1>3. PICK d : Chain(Tail(c), d) /\ d[0] = b[1]
    BY ChainPop
  <1>4. CursorAt(p, "returned", d[0])
    BY <1>2, <1>3 DEF CursorAt, LastEnds
  <1> QED
    BY <1>3, <1>4 DEF GrammarAt

\* A statement without statements in it has been parsed.
LEMMA Simple ==
  ASSUME Source, NEW c, NEW b, Chain(c, b), NEW p \in CodeStatementEnds(CodeEnds, b[0]), NEW h,
         b[0] \in 1 .. EndOfFile
  PROVE  GrammarAt(p, c, "returned", h)
  <1>1. p \in CodeEnds[b[0]].one
    BY EndsAre
  <1>2. CursorAt(p, "returned", b[0])
    BY <1>1 DEF CursorAt, LastEnds
  <1> QED
    BY <1>2 DEF GrammarAt

\* statement() is called from a new frame.
LEMMA Calls ==
  ASSUME Source, NEW c, Stack(c), NEW b, Chain(c, b), NEW f, FrameTyped(f), NEW x \in 1 .. EndOfFile,
         b[0] \in 1 .. Len(tokens), FrameFits(f, b[0], x), NEW m \in {"statement", "body"}, NEW h
  PROVE  GrammarAt(x, <<f>> \o c, m, h)
  <1>1. PICK d : Chain(<<f>> \o c, d) /\ d[0] = x
    BY ChainPush
  <1>2. CursorAt(x, m, d[0])
    BY <1>1 DEF CursorAt
  <1> QED
    BY <1>1, <1>2 DEF GrammarAt

\* A frame goes on to the next statement.
LEMMA GoesOn ==
  ASSUME NEW c, Stack(c), c # <<>>, NEW b, Chain(c, b), NEW x \in 1 .. EndOfFile,
         NEW t, Len(t) = Len(c), \A i \in 2 .. Len(c) : t[i] = c[i], FrameFits(t[1], b[1], x),
         NEW m \in {"statement", "body"}, NEW h
  PROVE  GrammarAt(x, t, m, h)
  <1>1. PICK d : Chain(t, d) /\ d[0] = x
    BY ChainOn
  <1>2. CursorAt(x, m, d[0])
    BY <1>1 DEF CursorAt
  <1> QED
    BY <1>1, <1>2 DEF GrammarAt

\* What a step makes of the grammar.
GrammarOn == GrammarAt(pos', calls', mode', hadError')

Errs == hadError' = TRUE \/ mode' = "crashed"

LEMMA Vacuous ==
  ASSUME Errs
  PROVE  GrammarOn
  BY DEF Errs, GrammarOn, GrammarAt

LEMMA Standing ==
  ASSUME TypeInv, GrammarInv, ~hadError, mode # "crashed"
  PROVE  \E b : Chain(calls, b) /\ CursorAt(pos, mode, b[0]) /\ b[0] \in 1 .. EndOfFile
  <1>1. PICK b : Chain(calls, b) /\ CursorAt(pos, mode, b[0])
    BY DEF GrammarInv, GrammarAt
  <1>2. Len(calls) \in Nat
    BY StackOf DEF TypeInv
  <1>3. b[0] \in 1 .. EndOfFile
    BY <1>1, <1>2 DEF Chain
  <1> QED
    BY <1>1, <1>3

\* A statement begins at pos.
LEMMA Beginning ==
  ASSUME TypeInv, GrammarInv, NEW ts, At(ts), "EOF" \notin ts, ~hadError
  PROVE  /\ \E b : Chain(calls, b) /\ b[0] = pos
         /\ pos \in 1 .. Len(tokens) /\ pos \in 1 .. EndOfFile /\ pos + 1 \in 1 .. EndOfFile /\ tokens[pos] \in ts
         /\ Source /\ Stack(calls) /\ EndOfFile = Len(tokens) + 1 /\ Len(tokens) \in Nat
  <1>1. /\ mode = "statement" /\ Token(pos) \in ts /\ Source /\ pos \in 1 .. Len(tokens) /\ pos + 1 \in 1 .. EndOfFile
        /\ pos \in 1 .. EndOfFile /\ Token(pos) = tokens[pos]
    BY Begun
  <1>2. PICK b : Chain(calls, b) /\ CursorAt(pos, mode, b[0]) /\ b[0] \in 1 .. EndOfFile
    BY <1>1, Standing
  <1>3. b[0] = pos
    BY <1>1, <1>2 DEF CursorAt
  <1> QED
    BY <1>1, <1>2, <1>3, TokenThere DEF TypeInv

LEMMA GrammarAtEnd ==
  ASSUME TypeInv, GrammarInv, ParseEndOfFile, ~Errs
  PROVE  GrammarOn
  <1>1. /\ mode = "statement" /\ Token(pos) = "EOF" /\ pos' = pos /\ mode' = "returned"
        /\ hadError' = (hadError \/ FALSE) /\ calls' = calls
    BY DEF ParseEndOfFile, At, Return, Result
  <1>2. PICK b : Chain(calls, b) /\ CursorAt(pos, mode, b[0]) /\ b[0] \in 1 .. EndOfFile
    BY <1>1, Standing DEF Errs, TypeInv
  <1>3. pos = b[0] /\ pos = EndOfFile
    BY <1>1, <1>2, TokenThere DEF CursorAt, TypeInv
  <1>4. CursorAt(pos, "returned", b[0])
    BY <1>3 DEF CursorAt, LastEnds
  <1> QED
    BY <1>1, <1>2, <1>4 DEF GrammarOn, GrammarAt

LEMMA GrammarAssign ==
  ASSUME TypeInv, GrammarInv, ParseAssign, ~Errs
  PROVE  GrammarOn
  <1>1. /\ At(Variables) /\ calls' = calls /\ pos' = Assign(pos).pos /\ mode' = "returned"
        /\ hadError' = (hadError \/ Assign(pos).err)
    BY DEF ParseAssign, Return
  <1>2. ~hadError /\ ~Assign(pos).err
    BY <1>1 DEF Errs
  <1>3. /\ \E b : Chain(calls, b) /\ b[0] = pos
        /\ pos \in 1 .. EndOfFile /\ Source
    BY <1>1, <1>2, FirstWords, Beginning
  <1>4. Assign(pos).pos \in pos .. EndOfFile /\ Assign(pos).pos > pos /\ IsAssign(pos, Assign(pos).pos)
    BY <1>2, <1>3, AssignOn DEF Onward
  <1>5. Assign(pos).pos \in CodeStatementEnds(CodeEnds, pos)
    <2>1. Assign(pos).pos \in pos + 1 .. EndOfFile
      BY <1>3, <1>4, TokenThere
    <2> QED
      BY <1>4, <2>1 DEF CodeStatementEnds
  <1> QED
    BY <1>1, <1>3, <1>5, Simple DEF GrammarOn

LEMMA GrammarKeyword ==
  ASSUME TypeInv, GrammarInv, ParseKeyword, ~Errs
  PROVE  GrammarOn
  <1> DEFINE k == PastIncludes(pos)
             r == Keyword(k)
  <1>1. At(Keywords \ {"IF", "DO", "FOR"}) /\ calls' = calls
    BY DEF ParseKeyword
  <1>2. CASE Return(r, r.node)
    <2>1. pos' = r.pos /\ mode' = "returned" /\ hadError' = (hadError \/ r.err)
      BY <1>2 DEF Return
    <2>2. ~hadError /\ ~r.err
      BY <2>1 DEF Errs
    <2>3. /\ \E b : Chain(calls, b) /\ b[0] = pos
          /\ pos \in 1 .. EndOfFile /\ Source
      BY <1>1, <2>2, FirstWords, Beginning
    <2>4. CodeKeywordStatement(pos, r.pos) /\ r.pos \in pos + 1 .. EndOfFile
      BY <2>2, <2>3, KeywordStatement
    <2>5. r.pos \in CodeStatementEnds(CodeEnds, pos)
      BY <2>4 DEF CodeStatementEnds
    <2> HIDE DEF r
    <2> QED
      BY <1>1, <2>1, <2>3, <2>5, Simple DEF GrammarOn
  <1>3. CASE Return(Failed(k), NULL)
    BY <1>3 DEF Return, Failed, Result, Errs
  <1>4. CASE mode' = "crashed"
    BY <1>4 DEF Errs
  <1> QED
    BY <1>2, <1>3, <1>4 DEF ParseKeyword

LEMMA GrammarLabel ==
  ASSUME TypeInv, GrammarInv, ParseLabel, ~Errs
  PROVE  GrammarOn
  <1> DEFINE f == [fn |-> "label", kids |-> <<Leaf(Token(pos))>>]
  <1>1. /\ At(LabelNames) /\ calls' = <<f>> \o calls /\ pos' = pos + 1 /\ mode' = mode
        /\ hadError' = (hadError \/ FALSE)
    BY DEF ParseLabel, Await, Result
  <1>2. mode = "statement" /\ ~hadError
    BY <1>1 DEF At, Errs, TypeInv
  <1>3. PICK b : Chain(calls, b) /\ b[0] = pos
    BY <1>1, <1>2, FirstWords, Beginning
  <1>4. /\ pos \in 1 .. Len(tokens) /\ pos + 1 \in 1 .. EndOfFile /\ tokens[pos] \in LabelNames /\ Source /\ Stack(calls)
        /\ Token(pos) = tokens[pos]
    BY <1>1, <1>2, FirstWords, Beginning, Begun
  <1>5. f.fn = "label" /\ f.kids[1].op = tokens[pos] /\ f = [fn |-> f.fn, kids |-> f.kids]
    BY <1>4 DEF Leaf, Node
  <1> HIDE DEF f
  <1>6. FrameTyped(f) /\ FrameFits(f, pos, pos + 1)
    BY <1>4, <1>5 DEF FrameTyped, FrameFits, Fn
  <1> QED
    BY <1>1, <1>2, <1>3, <1>4, <1>6, Calls DEF GrammarOn

LEMMA GrammarIf ==
  ASSUME TypeInv, GrammarInv, ParseIf, ~Errs
  PROVE  GrammarOn
  <1> DEFINE cond == BooleanExpr(pos + 1)
             f == [fn |-> "then", kids |-> <<cond.node>>]
  <1>1. At({"IF"})
    BY DEF ParseIf
  <1>2. CASE Token(cond.pos) = "THEN" /\ Await(f, Result(cond.pos + 1, cond.node, cond.err)) /\ UNCHANGED mode
    <2>1. /\ calls' = <<f>> \o calls /\ pos' = cond.pos + 1 /\ mode' = mode /\ hadError' = (hadError \/ cond.err)
      BY <1>2 DEF Await, Result
    <2>2. mode = "statement" /\ ~hadError /\ ~cond.err
      BY <1>1, <2>1 DEF At, Errs
    <2>3. PICK b : Chain(calls, b) /\ b[0] = pos
      BY <1>1, <2>2, Beginning
    <2>4. /\ pos \in 1 .. Len(tokens) /\ pos + 1 \in 1 .. EndOfFile /\ tokens[pos] = "IF" /\ Source /\ Stack(calls)
          /\ EndOfFile = Len(tokens) + 1 /\ Len(tokens) \in Nat
      BY <1>1, <2>2, Beginning
    <2>5. cond.pos \in pos + 1 .. EndOfFile /\ CodeBoolean(pos + 1, cond.pos)
      BY <2>2, <2>4, BooleanExprOn DEF Onward
    <2>6. FrameTyped(f) /\ f.fn = "then"
      BY DEF FrameTyped, Fn
    <2> HIDE DEF cond, f
    <2>7. cond.pos \in 1 .. EndOfFile /\ Token(cond.pos) # "EOF"
      BY <1>2, <2>4, <2>5
    <2>8. /\ cond.pos \in pos + 1 .. Len(tokens) /\ cond.pos + 1 \in 1 .. EndOfFile
          /\ tokens[cond.pos] = "THEN"
      BY <1>2, <2>4, <2>5, <2>7, TokenThere
    <2>9. cond.pos \in CodeThens(pos)
      BY <2>5, <2>8 DEF CodeThens
    <2>10. FrameFits(f, pos, cond.pos + 1)
      BY <2>4, <2>6, <2>9 DEF FrameFits
    <2> QED
      BY <2>1, <2>2, <2>3, <2>4, <2>6, <2>8, <2>10, Calls DEF GrammarOn
  <1>3. CASE Return(Failed(cond.pos), NULL)
    BY <1>3 DEF Return, Failed, Result, Errs
  <1> QED
    BY <1>2, <1>3 DEF ParseIf

LEMMA GrammarDo ==
  ASSUME TypeInv, GrammarInv, ParseDo, ~Errs
  PROVE  GrammarOn
  <1> DEFINE f == [fn |-> "do", kids |-> <<>>]
  <1>1. /\ At({"DO"}) /\ calls' = <<f>> \o calls /\ pos' = pos + 1 /\ mode' = "body"
        /\ hadError' = (hadError \/ FALSE)
    BY DEF ParseDo, Await, Result
  <1>2. ~hadError
    BY <1>1 DEF Errs, TypeInv
  <1>3. PICK b : Chain(calls, b) /\ b[0] = pos
    BY <1>1, <1>2, Beginning
  <1>4. pos \in 1 .. Len(tokens) /\ pos + 1 \in 1 .. EndOfFile /\ tokens[pos] = "DO" /\ Source /\ Stack(calls)
    BY <1>1, <1>2, Beginning
  <1>5. pos + 1 \in CodeEnds[pos + 1].all
    BY <1>4, EndsAre
  <1>6. FrameTyped(f) /\ f.fn = "do"
    BY DEF FrameTyped, Fn
  <1> HIDE DEF f
  <1>7. FrameFits(f, pos, pos + 1)
    BY <1>4, <1>5, <1>6 DEF FrameFits
  <1> QED
    BY <1>1, <1>3, <1>4, <1>6, <1>7, Calls DEF GrammarOn

LEMMA GrammarFor ==
  ASSUME TypeInv, GrammarInv, ParseFor, ~Errs
  PROVE  GrammarOn
  <1> DEFINE init == Assign(pos + 1)
             to   == Expr(init.pos + 1)
             f    == [fn |-> "for", kids |-> <<init.node, to.node>>]
  <1>1. At({"FOR"})
    BY DEF ParseFor
  <1>2. CASE /\ Token(pos + 1) \in NumericVariables /\ Token(init.pos) = "TO"
             /\ Await(f, Result(to.pos, to.node, to.err \/ init.err)) /\ mode' = "body"
    <2>1. /\ calls' = <<f>> \o calls /\ pos' = to.pos /\ mode' = "body"
          /\ hadError' = (hadError \/ to.err \/ init.err)
      BY <1>2 DEF Await, Result
    <2>2. ~hadError /\ ~to.err /\ ~init.err
      BY <2>1 DEF Errs
    <2>3. PICK b : Chain(calls, b) /\ b[0] = pos
      BY <1>1, <2>2, Beginning
    <2>4. /\ pos \in 1 .. Len(tokens) /\ pos + 1 \in 1 .. EndOfFile /\ tokens[pos] = "FOR" /\ Source /\ Stack(calls)
          /\ EndOfFile = Len(tokens) + 1 /\ Len(tokens) \in Nat
      BY <1>1, <2>2, Beginning
    <2>5. /\ init.pos \in pos + 1 .. EndOfFile /\ init.pos > pos + 1 /\ IsAssign(pos + 1, init.pos)
          /\ init.node.kids[1] = Leaf(tokens[pos + 1])
      BY <2>2, <2>4, AssignOn DEF Onward
    <2>6. FrameTyped(f) /\ f.fn = "for" /\ f.kids = <<init.node, to.node>>
      BY DEF FrameTyped, Fn
    <2>7. f.kids # <<>> /\ (\E S : f.kids \in Seq(S)) /\ f.kids[1] = init.node
      <3>1. <<init.node, to.node>> \in Seq({init.node, to.node}) /\ <<init.node, to.node>> # <<>>
        OBVIOUS
      <3> QED
        BY <2>6, <3>1
    <2> HIDE DEF init, f
    <2>8. init.pos \in 1 .. EndOfFile /\ Token(init.pos) # "EOF" /\ "EOF" \notin NumericVariables
      BY <1>2, <2>4, <2>5, FirstWords DEF Variables
    <2>9. init.pos \in pos + 1 .. Len(tokens) /\ init.pos + 1 \in 1 .. EndOfFile /\ tokens[init.pos] = "TO"
      BY <1>2, <2>4, <2>5, <2>8, TokenThere
    <2>10. tokens[pos + 1] \in NumericVariables
      BY <1>2, <2>4, <2>8, TokenThere
    <2>11. to.pos \in init.pos + 1 .. EndOfFile /\ to.pos > init.pos + 1 /\ IsExpr(init.pos + 1, to.pos)
      BY <2>2, <2>4, <2>9, ExprOn DEF Onward
    <2> HIDE DEF to
    <2>12. to.pos \in pos + 1 .. EndOfFile /\ to.pos \in 1 .. EndOfFile /\ init.pos \in pos + 1 .. to.pos - 1
      BY <2>4, <2>9, <2>11, SMTT(20)
    <2>13. to.pos \in Headers(pos)
      BY <2>5, <2>9, <2>11, <2>12 DEF Headers
    <2>14. to.pos \in CodeEnds[to.pos].all
      BY <2>4, <2>12, EndsAre
    <2>15. FrameFits(f, pos, to.pos)
      BY <2>4, <2>5, <2>6, <2>7, <2>10, <2>13, <2>14 DEF FrameFits
    <2> QED
      BY <2>1, <2>3, <2>4, <2>6, <2>12, <2>15, Calls DEF GrammarOn
  <1>3. CASE Return(Failed(pos + 1), NULL)
    BY <1>3 DEF Return, Failed, Result, Errs
  <1>4. CASE Return(Failed(init.pos), NULL)
    BY <1>4 DEF Return, Failed, Result, Errs
  <1> QED
    BY <1>2, <1>3, <1>4 DEF ParseFor

\* statement() has returned to fn, which began a statement at b[1].
LEMMA BackTo ==
  ASSUME TypeInv, GrammarInv, NEW fn \in Fn, Returned(fn), ~hadError
  PROVE  /\ \E b : /\ Chain(calls, b) /\ b[1] \in 1 .. Len(tokens) /\ b[0] \in 1 .. EndOfFile
                   /\ FrameFits(calls[1], b[1], b[0]) /\ pos \in LastEnds(CodeEnds, b[0])
                   /\ pos \in b[0] .. EndOfFile /\ (pos # EndOfFile => pos \in CodeEnds[b[0]].one)
         /\ calls[1].fn = fn /\ Head(calls) = calls[1] /\ Stack(calls) /\ calls # <<>> /\ Source
         /\ FrameTyped(calls[1]) /\ mode = "returned"
  <1>1. /\ mode = "returned" /\ calls[1].fn = fn /\ Head(calls) = calls[1] /\ Stack(calls) /\ calls # <<>> /\ Source
        /\ FrameTyped(calls[1])
    BY Back DEF TypeInv
  <1>2. PICK b : Chain(calls, b) /\ CursorAt(pos, mode, b[0]) /\ b[0] \in 1 .. EndOfFile
    BY <1>1, Standing
  <1>3. pos \in LastEnds(CodeEnds, b[0])
    BY <1>1, <1>2 DEF CursorAt
  <1>4. pos \in b[0] .. EndOfFile /\ (pos # EndOfFile => pos \in CodeEnds[b[0]].one)
    BY <1>1, <1>2, <1>3, LastAfter
  <1>5. b[1] \in 1 .. Len(tokens) /\ FrameFits(calls[1], b[1], b[0])
    BY <1>1, <1>2, ChainHead
  <1> QED
    BY <1>1, <1>2, <1>3, <1>4, <1>5

LEMMA GrammarBackToLabel ==
  ASSUME TypeInv, GrammarInv, ReturnToLabel, ~Errs
  PROVE  GrammarOn
  <1>1. Returned("label") /\ calls' = Tail(calls) /\ pos' = pos /\ mode' = mode /\ hadError' = hadError
    BY DEF ReturnToLabel
  <1>2. ~hadError
    BY <1>1 DEF Errs, TypeInv
  <1>3. /\ calls[1].fn = "label" /\ Stack(calls) /\ calls # <<>> /\ Source /\ mode = "returned"
    BY <1>1, <1>2, BackTo DEF Fn
  <1>4. PICK b : /\ Chain(calls, b) /\ b[1] \in 1 .. Len(tokens) /\ b[0] \in 1 .. EndOfFile
                 /\ FrameFits(calls[1], b[1], b[0]) /\ pos \in LastEnds(CodeEnds, b[0]) /\ pos \in b[0] .. EndOfFile
    BY <1>1, <1>2, BackTo DEF Fn
  <1>5. tokens[b[1]] \in LabelNames /\ b[0] = b[1] + 1
    BY <1>3, <1>4 DEF FrameFits
  <1>6. pos \in CodeStatementEnds(CodeEnds, b[1])
    BY <1>4, <1>5 DEF CodeStatementEnds
  <1> QED
    BY <1>1, <1>3, <1>4, <1>6, Finished DEF GrammarOn

LEMMA GrammarBackToThen ==
  ASSUME TypeInv, GrammarInv, ReturnToThen, ~Errs
  PROVE  GrammarOn
  <1>1. Returned("then") /\ hadError' = hadError
    BY DEF ReturnToThen
  <1>2. ~hadError
    BY <1>1 DEF Errs, TypeInv
  <1>3. /\ calls[1].fn = "then" /\ Head(calls) = calls[1] /\ Stack(calls) /\ calls # <<>> /\ Source /\ mode = "returned"
    BY <1>1, <1>2, BackTo DEF Fn
  <1>4. PICK b : /\ Chain(calls, b) /\ b[1] \in 1 .. Len(tokens) /\ b[0] \in 1 .. EndOfFile
                 /\ FrameFits(calls[1], b[1], b[0]) /\ pos \in LastEnds(CodeEnds, b[0]) /\ pos \in b[0] .. EndOfFile
                 /\ (pos # EndOfFile => pos \in CodeEnds[b[0]].one)
    BY <1>1, <1>2, BackTo DEF Fn
  <1>5. PICK t \in CodeThens(b[1]) : b[0] = t + 1
    BY <1>3, <1>4 DEF FrameFits
  <1>6. tokens[b[1]] = "IF"
    BY <1>3, <1>4 DEF FrameFits
  <1>7. /\ t \in b[1] + 1 .. Len(tokens) /\ Len(tokens) \in Nat /\ EndOfFile = Len(tokens) + 1
    BY <1>3, <1>4, <1>5, PartsBehind DEF Source, EndOfFile
  <1> DEFINE f == [fn |-> "else", kids |-> Append(calls[1].kids, ret)]
  <1>8. CASE TakesElse /\ calls' = <<f>> \o Tail(calls) /\ pos' = pos + 1 /\ mode' = "statement"
    <2>1. pos \in 1 .. EndOfFile /\ Token(pos) = "ELSE"
      BY <1>8 DEF TakesElse, TypeInv
    <2>2. pos \in 1 .. Len(tokens) /\ pos + 1 \in 1 .. EndOfFile /\ tokens[pos] = "ELSE" /\ pos # EndOfFile
      BY <1>3, <1>7, <2>1, TokenThere
    <2>3. pos \in CodeElses(CodeEnds, b[1])
      BY <1>4, <1>5, <1>7, <2>2 DEF CodeElses
    <2>4. FrameTyped(f) /\ f.fn = "else"
      BY DEF FrameTyped, Fn
    <2> HIDE DEF f
    <2>5. /\ Len(calls') = Len(calls) /\ calls'[1] = f /\ \A i \in 2 .. Len(calls) : calls'[i] = calls[i]
      BY <1>3, <1>8, <2>4, Replaced
    <2>6. FrameFits(calls'[1], b[1], pos + 1)
      BY <1>6, <2>3, <2>4, <2>5 DEF FrameFits
    <2> QED
      BY <1>3, <1>4, <1>8, <2>2, <2>5, <2>6, GoesOn DEF GrammarOn
  <1>9. CASE calls' = Tail(calls) /\ UNCHANGED <<pos, mode>>
    <2>1. pos \in CodeStatementEnds(CodeEnds, b[1])
      BY <1>4, <1>5, <1>6, <1>7 DEF CodeStatementEnds
    <2> QED
      BY <1>3, <1>4, <1>9, <2>1, Finished DEF GrammarOn
  <1> QED
    BY <1>3, <1>8, <1>9 DEF ReturnToThen

LEMMA GrammarBackToElse ==
  ASSUME TypeInv, GrammarInv, ReturnToElse, ~Errs
  PROVE  GrammarOn
  <1>1. Returned("else") /\ calls' = Tail(calls) /\ pos' = pos /\ mode' = mode /\ hadError' = hadError
    BY DEF ReturnToElse
  <1>2. ~hadError
    BY <1>1 DEF Errs, TypeInv
  <1>3. /\ calls[1].fn = "else" /\ Stack(calls) /\ calls # <<>> /\ Source /\ mode = "returned"
    BY <1>1, <1>2, BackTo DEF Fn
  <1>4. PICK b : /\ Chain(calls, b) /\ b[1] \in 1 .. Len(tokens) /\ b[0] \in 1 .. EndOfFile
                 /\ FrameFits(calls[1], b[1], b[0]) /\ pos \in LastEnds(CodeEnds, b[0]) /\ pos \in b[0] .. EndOfFile
    BY <1>1, <1>2, BackTo DEF Fn
  <1>5. PICK e \in CodeElses(CodeEnds, b[1]) : b[0] = e + 1
    BY <1>3, <1>4 DEF FrameFits
  <1>6. tokens[b[1]] = "IF"
    BY <1>3, <1>4 DEF FrameFits
  <1>7. /\ e \in b[1] + 1 .. Len(tokens) /\ Len(tokens) \in Nat /\ EndOfFile = Len(tokens) + 1
    BY <1>3, <1>4, <1>5, PartsBehind DEF Source, EndOfFile
  <1>8. pos \in CodeStatementEnds(CodeEnds, b[1])
    BY <1>4, <1>5, <1>6, <1>7 DEF CodeStatementEnds
  <1> QED
    BY <1>1, <1>3, <1>4, <1>8, Finished DEF GrammarOn

\* One more statement in a body.
LEMMA GrammarBackToBody ==
  ASSUME TypeInv, GrammarInv, ReturnToBody, ~Errs
  PROVE  GrammarOn
  <1> DEFINE kids == Append(calls[1].kids, ret)
  <1>1. PICK fn \in {"do", "for"} : Returned(fn)
    BY DEF ReturnToBody
  <1>2. calls' = [calls EXCEPT ![1].kids = kids] /\ mode' = "body" /\ pos' = pos /\ hadError' = hadError
    BY DEF ReturnToBody
  <1>3. ~hadError
    BY <1>2 DEF Errs, TypeInv
  <1>4. /\ calls[1].fn = fn /\ Stack(calls) /\ calls # <<>> /\ Source
    BY <1>1, <1>3, BackTo DEF Fn
  <1>5. PICK b : /\ Chain(calls, b) /\ b[1] \in 1 .. Len(tokens) /\ b[0] \in 1 .. EndOfFile
                 /\ FrameFits(calls[1], b[1], b[0]) /\ pos \in LastEnds(CodeEnds, b[0]) /\ pos \in b[0] .. EndOfFile
    BY <1>1, <1>3, BackTo DEF Fn
  <1> HIDE DEF kids
  <1>6. /\ Len(calls') = Len(calls) /\ calls'[1].fn = fn /\ calls'[1].kids = kids
        /\ \A i \in 2 .. Len(calls) : calls'[i] = calls[i]
    BY <1>2, <1>4, Grown
  <1>7. pos \in 1 .. EndOfFile /\ b[1] + 1 \in 1 .. EndOfFile
    BY <1>4, <1>5 DEF TypeInv, Source, EndOfFile
  <1>8. FrameFits(calls'[1], b[1], pos)
    <2>1. CASE fn = "do"
      <3>1. tokens[b[1]] = "DO" /\ b[0] \in CodeEnds[b[1] + 1].all
        BY <1>4, <1>5, <2>1 DEF FrameFits
      <3>2. pos \in CodeEnds[b[1] + 1].all
        BY <1>4, <1>5, <1>7, <3>1, OneMoreAt
      <3> QED
        BY <1>6, <2>1, <3>1, <3>2 DEF FrameFits
    <2>2. CASE fn = "for"
      <3>1. /\ tokens[b[1]] = "FOR" /\ tokens[b[1] + 1] \in NumericVariables
            /\ calls[1].kids # <<>> /\ (\E S : calls[1].kids \in Seq(S))
            /\ calls[1].kids[1].kids[1] = Leaf(tokens[b[1] + 1])
        BY <1>4, <1>5, <2>2 DEF FrameFits
      <3>2. PICK m \in Headers(b[1]) : b[0] \in CodeEnds[m].all
        BY <1>4, <1>5, <2>2 DEF FrameFits
      <3>3. m \in 1 .. EndOfFile
        BY <1>4, <1>5, PartsBehind
      <3>4. pos \in CodeEnds[m].all
        BY <1>4, <1>5, <3>2, <3>3, OneMoreAt
      <3>5. kids # <<>> /\ (\E S : kids \in Seq(S)) /\ kids[1] = calls[1].kids[1]
        <4>1. PICK S : calls[1].kids \in Seq(S)
          BY <3>1
        <4>2. calls[1].kids \in Seq(S \cup {ret}) /\ ret \in S \cup {ret}
          BY <4>1
        <4>3. /\ kids \in Seq(S \cup {ret}) /\ Len(kids) = Len(calls[1].kids) + 1
              /\ \A i \in 1 .. Len(calls[1].kids) : kids[i] = calls[1].kids[i]
          BY <4>2, AppendProperties DEF kids
        <4>4. Len(calls[1].kids) \in Nat /\ Len(calls[1].kids) >= 1
          BY <3>1, <4>1
        <4> QED
          BY <4>3, <4>4
      <3> QED
        BY <1>6, <2>2, <3>1, <3>2, <3>4, <3>5 DEF FrameFits
    <2> QED
      BY <2>1, <2>2
  <1> QED
    BY <1>2, <1>4, <1>5, <1>6, <1>7, <1>8, GoesOn DEF GrammarOn

\* A loop over the statements of a body, the next of which begins at pos.
LEMMA InsideOf ==
  ASSUME TypeInv, GrammarInv, NEW fn \in {"do", "for"}, InBody(fn), ~hadError
  PROVE  /\ \E b : Chain(calls, b) /\ b[1] \in 1 .. Len(tokens) /\ b[0] = pos /\ FrameFits(calls[1], b[1], pos)
         /\ calls[1].fn = fn /\ Head(calls) = calls[1] /\ Stack(calls) /\ calls # <<>> /\ Source
         /\ pos \in 1 .. EndOfFile /\ EndOfFile = Len(tokens) + 1 /\ Len(tokens) \in Nat
  <1>1. /\ mode = "body" /\ calls[1].fn = fn /\ Head(calls) = calls[1] /\ Stack(calls) /\ calls # <<>> /\ Source
        /\ pos \in 1 .. EndOfFile /\ EndOfFile = Len(tokens) + 1 /\ Len(tokens) \in Nat
    BY Inside, TokenThere DEF TypeInv
  <1>2. PICK b : Chain(calls, b) /\ CursorAt(pos, mode, b[0]) /\ b[0] \in 1 .. EndOfFile
    BY <1>1, Standing
  <1>3. b[0] = pos
    BY <1>1, <1>2 DEF CursorAt
  <1>4. b[1] \in 1 .. Len(tokens) /\ FrameFits(calls[1], b[1], b[0])
    BY <1>1, <1>2, ChainHead
  <1> QED
    BY <1>1, <1>2, <1>3, <1>4

LEMMA GrammarMore ==
  ASSUME TypeInv, GrammarInv, NEW fn \in {"do", "for"}, MoreBody(fn), ~Errs
  PROVE  GrammarOn
  <1>1. InBody(fn) /\ mode' = "statement" /\ UNCHANGED <<pos, calls, ret, hadError>>
    BY DEF MoreBody
  <1>2. ~hadError
    BY <1>1 DEF Errs, TypeInv
  <1>3. PICK b : Chain(calls, b) /\ b[0] = pos
    BY <1>1, <1>2, InsideOf
  <1>4. CursorAt(pos, "statement", b[0])
    BY <1>3 DEF CursorAt
  <1> QED
    BY <1>1, <1>3, <1>4 DEF GrammarOn, GrammarAt

LEMMA GrammarDone ==
  ASSUME TypeInv, GrammarInv, CloseDo, ~Errs
  PROVE  GrammarOn
  <1> DEFINE kids == Head(calls).kids
             cond == BooleanExpr(pos + 2)
  <1>1. InBody("do") /\ Token(pos) = "LOOP" /\ calls' = Tail(calls)
    BY DEF CloseDo
  <1>2. ASSUME ~hadError, Token(pos + 1) \in {"ENDLESS", "WHILE", "UNTIL"}
        PROVE  /\ \E b : Chain(calls, b) /\ b[1] \in 1 .. Len(tokens) /\ tokens[b[1]] = "DO" /\ pos \in Loops(CodeEnds, b[1])
                         /\ pos \in b[1] + 1 .. EndOfFile
               /\ pos + 2 \in 1 .. EndOfFile /\ tokens[pos + 1] = Token(pos + 1)
               /\ Stack(calls) /\ calls # <<>> /\ Source /\ Len(tokens) \in Nat /\ EndOfFile = Len(tokens) + 1
    <2>1. PICK b : Chain(calls, b) /\ b[1] \in 1 .. Len(tokens) /\ b[0] = pos /\ FrameFits(calls[1], b[1], pos)
      BY <1>1, <1>2, InsideOf
    <2>2. /\ calls[1].fn = "do" /\ Stack(calls) /\ calls # <<>> /\ Source
          /\ pos \in 1 .. EndOfFile /\ EndOfFile = Len(tokens) + 1 /\ Len(tokens) \in Nat
      BY <1>1, <1>2, InsideOf
    <2>3. tokens[b[1]] = "DO" /\ pos \in CodeEnds[b[1] + 1].all
      BY <2>1, <2>2 DEF FrameFits
    <2>4. b[1] + 1 \in 1 .. EndOfFile
      BY <2>1, <2>2
    <2>5. pos \in b[1] + 1 .. EndOfFile
      BY <2>2, <2>3, <2>4, OneMore
    <2>6. pos + 1 \in 1 .. EndOfFile /\ tokens[pos] = "LOOP"
      BY <1>1, <2>2, TokenThere
    <2>7. Token(pos + 1) # "EOF"
      BY <1>2
    <2>8. pos + 1 \in 1 .. Len(tokens) /\ tokens[pos + 1] = Token(pos + 1)
      BY <2>2, <2>6, <2>7, TokenThere
    <2>9. pos < Len(tokens) /\ pos + 2 \in 1 .. EndOfFile
      BY <2>2, <2>8
    <2>10. pos \in Loops(CodeEnds, b[1])
      BY <2>3, <2>6, <2>9 DEF Loops
    <2> QED
      BY <2>1, <2>2, <2>3, <2>5, <2>8, <2>9, <2>10
  <1>3. CASE Token(pos + 1) = "ENDLESS" /\ Return(Result(pos + 2, NULL, FALSE), Node("ENDLESS", <<NULL>> \o kids))
    <2>1. pos' = pos + 2 /\ mode' = "returned" /\ hadError' = (hadError \/ FALSE)
      BY <1>3 DEF Return, Result
    <2>2. ~hadError
      BY <2>1 DEF Errs, TypeInv
    <2>3. PICK b : Chain(calls, b) /\ b[1] \in 1 .. Len(tokens) /\ tokens[b[1]] = "DO" /\ pos \in Loops(CodeEnds, b[1])
                   /\ pos \in b[1] + 1 .. EndOfFile
      BY <1>2, <1>3, <2>2
    <2>4. /\ pos + 2 \in 1 .. EndOfFile /\ tokens[pos + 1] = "ENDLESS"
          /\ Stack(calls) /\ calls # <<>> /\ Source /\ Len(tokens) \in Nat /\ EndOfFile = Len(tokens) + 1
      BY <1>2, <1>3, <2>2
    <2>5. pos + 2 \in b[1] + 1 .. EndOfFile
      BY <2>3, <2>4
    <2>6. pos + 2 \in CodeStatementEnds(CodeEnds, b[1])
      BY <2>3, <2>4, <2>5 DEF CodeStatementEnds
    <2> QED
      BY <1>1, <2>1, <2>3, <2>4, <2>6, Finished DEF GrammarOn
  <1>4. CASE Token(pos + 1) \in {"WHILE", "UNTIL"} /\ Return(cond, Node(Token(pos + 1), <<cond.node>> \o kids))
    <2>1. pos' = cond.pos /\ mode' = "returned" /\ hadError' = (hadError \/ cond.err)
      BY <1>4 DEF Return
    <2>2. ~hadError /\ ~cond.err
      BY <2>1 DEF Errs
    <2>3. PICK b : Chain(calls, b) /\ b[1] \in 1 .. Len(tokens) /\ tokens[b[1]] = "DO" /\ pos \in Loops(CodeEnds, b[1])
                   /\ pos \in b[1] + 1 .. EndOfFile
      BY <1>2, <1>4, <2>2
    <2>4. /\ pos + 2 \in 1 .. EndOfFile /\ tokens[pos + 1] \in {"WHILE", "UNTIL"}
          /\ Stack(calls) /\ calls # <<>> /\ Source /\ Len(tokens) \in Nat /\ EndOfFile = Len(tokens) + 1
      BY <1>2, <1>4, <2>2
    <2>5. cond.pos \in pos + 2 .. EndOfFile /\ CodeBoolean(pos + 2, cond.pos)
      BY <2>2, <2>4, BooleanExprOn DEF Onward
    <2> HIDE DEF cond
    <2>6. cond.pos \in b[1] + 1 .. EndOfFile
      BY <2>3, <2>4, <2>5
    <2>7. cond.pos \in CodeStatementEnds(CodeEnds, b[1])
      BY <2>3, <2>4, <2>5, <2>6 DEF CodeStatementEnds
    <2> QED
      BY <1>1, <2>1, <2>3, <2>4, <2>7, Finished DEF GrammarOn
  <1>5. CASE Return(Result(pos + 1, NULL, TRUE), NULL)
    BY <1>5 DEF Return, Result, Errs
  <1> QED
    BY <1>3, <1>4, <1>5 DEF CloseDo

LEMMA GrammarNext ==
  ASSUME TypeInv, GrammarInv, CloseFor, ~Errs
  PROVE  GrammarOn
  <1> DEFINE kids == Head(calls).kids
             temp == Variable(pos + 1)
  <1>1. InBody("for") /\ Token(pos) = "NEXT" /\ calls' = Tail(calls)
    BY DEF CloseFor
  <1>2. temp.node # NULL /\ SameVariable(kids, temp.node) /\ Return(temp, Node("FOR", kids))
    <2>1. CASE temp.node = NULL
      BY <2>1 DEF CloseFor, Errs
    <2>2. CASE temp.node # NULL /\ ~SameVariable(kids, temp.node)
      <3>1. Return(Result(temp.pos, temp.node, TRUE), NULL)
        BY <2>2 DEF CloseFor
      <3> QED
        BY <3>1 DEF Return, Result, Errs
    <2>3. CASE temp.node # NULL /\ SameVariable(kids, temp.node)
      BY <2>3 DEF CloseFor
    <2> QED
      BY <2>1, <2>2, <2>3
  <1>3. pos' = temp.pos /\ mode' = "returned" /\ hadError' = (hadError \/ temp.err)
    BY <1>2 DEF Return
  <1>4. ~hadError /\ ~temp.err
    BY <1>3 DEF Errs
  <1>5. PICK b : Chain(calls, b) /\ b[1] \in 1 .. Len(tokens) /\ b[0] = pos /\ FrameFits(calls[1], b[1], pos)
    BY <1>1, <1>4, InsideOf
  <1>6. /\ calls[1].fn = "for" /\ Head(calls) = calls[1] /\ Stack(calls) /\ calls # <<>> /\ Source
        /\ pos \in 1 .. EndOfFile /\ EndOfFile = Len(tokens) + 1 /\ Len(tokens) \in Nat
    BY <1>1, <1>4, InsideOf
  <1>7. /\ tokens[b[1]] = "FOR" /\ tokens[b[1] + 1] \in NumericVariables
        /\ calls[1].kids[1].kids[1] = Leaf(tokens[b[1] + 1])
    BY <1>5, <1>6 DEF FrameFits
  <1>8. PICK m \in Headers(b[1]) : pos \in CodeEnds[m].all
    BY <1>5, <1>6 DEF FrameFits
  <1>9. m \in b[1] + 1 .. EndOfFile /\ m \in 1 .. EndOfFile
    BY <1>5, <1>6, PartsBehind
  <1>10. pos \in m .. EndOfFile
    BY <1>6, <1>8, <1>9, OneMore
  <1>11. pos + 1 \in 1 .. EndOfFile /\ tokens[pos] = "NEXT"
    BY <1>1, <1>6, TokenThere
  <1>12. /\ pos + 1 \in 1 .. Len(tokens) /\ temp.pos = (pos + 1) + 1 /\ temp.node = Leaf(tokens[pos + 1])
    BY <1>4, <1>6, <1>11, VariableOn
  <1>13. tokens[pos + 1] = tokens[b[1] + 1]
    <2>1. Leaf(tokens[b[1] + 1]) = Leaf(tokens[pos + 1])
      BY <1>2, <1>6, <1>7, <1>12 DEF SameVariable
    <2> QED
      BY <2>1 DEF Leaf, Node
  <1> HIDE DEF temp
  <1>14. pos < Len(tokens) /\ temp.pos = pos + 2 /\ pos + 2 \in b[1] + 1 .. EndOfFile
    BY <1>5, <1>6, <1>9, <1>10, <1>12
  <1>15. pos \in Nexts(CodeEnds, b[1])
    BY <1>8, <1>11, <1>14 DEF Nexts
  <1>16. pos + 2 \in CodeStatementEnds(CodeEnds, b[1])
    BY <1>7, <1>13, <1>14, <1>15 DEF CodeStatementEnds
  <1> QED
    BY <1>1, <1>3, <1>5, <1>6, <1>14, <1>16, Finished DEF GrammarOn

\* parse() links one more statement.
LEMMA GrammarTop ==
  ASSUME TypeInv, GrammarInv, ReturnToParse, ~Errs
  PROVE  GrammarOn
  <1>1. /\ mode = "returned" /\ calls = <<>> /\ mode' = (IF Token(pos) = "EOF" THEN "parsed" ELSE "statement")
        /\ UNCHANGED <<tokens, pos, calls, ret, hadError, labels>>
    BY DEF ReturnToParse
  <1>2. PICK b : Chain(calls, b) /\ CursorAt(pos, mode, b[0]) /\ b[0] \in 1 .. EndOfFile
    BY <1>1, Standing DEF Errs, TypeInv
  <1>3. Len(calls) = 0
    BY <1>1
  <1>4. b[0] \in CodeEnds[1].all /\ pos \in LastEnds(CodeEnds, b[0])
    BY <1>1, <1>2, <1>3 DEF Chain, CursorAt
  <1>5. 1 \in 1 .. EndOfFile /\ Source
    BY TokenThere DEF TypeInv
  <1>6. pos \in CodeEnds[1].all /\ pos \in 1 .. EndOfFile
    BY <1>4, <1>5, OneMoreAt
  <1> DEFINE d == [k \in 0 .. 0 |-> pos]
  <1>7. d \in [0 .. 0 -> 1 .. EndOfFile] /\ d[0] = pos
    BY <1>6
  <1> HIDE DEF d
  <1>8. Chain(calls, d)
    BY <1>3, <1>6, <1>7 DEF Chain
  <1>9. Token(pos) = "EOF" => pos = EndOfFile
    BY <1>5, <1>6, TokenThere
  <1>10. CursorAt(pos, mode', d[0])
    BY <1>1, <1>6, <1>7, <1>9 DEF CursorAt
  <1> QED
    BY <1>1, <1>8, <1>10 DEF GrammarOn, GrammarAt

LEMMA GrammarStep ==
  ASSUME TypeInv, GrammarInv, Next, vars' # vars
  PROVE  GrammarOn
  <1>1. CASE Errs
    BY <1>1, Vacuous
  <1>2. CASE ~Errs
    <2>1. CASE \/ ParseEndOfFile \/ ParseAssign \/ ParseKeyword \/ ParseLabel \/ ParseIf \/ ParseDo \/ ParseFor
      BY <1>2, <2>1, GrammarAtEnd, GrammarAssign, GrammarKeyword, GrammarLabel, GrammarIf, GrammarDo, GrammarFor
    <2>2. CASE \/ ReturnToLabel \/ ReturnToThen \/ ReturnToElse \/ ReturnToBody
               \/ (\E fn \in {"do", "for"} : MoreBody(fn)) \/ CloseDo \/ CloseFor \/ ReturnToParse
      BY <1>2, <2>2, GrammarBackToLabel, GrammarBackToThen, GrammarBackToElse, GrammarBackToBody, GrammarMore,
         GrammarDone, GrammarNext, GrammarTop
    <2>3. CASE ParseUnexpected \/ (\E fn \in {"do", "for"} : BodyAtEndOfFile(fn))
      BY <1>2, <2>3 DEF ParseUnexpected, BodyAtEndOfFile, Return, Failed, Result, Errs
    <2>4. ~Stop
      BY DEF Stop
    <2> QED
      BY <2>1, <2>2, <2>3, <2>4 DEF Next
  <1> QED
    BY <1>1, <1>2

LEMMA ParserTakesOnlyCode == Spec => []TakesOnlyCode
  <1>1. Init => TypeInv /\ GrammarInv
    <2> SUFFICES ASSUME Init PROVE TypeInv /\ GrammarInv
      OBVIOUS
    <2>1. TypeInv
      BY TypesAtFirst
    <2>2. 1 \in 1 .. EndOfFile /\ Source
      BY <2>1, TokenThere DEF TypeInv
    <2>3. 1 \in CodeEnds[1].all
      BY <2>2, EndsAre
    <2> DEFINE d == [k \in 0 .. 0 |-> 1]
    <2>4. d \in [0 .. 0 -> 1 .. EndOfFile] /\ d[0] = 1
      BY <2>2
    <2>5. calls = <<>> /\ Len(calls) = 0 /\ pos = 1 /\ mode = "statement"
      BY DEF Init
    <2> HIDE DEF d
    <2>6. Chain(calls, d)
      BY <2>3, <2>4, <2>5 DEF Chain
    <2>7. CursorAt(pos, mode, d[0])
      BY <2>4, <2>5 DEF CursorAt
    <2> QED
      BY <2>1, <2>6, <2>7 DEF GrammarInv, GrammarAt
  <1>2. TypeInv /\ GrammarInv /\ [Next]_vars => GrammarInv'
    <2> SUFFICES ASSUME TypeInv, GrammarInv, [Next]_vars PROVE GrammarInv'
      OBVIOUS
    <2>1. tokens' = tokens
      <3>1. CASE vars' = vars
        BY <3>1 DEF vars
      <3>2. CASE Next
        BY <3>2 DEF Next, ParseEndOfFile, ParseAssign, ParseKeyword, ParseUnexpected, ParseLabel, ParseIf, ParseDo,
           ParseFor, ReturnToLabel, ReturnToThen, ReturnToElse, ReturnToBody, MoreBody, BodyAtEndOfFile, CloseDo,
           CloseFor, ReturnToParse, Stop, At, Returned, InBody, vars
      <3> QED
        BY <3>1, <3>2
    <2>2. GrammarInv' <=> GrammarOn
      BY <2>1, SourceStays DEF GrammarInv, GrammarOn
    <2>3. CASE vars' = vars
      BY <2>2, <2>3 DEF vars, GrammarInv, GrammarOn
    <2>4. CASE Next /\ vars' # vars
      BY <2>2, <2>4, GrammarStep
    <2> QED
      BY <2>3, <2>4
  <1>3. GrammarInv => TakesOnlyCode
    <2> SUFFICES ASSUME GrammarInv, mode = "parsed", ~hadError PROVE CodeStatements(1, EndOfFile)
      BY DEF TakesOnlyCode, Parsed
    <2>1. PICK b : CursorAt(pos, mode, b[0])
      BY DEF GrammarInv, GrammarAt
    <2> QED
      BY <2>1 DEF CursorAt, CodeStatements
  <1> QED
    BY <1>1, <1>2, <1>3, TypesHold, PTL DEF Spec

-----------------------------------------------------------------------------
(***************************************************************************)
(* The functions take what the grammar means: a span of the grammar, with  *)
(* a token behind it that cannot go on with it, is taken to its end and    *)
(* without an error.                                                       *)
(***************************************************************************)

\* What was called took the tokens up to j.
Takes(r, j) == r.pos = j /\ r.err = FALSE

LEMMA OneOfTakes ==
  ASSUME Source, NEW p \in 1 .. Len(tokens), NEW ts, tokens[p] \in ts
  PROVE  Takes(OneOf(ts, p), p + 1)
  <1>1. Token(p) = tokens[p]
    BY DEF Source, Token
  <1> QED
    BY <1>1 DEF OneOf, Result, Takes

LEMMA PrimaryTakes ==
  ASSUME Source, NEW p \in 1 .. EndOfFile, NEW j \in 1 .. EndOfFile, IsPrimary(p, j)
  PROVE  Takes(Primary(p), j)
  <1>1. Len(tokens) \in Nat /\ EndOfFile = Len(tokens) + 1
    BY TokenThere
  <1>2. CASE j = p + 1 /\ tokens[p] \in Variables \cup Literals \cup KeywordValues
    <2>1. p \in 1 .. Len(tokens) /\ Token(p) = tokens[p] /\ tokens[p] # "&"
      BY <1>1, <1>2, Sets DEF Token
    <2> QED
      BY <1>2, <2>1, OneOfTakes DEF Primary
  <1>3. CASE j = p + 2 /\ tokens[p] = "&" /\ tokens[p + 1] \in Variables
    <2>1. p + 1 \in 1 .. Len(tokens) /\ Token(p) = "&"
      BY <1>1, <1>3 DEF Token
    <2>2. Takes(Variable(p + 1), (p + 1) + 1)
      BY <1>3, <2>1, OneOfTakes DEF Variable
    <2>3. Primary(p).pos = Variable(p + 1).pos /\ Primary(p).err = Variable(p + 1).err
      BY <2>1 DEF Primary, Variable, OneOf, Failed, Result
    <2> QED
      BY <1>3, <2>2, <2>3 DEF Takes
  <1> QED
    BY <1>2, <1>3 DEF IsPrimary

\* The part that begins behind a separator ends at the next one.
LEMMA NextCut ==
  ASSUME NEW P, NEW ts, NEW i \in Nat \ {0}, NEW j \in Nat, i < j, Spaced(P, ts, i, j),
         NEW a \in CutsOf(ts, i, j), a < j
  PROVE  \E b \in CutsOf(ts, i, j) : b \in Nat /\ a < b /\ b <= j /\ <<a + 1, b>> \in P
  <1> DEFINE above == {c \in Nat : c \in CutsOf(ts, i, j) /\ a < c}
  <1>1. above \in SUBSET Nat /\ above # {}
    BY DEF CutsOf
  <1>2. PICK b \in above : \A c \in above : b <= c
    <2> HIDE DEF above
    <2> QED
      BY <1>1, LeastElement
  <1>3. b \in Nat /\ b \in CutsOf(ts, i, j) /\ a < b
    BY <1>2
  <1>4. ASSUME NEW c \in CutsOf(ts, i, j) PROVE c <= a \/ b <= c
    <2>1. c \in Nat /\ a \in Nat
      BY DEF CutsOf
    <2>2. a < c => c \in above
      BY <2>1
    <2> HIDE DEF above
    <2> QED
      BY <1>2, <2>1, <2>2
  <1>5. <<a + 1, b>> \in P
    BY <1>3, <1>4 DEF Spaced, Consecutive
  <1>6. b <= j
    BY <1>3 DEF CutsOf
  <1> QED
    BY <1>3, <1>5, <1>6

LEMMA ExprTakes ==
  ASSUME Source, NEW p \in 1 .. EndOfFile, NEW j \in 1 .. EndOfFile, IsExpr(p, j), Token(j) \notin Arithmetic
  PROVE  Takes(Expr(p), j)
  <1> DEFINE n == Len(tokens)
             Good(r, k) == /\ r.err = FALSE /\ r.pos \in p + 1 .. j
                           /\ r.pos \in CutsOf(Arithmetic, p, j)
                           /\ r.pos = j \/ r.pos > p + k
  <1>1. n \in Nat /\ EndOfFile = n + 1 /\ p \in Nat \ {0} /\ j \in Nat
    BY TokenThere
  <1>2. p < j
    BY DEF IsExpr, Separated
  <1>3. j \in p .. EndOfFile /\ Spaced(Primaries, Arithmetic, p, j)
    <2>1. j \in p .. EndOfFile
      BY <1>1, <1>2
    <2> QED
      BY <2>1, ExprSpaced
  <1>4. PICK after : /\ after[0] = Primary(p)
                     /\ \A k \in 1 .. n : after[k] = MoreTerms(after[k - 1])
                     /\ Expr(p) = after[n]
    BY <1>1, TermsLoop DEF Expr
  <1>5. ASSUME NEW a \in CutsOf(Arithmetic, p, j), a < j
        PROVE  \E b \in CutsOf(Arithmetic, p, j) : b \in a + 2 .. j /\ b \in p + 1 .. j /\ Takes(Primary(a + 1), b)
    <2>1. PICK b \in CutsOf(Arithmetic, p, j) : b \in Nat /\ a < b /\ b <= j /\ <<a + 1, b>> \in Primaries
      BY <1>1, <1>2, <1>3, <1>5, NextCut
    <2>2. IsPrimary(a + 1, b) /\ a + 1 \in Nat /\ a + 1 < b /\ a + 1 >= p
      BY <1>1, <2>1 DEF Primaries, Spans, CutsOf
    <2>3. a + 1 \in 1 .. EndOfFile /\ b \in 1 .. EndOfFile
      BY <1>1, <2>1, <2>2
    <2>4. Takes(Primary(a + 1), b)
      BY <2>2, <2>3, PrimaryTakes
    <2>5. b \in a + 2 .. j /\ b \in p + 1 .. j
      BY <1>1, <2>1, <2>2
    <2> QED
      BY <2>1, <2>4, <2>5
  <1>6. Good(after[0], 0)
    <2>1. p - 1 \in CutsOf(Arithmetic, p, j) /\ p - 1 < j /\ (p - 1) + 1 = p
      BY <1>1, <1>2 DEF CutsOf
    <2>2. PICK b \in CutsOf(Arithmetic, p, j) : b \in (p - 1) + 2 .. j /\ b \in p + 1 .. j /\ Takes(Primary((p - 1) + 1), b)
      BY <1>5, <2>1
    <2>3. Takes(Primary(p), b)
      BY <2>1, <2>2
    <2> QED
      BY <1>1, <1>4, <2>2, <2>3 DEF Takes
  <1>7. ASSUME NEW k \in 1 .. n, NEW r, Good(r, k - 1) PROVE Good(MoreTerms(r), k)
    <2> DEFINE q == r.pos
    <2>1. q \in p + 1 .. j /\ q \in CutsOf(Arithmetic, p, j) /\ r.err = FALSE /\ (q = j \/ q > p + (k - 1))
      BY <1>7
    <2>2. CASE q = j
      <3>1. MoreTerms(r) = r
        BY <2>2 DEF MoreTerms
      <3> QED
        BY <2>1, <2>2, <3>1
    <2>3. CASE q # j
      <3>1. tokens[q] \in Arithmetic /\ q < j /\ q \in 1 .. n
        BY <1>1, <2>1, <2>3 DEF CutsOf
      <3>2. Token(q) \in Arithmetic
        BY <1>1, <3>1 DEF Token
      <3>3. PICK b \in CutsOf(Arithmetic, p, j) : b \in q + 2 .. j /\ b \in p + 1 .. j /\ Takes(Primary(q + 1), b)
        BY <1>5, <2>1, <3>1
      <3>4. MoreTerms(r).pos = Primary(q + 1).pos /\ MoreTerms(r).err = (r.err \/ Primary(q + 1).err)
        BY <3>2 DEF MoreTerms, Joined, Result
      <3>5. MoreTerms(r).pos = b /\ MoreTerms(r).err = FALSE
        BY <2>1, <3>3, <3>4 DEF Takes
      <3>6. b > p + k
        BY <1>1, <2>1, <2>3, <3>3
      <3> QED
        BY <3>3, <3>5, <3>6
    <2> QED
      BY <2>2, <2>3
  <1>8. Good(after[n], n)
    <2> DEFINE S == {k \in 0 .. n : Good(after[k], k)}
    <2> HIDE DEF Good
    <2>1. 0 \in S
      BY <1>1, <1>6
    <2>2. \A k \in 1 .. n : k - 1 \in S => k \in S
      BY <1>1, <1>4, <1>7
    <2>3. \A k \in 0 .. n : k \in S
      <3> HIDE DEF S
      <3> QED
        BY <1>1, <2>1, <2>2, UpTo
    <2> QED
      BY <1>1, <2>3
  <1>9. after[n].pos = j
    BY <1>1, <1>8
  <1> QED
    BY <1>4, <1>8, <1>9 DEF Takes

LEMMA ComparisonTakes ==
  ASSUME Source, NEW p \in 1 .. EndOfFile, NEW j \in 1 .. EndOfFile, CodeComparison(p, j), Token(j) \notin Arithmetic
  PROVE  Takes(Comparison(p), j)
  <1>1. Len(tokens) \in Nat /\ EndOfFile = Len(tokens) + 1 /\ p \in Nat \ {0} /\ j \in Nat
    BY TokenThere
  <1>2. PICK k \in p .. j - 1 : tokens[k] \in Relations /\ IsExpr(p, k) /\ IsExpr(k + 1, j)
    BY DEF CodeComparison
  <1>3. k \in 1 .. Len(tokens) /\ k \in 1 .. EndOfFile /\ k + 1 \in 1 .. EndOfFile /\ Token(k) = tokens[k]
    BY <1>1 DEF Token
  <1>4. Token(k) \notin Arithmetic
    BY <1>2, <1>3, TermTokensApart
  <1>5. Takes(Expr(p), k) /\ Takes(Expr(k + 1), j)
    BY <1>2, <1>3, <1>4, ExprTakes
  <1>6. Comparison(p) = Joined(Expr(p), Token(k), Expr(k + 1))
    BY <1>2, <1>3, <1>5 DEF Comparison, Takes
  <1>7. /\ Comparison(p).pos = Expr(k + 1).pos
        /\ Comparison(p).err = (Expr(p).err \/ Expr(k + 1).err)
    BY <1>6 DEF Joined, Result
  <1> QED
    BY <1>5, <1>7 DEF Takes

LEMMA BooleanTakes ==
  ASSUME Source, NEW p \in 1 .. EndOfFile, NEW j \in 1 .. EndOfFile, CodeBoolean(p, j),
         Token(j) \notin Arithmetic \cup {"AND"}
  PROVE  Takes(BooleanExpr(p), j)
  <1> DEFINE n == Len(tokens)
             cuts == CutsOf({"AND"}, p, j)
             Good(r, k) == /\ r.err = FALSE /\ r.pos \in p + 1 .. j
                           /\ r.pos \in cuts
                           /\ r.pos = j \/ r.pos > p + k
  <1>1. n \in Nat /\ EndOfFile = n + 1 /\ p \in Nat \ {0} /\ j \in Nat
    BY TokenThere
  <1>2. p < j
    BY DEF CodeBoolean, Separated
  <1>3. j \in p .. EndOfFile /\ Spaced(Comparisons, {"AND"}, p, j)
    <2>1. j \in p .. EndOfFile
      BY <1>1, <1>2
    <2> QED
      BY <2>1, BooleanSpaced
  <1>4. PICK after : /\ after[0] = Comparison(p)
                     /\ \A k \in 1 .. n : after[k] = MoreComparisons(after[k - 1])
                     /\ BooleanExpr(p) = after[n]
    BY <1>1, ComparisonsLoop DEF BooleanExpr
  <1>5. ASSUME NEW a \in cuts, a < j
        PROVE  \E b \in cuts : b \in a + 2 .. j /\ b \in p + 1 .. j /\ Takes(Comparison(a + 1), b)
    <2>1. PICK b \in cuts : b \in Nat /\ a < b /\ b <= j /\ <<a + 1, b>> \in Comparisons
      BY <1>1, <1>2, <1>3, <1>5, NextCut
    <2>2. CodeComparison(a + 1, b) /\ a + 1 \in Nat /\ a + 1 < b /\ a + 1 >= p
      BY <1>1, <2>1 DEF Comparisons, Spans, CutsOf
    <2>3. a + 1 \in 1 .. EndOfFile /\ b \in 1 .. EndOfFile
      BY <1>1, <2>1, <2>2
    <2>4. Token(b) \notin Arithmetic
      <3>1. CASE b = j
        BY <3>1
      <3>2. CASE b # j
        <4>1. tokens[b] = "AND" /\ b \in 1 .. n
          BY <1>1, <2>1, <2>2, <3>2 DEF CutsOf
        <4> QED
          BY <1>1, <4>1, TermTokensApart DEF Token
      <3> QED
        BY <3>1, <3>2
    <2>5. Takes(Comparison(a + 1), b)
      BY <2>2, <2>3, <2>4, ComparisonTakes
    <2>6. b \in a + 2 .. j /\ b \in p + 1 .. j
      BY <1>1, <2>1, <2>2
    <2> QED
      BY <2>1, <2>5, <2>6
  <1>6. Good(after[0], 0)
    <2>1. p - 1 \in cuts /\ p - 1 < j /\ (p - 1) + 1 = p
      BY <1>1, <1>2 DEF CutsOf
    <2>2. PICK b \in cuts : b \in (p - 1) + 2 .. j /\ b \in p + 1 .. j /\ Takes(Comparison((p - 1) + 1), b)
      BY <1>5, <2>1
    <2>3. Takes(Comparison(p), b)
      BY <2>1, <2>2
    <2> QED
      BY <1>1, <1>4, <2>2, <2>3 DEF Takes
  <1>7. ASSUME NEW k \in 1 .. n, NEW r, Good(r, k - 1) PROVE Good(MoreComparisons(r), k)
    <2> DEFINE q == r.pos
    <2>1. q \in p + 1 .. j /\ q \in cuts /\ r.err = FALSE /\ (q = j \/ q > p + (k - 1))
      BY <1>7
    <2>2. CASE q = j
      <3>1. MoreComparisons(r) = r
        BY <2>2 DEF MoreComparisons
      <3> QED
        BY <2>1, <2>2, <3>1
    <2>3. CASE q # j
      <3>1. tokens[q] = "AND" /\ q < j /\ q \in 1 .. n
        BY <1>1, <2>1, <2>3 DEF CutsOf
      <3>2. Token(q) = "AND"
        BY <1>1, <3>1 DEF Token
      <3>3. PICK b \in cuts : b \in q + 2 .. j /\ b \in p + 1 .. j /\ Takes(Comparison(q + 1), b)
        BY <1>5, <2>1, <3>1
      <3>4. MoreComparisons(r).pos = Comparison(q + 1).pos /\ MoreComparisons(r).err = (r.err \/ Comparison(q + 1).err)
        BY <3>2 DEF MoreComparisons, Joined, Result
      <3>5. MoreComparisons(r).pos = b /\ MoreComparisons(r).err = FALSE
        BY <2>1, <3>3, <3>4 DEF Takes
      <3>6. b > p + k
        BY <1>1, <2>1, <2>3, <3>3
      <3> QED
        BY <3>3, <3>5, <3>6
    <2> QED
      BY <2>2, <2>3
  <1>8. Good(after[n], n)
    <2> DEFINE S == {k \in 0 .. n : Good(after[k], k)}
    <2> HIDE DEF Good
    <2>1. 0 \in S
      BY <1>1, <1>6
    <2>2. \A k \in 1 .. n : k - 1 \in S => k \in S
      BY <1>1, <1>4, <1>7
    <2>3. \A k \in 0 .. n : k \in S
      <3> HIDE DEF S
      <3> QED
        BY <1>1, <2>1, <2>2, UpTo
    <2> QED
      BY <1>1, <2>3
  <1>9. after[n].pos = j
    BY <1>1, <1>8
  <1> QED
    BY <1>4, <1>8, <1>9 DEF Takes

LEMMA AssignTakes ==
  ASSUME Source, NEW p \in 1 .. EndOfFile, NEW j \in 1 .. EndOfFile, IsAssign(p, j), Token(j) \notin Arithmetic
  PROVE  Takes(Assign(p), j) /\ Assign(p).node # NULL /\ Assign(p).node.kids[1] = Leaf(tokens[p])
  <1>1. Len(tokens) \in Nat /\ EndOfFile = Len(tokens) + 1 /\ p \in Nat \ {0} /\ j \in Nat
    BY TokenThere
  <1>2. p + 2 < j /\ tokens[p] \in Variables /\ tokens[p + 1] = "=" /\ IsExpr(p + 2, j)
    BY DEF IsAssign
  <1>3. p \in 1 .. Len(tokens) /\ p + 1 \in 1 .. Len(tokens) /\ p + 2 \in 1 .. EndOfFile /\ Token(p + 1) = "="
    BY <1>1, <1>2 DEF Token
  <1>4. Takes(Variable(p), p + 1) /\ Takes(Expr(p + 2), j)
    BY <1>2, <1>3, OneOfTakes, ExprTakes DEF Variable
  <1>5. (p + 1) + 1 = p + 2
    BY <1>1
  <1>6. Assign(p) = Joined(Variable(p), ":=", Expr(p + 2))
    BY <1>3, <1>4, <1>5 DEF Assign, Takes
  <1>7. Takes(Assign(p), j)
    <2>1. /\ Assign(p).pos = Expr(p + 2).pos
          /\ Assign(p).err = (Variable(p).err \/ Expr(p + 2).err)
      BY <1>6 DEF Joined, Result
    <2> QED
      BY <1>4, <2>1 DEF Takes
  <1>8. Variable(p).node = Leaf(tokens[p])
    BY <1>4, VariableOn DEF Takes
  <1>9. Assign(p).node = Node(":=", <<Variable(p).node, Expr(p + 2).node>>)
    BY <1>6 DEF Joined, Result
  <1>10. Assign(p).node # NULL
    BY <1>9 DEF Node, NULL
  <1>11. Assign(p).node.kids[1] = Variable(p).node
    BY <1>9 DEF Node
  <1> QED
    BY <1>7, <1>8, <1>10, <1>11

-----------------------------------------------------------------------------
(***************************************************************************)
(* Every keyword statement of the grammar is taken to its end.             *)
(***************************************************************************)

\* The operand o takes what the grammar calls part.
Suits(o, part) ==
    \/ o = "numericVariable" /\ part = "NUMERIC"
    \/ o = "stringVariable" /\ part = "STRING"
    \/ o = "label" /\ part = "LABEL"
    \/ o = "variable" /\ part \in {"NUMERIC", "STRING"}
    \/ o \in {"string", "numeric", "expr"} /\ part = o
    \/ o = "lowerOrUpper" /\ part \in {"LOWER", "UPPER"}
    \/ o = "onOrOff" /\ part \in {"ON", "OFF"}
    \/ o = "onOrSend" /\ part \in {"ON", "SEND"}
    \/ o = "getOrSet" /\ part \in {"GET", "SET"}
    \/ o = "in" /\ part = "IN"
    \/ o = "out" /\ part = "OUT"
    \/ o = "rec" /\ part = "REC"

LEMMA TakesPart ==
  ASSUME Source, NEW o, NEW part, Suits(o, part), NEW p \in 1 .. EndOfFile, NEW j \in 1 .. EndOfFile,
         Is(part, p, j), p < j, part = "expr" => Token(j) \notin Arithmetic
  PROVE  Taken(o, p, j)
  <1>1. Len(tokens) \in Nat /\ EndOfFile = Len(tokens) + 1 /\ p \in 1 .. Len(tokens) /\ Token(p) = tokens[p]
    <2>1. Len(tokens) \in Nat /\ EndOfFile = Len(tokens) + 1
      BY TokenThere
    <2> QED
      BY <2>1 DEF Token
  <1>2. SUFFICES Takes(Taking(o, p), j)
    BY DEF Takes, Taken
  <1>3. ASSUME NEW ts, tokens[p] \in ts, Taking(o, p) = OneOf(ts, p), j = p + 1
        PROVE  Takes(Taking(o, p), j)
    BY <1>1, <1>3, OneOfTakes
  <1>4. CASE o \in {"lowerOrUpper", "onOrOff", "onOrSend", "getOrSet", "in", "out", "rec"}
    <2>1. Taking(o, p) = OneOf(Given[o], p)
      BY <1>4, GivenSets DEF Taking
    <2>2. part \in Given[o] /\ part \in ModifierTokens
      BY <1>4, GivenSets DEF Suits, ModifierTokens
    <2>3. j = p + 1 /\ tokens[p] = part
      BY <2>2, ModifiersThere DEF Is
    <2> QED
      BY <1>3, <2>1, <2>2, <2>3
  <1>5. CASE o = "numericVariable"
    <2>1. Taking(o, p) = OneOf(NumericVariables, p) /\ part = "NUMERIC"
      BY <1>5, GivenSets DEF Taking, Suits
    <2> QED
      BY <1>3, <2>1 DEF Is
  <1>6. CASE o = "stringVariable"
    <2>1. Taking(o, p) = OneOf(StringVariables, p) /\ part = "STRING"
      BY <1>6, GivenSets DEF Taking, Suits
    <2> QED
      BY <1>3, <2>1 DEF Is
  <1>7. CASE o = "label"
    <2>1. Taking(o, p) = OneOf(Identifiers, p) /\ part = "LABEL"
      BY <1>7, GivenSets DEF Taking, Suits
    <2> QED
      BY <1>3, <2>1 DEF Is
  <1>8. CASE o = "variable"
    <2>1. Taking(o, p) = OneOf(Variables, p) /\ part \in {"NUMERIC", "STRING"}
      BY <1>8, GivenSets DEF Taking, Suits, Variable
    <2>2. j = p + 1 /\ tokens[p] \in NumericVariables \cup StringVariables
      BY <2>1 DEF Is
    <2> QED
      BY <1>3, <2>1, <2>2 DEF Variables
  <1>9. CASE o = "string"
    <2>1. Taking(o, p) = OneOf(StringVariables \cup StringLiterals, p) /\ part = "string"
      BY <1>9, GivenSets DEF Taking, Suits
    <2> QED
      BY <1>3, <2>1 DEF Is
  <1>10. CASE o = "expr"
    <2>1. Taking(o, p) = Expr(p) /\ part = "expr"
      BY <1>10, GivenSets DEF Taking, Suits
    <2>2. IsExpr(p, j)
      BY <2>1 DEF Is
    <2> QED
      BY <2>1, <2>2, ExprTakes
  <1>11. CASE o = "numeric"
    <2>1. Taking(o, p) = NumericOperand(p) /\ part = "numeric"
      BY <1>11, GivenSets DEF Taking, Suits
    <2>2. IsPrimary(p, j) /\ tokens[p] \notin StringVariables \cup StringLiterals \cup CharLiterals
      BY <2>1 DEF Is
    <2>3. CASE tokens[p] = "&"
      BY <1>1, <2>1, <2>2, <2>3, PrimaryTakes DEF NumericOperand
    <2>4. CASE tokens[p] # "&"
      <3>1. j = p + 1 /\ tokens[p] \in NumericVariables \cup NumericLiterals \cup KeywordValues
        BY <2>2, <2>4 DEF IsPrimary, Variables, Literals
      <3> QED
        BY <1>1, <1>3, <2>1, <2>4, <3>1 DEF NumericOperand
    <2> QED
      BY <2>3, <2>4
  <1> QED
    BY <1>4, <1>5, <1>6, <1>7, <1>8, <1>9, <1>10, <1>11 DEF Suits

\* Parts in a row have cuts between them.
Cuts(parts, i, j, m, cut) ==
    /\ cut \in [0 .. m -> i .. j] /\ cut[0] = i /\ cut[m] = j
    /\ \A n \in 1 .. m : cut[n - 1] < cut[n] /\ Is(parts[n], cut[n - 1], cut[n])

LEMMA PartsCut ==
  ASSUME NEW parts, NEW i \in Nat, NEW j \in Nat, NEW m \in Nat, m = Len(parts), AreParts(parts, i, j)
  PROVE  \E cut : Cuts(parts, i, j, m, cut)
  <1> DEFINE Cut(x, n) == \E cut \in [0 .. n -> i .. j] :
                             /\ cut[0] = i /\ cut[n] = x
                             /\ \A k \in 1 .. n : cut[k - 1] < cut[k] /\ Is(parts[k], cut[k - 1], cut[k])
  <1>1. PICK after : EndsOf(parts, i, j, m, after)
    BY PartsLoop
  <1>2. j \in after[m] /\ after[0] = {i} /\ \A k \in 1 .. m : after[k] = NextEnds(parts, i, j, k, after[k - 1])
    BY <1>1 DEF EndsOf
  <1>3. i <= j
    <2>1. CASE m = 0
      BY <1>2, <2>1
    <2>2. CASE m # 0
      <3>1. m \in 1 .. m
        BY <2>2
      <3> QED
        BY <1>2, <3>1 DEF NextEnds
    <2> QED
      BY <2>1, <2>2
  <1> DEFINE S == {n \in 0 .. m : \A x \in after[n] : Cut(x, n)}
  <1>4. 0 \in S
    <2>1. Cut(i, 0)
      <3> DEFINE cut == [n \in 0 .. 0 |-> i]
      <3>1. cut \in [0 .. 0 -> i .. j] /\ cut[0] = i
        BY <1>3
      <3>2. \A k \in 1 .. 0 : cut[k - 1] < cut[k] /\ Is(parts[k], cut[k - 1], cut[k])
        OBVIOUS
      <3> HIDE DEF cut
      <3> QED
        BY <3>1, <3>2
    <2> HIDE DEF Cut
    <2> QED
      BY <1>2, <2>1
  <1>5. \A n \in 1 .. m : n - 1 \in S => n \in S
    <2> TAKE n \in 1 .. m
    <2> HAVE n - 1 \in S
    <2> SUFFICES ASSUME NEW x \in after[n] PROVE Cut(x, n)
      <3> HIDE DEF Cut
      <3> QED
        OBVIOUS
    <2>1. x \in i .. j /\ \E h \in after[n - 1] : h < x /\ Is(parts[n], h, x)
      BY <1>2 DEF NextEnds
    <2>2. PICK h \in after[n - 1] : h < x /\ Is(parts[n], h, x)
      BY <2>1
    <2>3. PICK cut \in [0 .. n - 1 -> i .. j] :
             /\ cut[0] = i /\ cut[n - 1] = h
             /\ \A k \in 1 .. n - 1 : cut[k - 1] < cut[k] /\ Is(parts[k], cut[k - 1], cut[k])
      BY <2>2
    <2> DEFINE new == [k \in 0 .. n |-> IF k = n THEN x ELSE cut[k]]
    <2>4. new \in [0 .. n -> i .. j]
      <3>1. \A k \in 0 .. n : k # n => k \in 0 .. n - 1
        OBVIOUS
      <3> QED
        BY <2>1, <2>3, <3>1
    <2>5. /\ new[0] = i /\ new[n] = x /\ new[n - 1] = h
          /\ \A k \in 1 .. n - 1 : new[k] = cut[k] /\ new[k - 1] = cut[k - 1]
      BY <2>3
    <2> HIDE DEF new, S
    <2>6. \A k \in 1 .. n : new[k - 1] < new[k] /\ Is(parts[k], new[k - 1], new[k])
      <3> TAKE k \in 1 .. n
      <3>1. CASE k = n
        BY <2>2, <2>5, <3>1
      <3>2. CASE k # n
        <4>1. k \in 1 .. n - 1
          BY <3>2
        <4> QED
          BY <2>3, <2>5, <4>1
      <3> QED
        BY <3>1, <3>2
    <2> QED
      BY <2>4, <2>5, <2>6
  <1>6. \A n \in 0 .. m : n \in S
    <2> HIDE DEF S
    <2> QED
      BY <1>4, <1>5, UpTo
  <1>7. Cut(j, m)
    <2> HIDE DEF Cut
    <2>1. m \in S
      BY <1>6
    <2> QED
      BY <1>2, <2>1
  <1> QED
    BY <1>7 DEF Cuts

\* Operands that are taken one after the other are taken by the function.
LEMMA OperandsTake ==
  ASSUME NEW os, NEW m \in Nat, m = Len(os), NEW cut,
         \A n \in 1 .. m : Taken(os[n], cut[n - 1], cut[n])
  PROVE  Takes(Operands(os, cut[0]), cut[m]) /\ Operands(os, cut[0]).lost = FALSE
  <1> DEFINE Good(r, k) == r.pos = cut[k] /\ r.err = FALSE /\ r.lost = FALSE /\ Len(r.node) = k
                           /\ \E T : r.node \in Seq(T)
  <1>1. PICK after : /\ after[0] = [pos |-> cut[0], node |-> <<>>, err |-> FALSE, lost |-> FALSE]
                     /\ \A k \in 1 .. m : after[k] = NextOperand(os, after[k - 1])
                     /\ Operands(os, cut[0]) = after[m]
    BY OperandsLoop
  <1>2. Good(after[0], 0)
    <2>1. <<>> \in Seq({}) /\ Len(<<>>) = 0
      OBVIOUS
    <2>2. after[0].pos = cut[0] /\ after[0].err = FALSE /\ after[0].lost = FALSE /\ after[0].node = <<>>
      BY <1>1
    <2> QED
      BY <2>1, <2>2
  <1>3. ASSUME NEW k \in 1 .. m, NEW r, Good(r, k - 1) PROVE Good(NextOperand(os, r), k)
    <2> DEFINE b == Taking(os[k], cut[k - 1])
    <2>1. ~r.lost /\ Len(r.node) # Len(os) /\ Len(r.node) + 1 = k /\ r.pos = cut[k - 1]
      BY <1>3
    <2>2. b.pos = cut[k] /\ ~b.err
      BY DEF Taken
    <2>3. NextOperand(os, r) = [ pos |-> b.pos, node |-> Append(r.node, b.node), err |-> r.err \/ b.err,
                                 lost |-> os[k] \in DOMAIN Given /\ b.err ]
      BY <2>1 DEF NextOperand
    <2>4. PICK T : r.node \in Seq(T)
      BY <1>3
    <2> HIDE DEF b
    <2>5. r.node \in Seq(T \cup {b.node}) /\ b.node \in T \cup {b.node}
      BY <2>4
    <2>6. Append(r.node, b.node) \in Seq(T \cup {b.node}) /\ Len(Append(r.node, b.node)) = k
      BY <2>1, <2>5, AppendProperties
    <2>7. /\ NextOperand(os, r).pos = b.pos /\ NextOperand(os, r).node = Append(r.node, b.node)
          /\ NextOperand(os, r).err = (r.err \/ b.err)
          /\ NextOperand(os, r).lost = (os[k] \in DOMAIN Given /\ b.err)
      BY <2>3
    <2>8. NextOperand(os, r).err = FALSE /\ NextOperand(os, r).lost = FALSE
      BY <1>3, <2>2, <2>7
    <2> QED
      BY <2>2, <2>6, <2>7, <2>8
  <1>4. Good(after[m], m)
    <2> DEFINE S == {k \in 0 .. m : Good(after[k], k)}
    <2> HIDE DEF Good
    <2>1. 0 \in S
      BY <1>2
    <2>2. \A k \in 1 .. m : k - 1 \in S => k \in S
      BY <1>1, <1>3
    <2>3. \A k \in 0 .. m : k \in S
      <3> HIDE DEF S
      <3> QED
        BY <2>1, <2>2, UpTo
    <2> QED
      BY <2>3
  <1> QED
    BY <1>1, <1>4 DEF Takes

\* What the first of the parts says of the token t that it begins with.
Leads(part, t) ==
    /\ part = "STRING" => t \in StringVariables
    /\ part = "NUMERIC" => t \in NumericVariables
    /\ part \in ModifierTokens => t = part

\* The operands os take the parts in their order; only the last one may be an
\* expression.
Fits(os, parts) ==
    /\ Len(parts) \in Nat /\ Len(os) = Len(parts)
    /\ \A n \in 1 .. Len(parts) : Suits(os[n], parts[n]) /\ (parts[n] = "expr" => n = Len(parts))

LEMMA SuitsAll ==
  /\ Suits("string", "string") /\ Suits("numeric", "numeric") /\ Suits("expr", "expr") /\ Suits("label", "LABEL")
  /\ Suits("numericVariable", "NUMERIC") /\ Suits("stringVariable", "STRING")
  /\ Suits("variable", "NUMERIC") /\ Suits("variable", "STRING")
  /\ Suits("lowerOrUpper", "LOWER") /\ Suits("lowerOrUpper", "UPPER")
  /\ Suits("onOrOff", "ON") /\ Suits("onOrOff", "OFF") /\ Suits("onOrSend", "ON") /\ Suits("onOrSend", "SEND")
  /\ Suits("getOrSet", "GET") /\ Suits("getOrSet", "SET")
  /\ Suits("in", "IN") /\ Suits("out", "OUT") /\ Suits("rec", "REC")
  BY DEF Suits

LEMMA Fits0 == Fits(<<>>, <<>>)
  BY DEF Fits

LEMMA Fits1 ==
  ASSUME NEW a, NEW x, Suits(a, x)
  PROVE  Fits(<<a>>, <<x>>)
  BY DEF Fits

LEMMA Fits2 ==
  ASSUME NEW a, NEW x, Suits(a, x), NEW b, NEW y, Suits(b, y), x # "expr"
  PROVE  Fits(<<a, b>>, <<x, y>>)
  BY DEF Fits

LEMMA Fits3 ==
  ASSUME NEW a, NEW x, Suits(a, x), NEW b, NEW y, Suits(b, y), NEW c, NEW z, Suits(c, z), x # "expr", y # "expr"
  PROVE  Fits(<<a, b, c>>, <<x, y, z>>)
  BY DEF Fits

LEMMA Fits4 ==
  ASSUME NEW a, NEW x, Suits(a, x), NEW b, NEW y, Suits(b, y), NEW c, NEW z, Suits(c, z), NEW d, NEW w, Suits(d, w),
         x # "expr", y # "expr", z # "expr"
  PROVE  Fits(<<a, b, c, d>>, <<x, y, z, w>>)
  BY DEF Fits

LEMMA NumericApart == NumericVariables \cap StringVariables = {}
  BY DEF NumericVariables, StringVariables

\* The rule of the code has an operand for every part of the grammar's rule.
LEMMA RuleFits ==
  ASSUME NEW k \in Statements \ {"PRINT"}, NEW parts \in Sides(k), NEW t,
         Len(parts) > 0 => Leads(parts[1], t)
  PROVE  Fits(Rule(k, t), parts)
  <1>1. Len(parts) > 0 => Leads(parts[1], t)
    OBVIOUS
  <1>2. CASE k \in {"BREAK", "CLS", "END", "FILES", "RETURN"}
    <2>1. Rule(k, t) = <<>>
      BY <1>2 DEF Rule
    <2>2. parts \in {<<>>}
      BY <1>2, SidesOf
    <2> QED
      BY <2>1, <2>2, Fits0, SuitsAll
  <1>3. CASE k \in {"ALERT", "DELETE", "SIZE"}
    <2>1. Rule(k, t) = <<"string">>
      BY <1>3 DEF Rule
    <2>2. parts \in {<<"string">>}
      BY <1>3, SidesOf
    <2> QED
      BY <2>1, <2>2, Fits1, SuitsAll
  <1>4. CASE k \in {"INK", "PAUSE"}
    <2>1. Rule(k, t) = <<"numeric">>
      BY <1>4 DEF Rule
    <2>2. parts \in {<<"numeric">>}
      BY <1>4, SidesOf
    <2> QED
      BY <2>1, <2>2, Fits1, SuitsAll
  <1>5. CASE k \in {"GOSUB", "GOTO"}
    <2>1. Rule(k, t) = <<"label">>
      BY <1>5 DEF Rule
    <2>2. parts \in {<<"LABEL">>}
      BY <1>5, SidesOf
    <2> QED
      BY <2>1, <2>2, Fits1, SuitsAll
  <1>6. CASE k = "CALL"
    <2>1. Rule(k, t) = <<"expr">>
      BY <1>6 DEF Rule
    <2>2. parts \in {<<"expr">>}
      BY <1>6, SidesOf
    <2> QED
      BY <2>1, <2>2, Fits1, SuitsAll
  <1>7. CASE k = "INPUT"
    <2>1. Rule(k, t) = <<"variable">>
      BY <1>7 DEF Rule
    <2>2. parts \in {<<"NUMERIC">>, <<"STRING">>}
      BY <1>7, SidesOf
    <2> QED
      BY <2>1, <2>2, Fits1, SuitsAll
  <1>8. CASE k = "ASKFILE"
    <2>1. Rule(k, t) = <<"stringVariable">>
      BY <1>8 DEF Rule
    <2>2. parts \in {<<"STRING">>}
      BY <1>8, SidesOf
    <2> QED
      BY <2>1, <2>2, Fits1, SuitsAll
  <1>9. CASE k \in {"CURSCHAR", "CURSCOL", "GETKEY", "WAITKEY"}
    <2>1. Rule(k, t) = <<"numericVariable">>
      BY <1>9 DEF Rule
    <2>2. parts \in {<<"NUMERIC">>}
      BY <1>9, SidesOf
    <2> QED
      BY <2>1, <2>2, Fits1, SuitsAll
  <1>10. CASE k = "CURSOR"
    <2>1. Rule(k, t) = <<"onOrOff">>
      BY <1>10 DEF Rule
    <2>2. parts \in {<<"OFF">>, <<"ON">>}
      BY <1>10, SidesOf
    <2> QED
      BY <2>1, <2>2, Fits1, SuitsAll
  <1>11. CASE k = "CURSPOS"
    <2>1. Rule(k, t) = <<"numericVariable", "numericVariable">>
      BY <1>11 DEF Rule
    <2>2. parts \in {<<"NUMERIC", "NUMERIC">>}
      BY <1>11, SidesOf
    <2> QED
      BY <2>1, <2>2, Fits2, SuitsAll
  <1>12. CASE k = "CASE"
    <2>1. Rule(k, t) = <<"lowerOrUpper", "stringVariable">>
      BY <1>12 DEF Rule
    <2>2. parts \in {<<"LOWER", "STRING">>, <<"UPPER", "STRING">>}
      BY <1>12, SidesOf
    <2> QED
      BY <2>1, <2>2, Fits2, SuitsAll
  <1>13. CASE k = "LEN"
    <2>1. Rule(k, t) = <<"string", "numericVariable">>
      BY <1>13 DEF Rule
    <2>2. parts \in {<<"string", "NUMERIC">>}
      BY <1>13, SidesOf
    <2> QED
      BY <2>1, <2>2, Fits2, SuitsAll
  <1>14. CASE k = "LOAD"
    <2>1. Rule(k, t) = <<"string", "numeric">>
      BY <1>14 DEF Rule
    <2>2. parts \in {<<"string", "numeric">>}
      BY <1>14, SidesOf
    <2> QED
      BY <2>1, <2>2, Fits2, SuitsAll
  <1>15. CASE k = "RENAME"
    <2>1. Rule(k, t) = <<"string", "string">>
      BY <1>15 DEF Rule
    <2>2. parts \in {<<"string", "string">>}
      BY <1>15, SidesOf
    <2> QED
      BY <2>1, <2>2, Fits2, SuitsAll
  <1>16. CASE k \in {"MOVE", "PAGE", "POKE", "POKEINT", "SOUND"}
    <2>1. Rule(k, t) = <<"numeric", "numeric">>
      BY <1>16 DEF Rule
    <2>2. parts \in {<<"numeric", "numeric">>}
      BY <1>16, SidesOf
    <2> QED
      BY <2>1, <2>2, Fits2, SuitsAll
  <1>17. CASE k \in {"PEEK", "PEEKINT"}
    <2>1. Rule(k, t) = <<"numericVariable", "numeric">>
      BY <1>17 DEF Rule
    <2>2. parts \in {<<"NUMERIC", "numeric">>}
      BY <1>17, SidesOf
    <2> QED
      BY <2>1, <2>2, Fits2, SuitsAll
  <1>18. CASE k = "RAND"
    <2>1. Rule(k, t) = <<"numericVariable", "numeric", "numeric">>
      BY <1>18 DEF Rule
    <2>2. parts \in {<<"NUMERIC", "numeric", "numeric">>}
      BY <1>18, SidesOf
    <2> QED
      BY <2>1, <2>2, Fits3, SuitsAll
  <1>19. CASE k = "SAVE"
    <2>1. Rule(k, t) = <<"string", "numeric", "numeric">>
      BY <1>19 DEF Rule
    <2>2. parts \in {<<"string", "numeric", "numeric">>}
      BY <1>19, SidesOf
    <2> QED
      BY <2>1, <2>2, Fits3, SuitsAll
  <1>20. CASE k = "LISTBOX"
    <2>1. Rule(k, t) = <<"string", "string", "string", "numericVariable">>
      BY <1>20 DEF Rule
    <2>2. parts \in {<<"string", "string", "string", "NUMERIC">>}
      BY <1>20, SidesOf
    <2> QED
      BY <2>1, <2>2, Fits4, SuitsAll
  <1>21. CASE k = "STRING"
    <2>1. Rule(k, t) = <<"getOrSet", "stringVariable", "numeric", "numericVariable">>
      BY <1>21 DEF Rule, StringOperands
    <2>2. parts \in {<<"GET", "STRING", "numeric", "NUMERIC">>, <<"SET", "STRING", "numeric", "NUMERIC">>}
      BY <1>21, SidesOf
    <2> QED
      BY <2>1, <2>2, Fits4, SuitsAll
  <1>22. CASE k = "NUMBER"
    <2>1. Rule(k, t) = NumberOperands(t)
      BY <1>22 DEF Rule
    <2>2. parts \in {<<"STRING", "NUMERIC">>, <<"NUMERIC", "STRING">>}
      BY <1>22, SidesOf
    <2>3. CASE parts = <<"STRING", "NUMERIC">>
      <3>1. t \in StringVariables
        <4>1. Len(parts) > 0 /\ parts[1] = "STRING"
          BY <2>3
        <4> QED
          BY <1>1, <4>1, NumericApart DEF Leads, ModifierTokens
      <3>2. Rule(k, t) = <<"stringVariable", "numericVariable">>
        BY <2>1, <3>1 DEF NumberOperands
      <3> QED
        BY <2>3, <3>2, Fits2, SuitsAll
    <2>4. CASE parts = <<"NUMERIC", "STRING">>
      <3>1. t \notin StringVariables
        <4>1. Len(parts) > 0 /\ parts[1] = "NUMERIC"
          BY <2>4
        <4> QED
          BY <1>1, <4>1, NumericApart DEF Leads, ModifierTokens
      <3>2. Rule(k, t) = <<"numericVariable", "stringVariable">>
        BY <2>1, <3>1 DEF NumberOperands
      <3> QED
        BY <2>4, <3>2, Fits2, SuitsAll
    <2> QED
      BY <2>2, <2>3, <2>4
  <1>23. CASE k = "PORT"
    <2>1. Rule(k, t) = PortOperands(t)
      BY <1>23 DEF Rule
    <2>2. parts \in {<<"OUT", "numeric", "numeric">>, <<"IN", "numeric", "NUMERIC">>}
      BY <1>23, SidesOf
    <2>3. CASE parts = <<"OUT", "numeric", "numeric">>
      <3>1. t = "OUT"
        <4>1. Len(parts) > 0 /\ parts[1] = "OUT"
          BY <2>3
        <4> QED
          BY <1>1, <4>1 DEF Leads, ModifierTokens
      <3>2. Rule(k, t) = <<"out", "numeric", "numeric">>
        BY <2>1, <3>1 DEF PortOperands
      <3> QED
        BY <2>3, <3>2, Fits3, SuitsAll
    <2>4. CASE parts = <<"IN", "numeric", "NUMERIC">>
      <3>1. t # "OUT"
        <4>1. Len(parts) > 0 /\ parts[1] = "IN"
          BY <2>4
        <4> QED
          BY <1>1, <4>1 DEF Leads, ModifierTokens
      <3>2. Rule(k, t) = <<"in", "numeric", "numericVariable">>
        BY <2>1, <3>1 DEF PortOperands
      <3> QED
        BY <2>4, <3>2, Fits3, SuitsAll
    <2> QED
      BY <2>2, <2>3, <2>4
  <1>24. CASE k = "SERIAL"
    <2>1. Rule(k, t) = SerialOperands(t)
      BY <1>24 DEF Rule
    <2>2. parts \in {<<"REC", "NUMERIC">>, <<"ON", "numeric">>, <<"SEND", "numeric">>}
      BY <1>24, SidesOf
    <2>3. CASE parts = <<"REC", "NUMERIC">>
      <3>1. t = "REC"
        <4>1. Len(parts) > 0 /\ parts[1] = "REC"
          BY <2>3
        <4> QED
          BY <1>1, <4>1 DEF Leads, ModifierTokens
      <3>2. Rule(k, t) = <<"rec", "numericVariable">>
        BY <2>1, <3>1 DEF SerialOperands
      <3> QED
        BY <2>3, <3>2, Fits2, SuitsAll
    <2>4. CASE parts = <<"ON", "numeric">>
      <3>1. t # "REC"
        <4>1. Len(parts) > 0 /\ parts[1] = "ON"
          BY <2>4
        <4> QED
          BY <1>1, <4>1 DEF Leads, ModifierTokens
      <3>2. Rule(k, t) = <<"onOrSend", "numeric">>
        BY <2>1, <3>1 DEF SerialOperands
      <3> QED
        BY <2>4, <3>2, Fits2, SuitsAll
    <2>5. CASE parts = <<"SEND", "numeric">>
      <3>1. t # "REC"
        <4>1. Len(parts) > 0 /\ parts[1] = "SEND"
          BY <2>5
        <4> QED
          BY <1>1, <4>1 DEF Leads, ModifierTokens
      <3>2. Rule(k, t) = <<"onOrSend", "numeric">>
        BY <2>1, <3>1 DEF SerialOperands
      <3> QED
        BY <2>5, <3>2, Fits2, SuitsAll
    <2> QED
      BY <2>2, <2>3, <2>4, <2>5
  <1>25. CASE k = "READ"
    BY <1>25 DEF Sides
  <1> QED
    BY <1>2, <1>3, <1>4, <1>5, <1>6, <1>7, <1>8, <1>9, <1>10, <1>11, <1>12, <1>13, <1>14, <1>15, <1>16, <1>17, <1>18, <1>19, <1>20, <1>21, <1>22, <1>23, <1>24, <1>25 DEF Statements

LEMMA SidesThere ==
  ASSUME NEW t, Sides(t) # {}
  PROVE  t \in Statements \ {"READ"} /\ t # "INCLUDE"
  BY DEF Sides, Statements

LEMMA LeadsOf ==
  ASSUME NEW part, NEW i, NEW j, Is(part, i, j)
  PROVE  Leads(part, tokens[i])
  <1>1. part \in ModifierTokens => tokens[i] = part
    BY ModifiersThere DEF Is
  <1> QED
    BY <1>1 DEF Is, Leads

\* The operands of every rule but that of PRINT, which has optional ones.
LEMMA RuleTakes ==
  ASSUME Source, NEW k \in Statements \ {"PRINT"}, NEW parts \in Sides(k),
         NEW p \in 1 .. EndOfFile, NEW j \in 1 .. EndOfFile, AreParts(parts, p, j), Token(j) \notin Arithmetic
  PROVE  Takes(Operands(Rule(k, Token(p)), p), j) /\ Operands(Rule(k, Token(p)), p).lost = FALSE
  <1> DEFINE os == Rule(k, Token(p))
             m  == Len(parts)
  <1>1. EndOfFile \in Nat /\ p \in Nat /\ j \in Nat /\ EndOfFile = Len(tokens) + 1
    BY TokenThere
  <1>2. m \in Nat
    <2> DEFINE t == IF parts[1] = "STRING" THEN "$1" ELSE IF parts[1] = "NUMERIC" THEN "A" ELSE parts[1]
    <2>1. Leads(parts[1], t)
      BY ModifiersThere DEF Leads, StringVariables, NumericVariables
    <2> HIDE DEF t
    <2>2. Fits(Rule(k, t), parts)
      BY <2>1, RuleFits
    <2> QED
      BY <2>2 DEF Fits
  <1>2a. PICK cut : Cuts(parts, p, j, m, cut)
    BY <1>1, <1>2, PartsCut
  <1>3. /\ cut \in [0 .. m -> p .. j] /\ cut[0] = p /\ cut[m] = j
        /\ \A n \in 1 .. m : cut[n - 1] < cut[n] /\ Is(parts[n], cut[n - 1], cut[n])
    BY <1>2a DEF Cuts
  <1> HIDE DEF m
  <1>4. \A n \in 0 .. m : cut[n] \in 1 .. EndOfFile
    BY <1>1, <1>3
  <1>5. m > 0 => Leads(parts[1], Token(p))
    <2> SUFFICES ASSUME m > 0 PROVE Leads(parts[1], Token(p))
      OBVIOUS
    <2>1. 1 \in 1 .. m /\ 1 - 1 = 0 /\ 1 \in 0 .. m
      BY <1>2
    <2>2. Is(parts[1], p, cut[1]) /\ p < cut[1] /\ cut[1] \in 1 .. EndOfFile
      BY <1>3, <1>4, <2>1
    <2>3. Token(p) = tokens[p]
      BY <1>1, <2>2 DEF Token
    <2> QED
      BY <2>2, <2>3, LeadsOf
  <1>6. Fits(os, parts)
    BY <1>5, RuleFits DEF m
  <1>7. /\ Len(os) = m
        /\ \A n \in 1 .. m : Suits(os[n], parts[n]) /\ (parts[n] = "expr" => n = m)
    BY <1>6 DEF Fits, m
  <1> HIDE DEF os
  <1>8. \A n \in 1 .. m : Taken(os[n], cut[n - 1], cut[n])
    <2> TAKE n \in 1 .. m
    <2>1. n - 1 \in 0 .. m /\ n \in 0 .. m
      BY <1>2
    <2>2. cut[n - 1] \in 1 .. EndOfFile /\ cut[n] \in 1 .. EndOfFile
      BY <1>4, <2>1
    <2>3. parts[n] = "expr" => Token(cut[n]) \notin Arithmetic
      BY <1>3, <1>7
    <2> QED
      BY <1>3, <1>7, <2>2, <2>3, TakesPart
  <1> QED
    BY <1>2, <1>3, <1>7, <1>8, OperandsTake DEF os

\* The sign that may end a PRINT.
Semicolon == ";"

LEMMA SemicolonApart == Semicolon \notin Arithmetic /\ Semicolon \in ModifierTokens /\ Semicolon \notin {"CHR", "HEX"}
  BY Zenon DEF Semicolon, Arithmetic, ModifierTokens

LEMMA TwoModifiers == {"CHR", "HEX"} \subseteq ModifierTokens
  BY Zenon DEF ModifierTokens

LEMMA ModifierIs ==
  ASSUME NEW t \in ModifierTokens, NEW a, NEW b, Is(t, a, b)
  PROVE  b = a + 1 /\ tokens[a] = t
  BY ModifiersThere DEF Is

LEMMA SemicolonOptional ==
  /\ Optional["semicolon"] = {Semicolon} /\ Optional["chrOrHex"] = {"CHR", "HEX"}
  /\ "semicolon" \in DOMAIN Optional \ DOMAIN Given /\ "chrOrHex" \in DOMAIN Optional \ DOMAIN Given
  /\ "expr" \notin DOMAIN Optional \cup DOMAIN Given
  BY Zenon, GivenSets DEF Semicolon

LEMMA SemicolonTakes ==
  ASSUME NEW b, Token(b) = Semicolon
  PROVE  Taking("semicolon", b) = Result(b + 1, Leaf(Token(b)), FALSE)
  BY SemicolonOptional DEF Taking, OneOf

LEMMA SemicolonLeft ==
  ASSUME NEW b, Token(b) # Semicolon
  PROVE  Taking("semicolon", b) = Result(b, NULL, FALSE)
  BY SemicolonOptional DEF Taking

\* PRINT with an expression from a to b, and what may be around it.
LEMMA PrintTakes ==
  ASSUME Source, NEW p \in 1 .. EndOfFile, NEW a \in 1 .. EndOfFile, NEW b \in 1 .. EndOfFile, NEW j,
         IsExpr(a, b), Token(b) \notin Arithmetic,
         (a = p + 1 /\ Token(p) \in {"CHR", "HEX"}) \/ (a = p /\ Token(p) \notin {"CHR", "HEX"}),
         (j = b + 1 /\ Token(b) = Semicolon) \/ (j = b /\ Token(b) # Semicolon)
  PROVE  Takes(Operands(PrintOperands, p), j) /\ Operands(PrintOperands, p).lost = FALSE
  <1> DEFINE cut == [n \in 0 .. 3 |-> IF n = 0 THEN p ELSE IF n = 1 THEN a ELSE IF n = 2 THEN b ELSE j]
  <1>1. cut[0] = p /\ cut[1] = a /\ cut[2] = b /\ cut[3] = j
    OBVIOUS
  <1>2. /\ PrintOperands[1] = "chrOrHex" /\ PrintOperands[2] = "expr" /\ PrintOperands[3] = "semicolon"
        /\ Len(PrintOperands) = 3
    BY DEF PrintOperands
  <1>3. Taken("chrOrHex", p, a)
    <2>1. CASE Token(p) \in {"CHR", "HEX"}
      <3>1. Taking("chrOrHex", p) = OneOf({"CHR", "HEX"}, p)
        BY <2>1, SemicolonOptional DEF Taking
      <3>2. OneOf({"CHR", "HEX"}, p) = Result(p + 1, Leaf(Token(p)), FALSE)
        BY <2>1 DEF OneOf
      <3> QED
        BY <2>1, <3>1, <3>2 DEF Result, Taken
    <2>2. CASE Token(p) \notin {"CHR", "HEX"}
      <3>1. Taking("chrOrHex", p) = Result(p, NULL, FALSE)
        BY <2>2, SemicolonOptional DEF Taking
      <3> QED
        BY <2>2, <3>1 DEF Result, Taken
    <2> QED
      BY <2>1, <2>2
  <1>4. Taken("expr", a, b)
    <2>1. Taking("expr", a) = Expr(a)
      BY SemicolonOptional DEF Taking
    <2> QED
      BY <2>1, ExprTakes DEF Takes, Taken
  <1>5. Taken("semicolon", b, j)
    <2>1. CASE Token(b) = Semicolon
      BY <2>1, SemicolonTakes DEF Result, Taken
    <2>2. CASE Token(b) # Semicolon
      BY <2>2, SemicolonLeft DEF Result, Taken
    <2> QED
      BY <2>1, <2>2
  <1> HIDE DEF cut
  <1>6. \A n \in 1 .. 3 : (n = 1 /\ n - 1 = 0) \/ (n = 2 /\ n - 1 = 1) \/ (n = 3 /\ n - 1 = 2)
    OBVIOUS
  <1>7. \A n \in 1 .. 3 : Taken(PrintOperands[n], cut[n - 1], cut[n])
    BY <1>1, <1>2, <1>3, <1>4, <1>5, <1>6
  <1> QED
    BY <1>1, <1>2, <1>7, OperandsTake

LEMMA PrintSidesAre ==
  ASSUME NEW parts \in Sides("PRINT")
  PROVE  \/ parts = <<"expr">> \/ parts = <<"expr", Semicolon>>
         \/ \E t \in {"CHR", "HEX"} : parts = <<t, "expr">> \/ parts = <<t, "expr", Semicolon>>
  BY Zenon DEF Sides, Semicolon

\* The first token of an expression is none that PRINT looks for in front of it.
LEMMA ExprBegins ==
  ASSUME Source, NEW i \in 1 .. EndOfFile, NEW j \in 1 .. EndOfFile, IsExpr(i, j)
  PROVE  Token(i) \notin {"CHR", "HEX"} /\ i < j
  <1>1. i < j /\ EndOfFile \in Nat /\ EndOfFile = Len(tokens) + 1
    BY TokenThere DEF IsExpr, Separated
  <1>2. j \in i .. EndOfFile /\ i \in i .. j - 1 /\ Token(i) = tokens[i]
    BY <1>1 DEF Token
  <1>3. tokens[i] \in TermTokens \cup Arithmetic
    BY <1>2, ExprTokens
  <1>4. TermTokens \cup Arithmetic \subseteq {"CHR", "HEX"} \cup (TermTokens \cup Arithmetic) /\ "CHR" \notin TermTokens \cup Arithmetic /\ "HEX" \notin TermTokens \cup Arithmetic
    BY DEF TermTokens, Variables, NumericVariables, StringVariables, Literals, NumericLiterals, StringLiterals,
           CharLiterals, Arithmetic, KeywordValues
  <1> QED
    BY <1>1, <1>2, <1>3, <1>4

LEMMA PrintRuleTakes ==
  ASSUME Source, NEW parts \in Sides("PRINT"), NEW p \in 1 .. EndOfFile, NEW j \in 1 .. EndOfFile,
         AreParts(parts, p, j), Token(j) \notin Arithmetic \cup {Semicolon}
  PROVE  Takes(Operands(PrintOperands, p), j) /\ Operands(PrintOperands, p).lost = FALSE
  <1>1. EndOfFile \in Nat /\ p \in Nat /\ j \in Nat /\ EndOfFile = Len(tokens) + 1 /\ Semicolon \notin Arithmetic
    BY TokenThere, SemicolonApart
  <1>2. Len(parts) \in Nat => \E cut : Cuts(parts, p, j, Len(parts), cut)
    BY <1>1, PartsCut
  <1>3. ASSUME NEW a \in p .. j, NEW b \in p .. j, Is("expr", a, b)
        PROVE  a \in 1 .. EndOfFile /\ b \in 1 .. EndOfFile /\ IsExpr(a, b) /\ Token(a) \notin {"CHR", "HEX"}
    <2>1. a \in 1 .. EndOfFile /\ b \in 1 .. EndOfFile /\ IsExpr(a, b)
      BY <1>1, <1>3 DEF Is
    <2> QED
      BY <2>1, ExprBegins
  <1>4. ASSUME NEW a \in p .. j, NEW b \in p .. j, a < b, NEW t \in {"CHR", "HEX", Semicolon}, Is(t, a, b)
        PROVE  b = a + 1 /\ Token(a) = t
    <2>1. t \in ModifierTokens
      BY SemicolonApart, TwoModifiers
    <2>2. b = a + 1 /\ tokens[a] = t
      BY <1>4, <2>1, ModifierIs
    <2> QED
      BY <1>1, <2>2 DEF Token
  <1>5. CASE parts = <<"expr">>
    <2>1. Len(parts) = 1 /\ parts[1] = "expr"
      BY <1>5
    <2>2. PICK cut : Cuts(parts, p, j, 1, cut)
      BY <1>2, <2>1
    <2>3. cut[0] = p /\ cut[1] = j /\ p \in p .. j /\ j \in p .. j /\ Is("expr", p, j)
      <3>1. 1 \in 1 .. 1 /\ 1 - 1 = 0 /\ 0 \in 0 .. 1 /\ 1 \in 0 .. 1
        OBVIOUS
      <3> QED
        BY <2>1, <2>2, <3>1 DEF Cuts
    <2> QED
      BY <1>3, <2>3, PrintTakes
  <1>6. CASE parts = <<"expr", Semicolon>>
    <2>1. Len(parts) = 2 /\ parts[1] = "expr" /\ parts[2] = Semicolon
      BY <1>6
    <2>2. PICK cut : Cuts(parts, p, j, 2, cut)
      BY <1>2, <2>1
    <2>3. /\ cut[0] = p /\ cut[2] = j /\ p \in p .. j /\ j \in p .. j /\ cut[1] \in p .. j
          /\ Is("expr", p, cut[1]) /\ Is(Semicolon, cut[1], j) /\ cut[1] < j
      <3>1. 1 \in 1 .. 2 /\ 2 \in 1 .. 2 /\ 1 - 1 = 0 /\ 2 - 1 = 1 /\ 0 \in 0 .. 2 /\ 1 \in 0 .. 2 /\ 2 \in 0 .. 2
        OBVIOUS
      <3> QED
        BY <2>1, <2>2, <3>1 DEF Cuts
    <2>4. j = cut[1] + 1 /\ Token(cut[1]) = Semicolon
      BY <1>4, <2>3
    <2> QED
      BY <1>1, <1>3, <2>3, <2>4, PrintTakes
  <1>7. ASSUME NEW t \in {"CHR", "HEX"}, parts = <<t, "expr">>
        PROVE  Takes(Operands(PrintOperands, p), j) /\ Operands(PrintOperands, p).lost = FALSE
    <2>1. Len(parts) = 2 /\ parts[1] = t /\ parts[2] = "expr"
      BY <1>7
    <2>2. PICK cut : Cuts(parts, p, j, 2, cut)
      BY <1>2, <2>1
    <2>3. /\ cut[0] = p /\ cut[2] = j /\ p \in p .. j /\ j \in p .. j /\ cut[1] \in p .. j
          /\ Is(t, p, cut[1]) /\ p < cut[1] /\ Is("expr", cut[1], j)
      <3>1. 1 \in 1 .. 2 /\ 2 \in 1 .. 2 /\ 1 - 1 = 0 /\ 2 - 1 = 1 /\ 0 \in 0 .. 2 /\ 1 \in 0 .. 2 /\ 2 \in 0 .. 2
        OBVIOUS
      <3> QED
        BY <2>1, <2>2, <3>1 DEF Cuts
    <2>4. cut[1] = p + 1 /\ Token(p) = t
      BY <1>4, <2>3
    <2> QED
      BY <1>3, <2>3, <2>4, PrintTakes
  <1>8. ASSUME NEW t \in {"CHR", "HEX"}, parts = <<t, "expr", Semicolon>>
        PROVE  Takes(Operands(PrintOperands, p), j) /\ Operands(PrintOperands, p).lost = FALSE
    <2>1. Len(parts) = 3 /\ parts[1] = t /\ parts[2] = "expr" /\ parts[3] = Semicolon
      BY <1>8
    <2>2. PICK cut : Cuts(parts, p, j, 3, cut)
      BY <1>2, <2>1
    <2>3. /\ cut[0] = p /\ cut[3] = j /\ p \in p .. j /\ j \in p .. j /\ cut[1] \in p .. j /\ cut[2] \in p .. j
          /\ Is(t, p, cut[1]) /\ p < cut[1] /\ Is("expr", cut[1], cut[2]) /\ Is(Semicolon, cut[2], j) /\ cut[2] < j
      <3>1. /\ 1 \in 1 .. 3 /\ 2 \in 1 .. 3 /\ 3 \in 1 .. 3 /\ 1 - 1 = 0 /\ 2 - 1 = 1 /\ 3 - 1 = 2
            /\ 0 \in 0 .. 3 /\ 1 \in 0 .. 3 /\ 2 \in 0 .. 3 /\ 3 \in 0 .. 3
        OBVIOUS
      <3> QED
        BY <2>1, <2>2, <3>1 DEF Cuts
    <2>4. cut[1] = p + 1 /\ Token(p) = t /\ j = cut[2] + 1 /\ Token(cut[2]) = Semicolon
      BY <1>4, <2>3
    <2>5. /\ cut[1] \in 1 .. EndOfFile /\ cut[2] \in 1 .. EndOfFile /\ IsExpr(cut[1], cut[2])
          /\ Token(cut[2]) \notin Arithmetic
      BY <1>1, <1>3, <2>3, <2>4
    <2>6. (cut[1] = p + 1 /\ Token(p) \in {"CHR", "HEX"}) /\ (j = cut[2] + 1 /\ Token(cut[2]) = Semicolon)
      BY <2>4
    <2> QED
      BY <2>5, <2>6, PrintTakes
  <1> QED
    BY <1>5, <1>6, <1>7, <1>8, PrintSidesAre

LEMMA KeywordTakes ==
  ASSUME Source, NEW p \in 1 .. Len(tokens), NEW j \in 1 .. EndOfFile, NEW parts \in Sides(tokens[p]),
         AreParts(parts, p + 1, j), Token(j) \notin Arithmetic \cup {Semicolon}
  PROVE  Takes(Keyword(p), j)
  <1> DEFINE k == tokens[p]
             r == Operands(Rule(k, Token(p + 1)), p + 1)
  <1>1. k \in Statements \ {"READ"} /\ Token(p) = k /\ p + 1 \in 1 .. EndOfFile
    BY SidesThere DEF Token, Source, EndOfFile
  <1>2. Takes(r, j) /\ r.lost = FALSE
    <2>1. CASE k = "PRINT"
      <3>1. Rule(k, Token(p + 1)) = PrintOperands
        BY <2>1 DEF Rule
      <3> QED
        BY <1>1, <2>1, <3>1, PrintRuleTakes
    <2>2. CASE k # "PRINT"
      <3> HIDE DEF k
      <3> QED
        BY <1>1, <2>2, RuleTakes DEF k
    <2> QED
      BY <2>1, <2>2
  <1>3. Keyword(p) = Result(r.pos, Node(Token(p), Nested(r.node)), r.err)
    BY <1>1, <1>2 DEF Keyword
  <1> HIDE DEF r
  <1> QED
    BY <1>2, <1>3 DEF Result, Takes

\* The INCLUDEs in front of a keyword are skipped.
LEMMA KeywordStatementTakes ==
  ASSUME Source, NEW i \in 1 .. EndOfFile, NEW j \in 1 .. EndOfFile, CodeKeywordStatement(i, j),
         Token(j) \notin Arithmetic \cup {Semicolon}
  PROVE  Takes(Keyword(PastIncludes(i)), j) /\ Token(PastIncludes(i)) \in Keywords
  <1>1. /\ Len(tokens) \in Nat /\ i \in Nat \ {0} /\ EndOfFile = Len(tokens) + 1
        /\ \A h \in i .. Len(tokens) : Token(h) = tokens[h]
    BY TokenThere DEF Token
  <1>2. PICK k \in i .. j - 1 :
           /\ (k - i) % 2 = 0
           /\ \A h \in i .. k - 1 : (h - i) % 2 = 0 => tokens[h] = "INCLUDE"
           /\ \E parts \in Sides(tokens[k]) : AreParts(parts, k + 1, j)
    BY DEF CodeKeywordStatement
  <1>3. PICK parts \in Sides(tokens[k]) : AreParts(parts, k + 1, j)
    BY <1>2
  <1>4. k \in i .. Len(tokens) /\ k \in 1 .. Len(tokens) /\ Token(k) = tokens[k]
    BY <1>1, <1>2
  <1>5. tokens[k] \in Statements /\ tokens[k] # "INCLUDE"
    BY <1>3, SidesThere
  <1> DEFINE In(q) == (q - i) % 2 = 0 /\ Token(q) # "INCLUDE"
             S == {q \in i .. Len(tokens) : In(q)} \cup {Len(tokens) + 1}
  <1>6. S \in SUBSET Nat /\ S # {}
    <2> HIDE DEF In
    <2> QED
      BY <1>1
  <1>7. In(k)
    BY <1>2, <1>4, <1>5
  <1>8. k \in S
    <2> HIDE DEF In
    <2> QED
      BY <1>4, <1>7
  <1>9. ASSUME NEW q \in S, q < k PROVE FALSE
    <2>1. q \in i .. k - 1 /\ q \in i .. Len(tokens) /\ In(q)
      <3> HIDE DEF In
      <3> QED
        BY <1>1, <1>4, <1>9
    <2>2. (q - i) % 2 = 0 /\ Token(q) # "INCLUDE"
      BY <2>1
    <2> QED
      BY <1>1, <1>2, <2>1, <2>2
  <1>10. PastIncludes(i) = Min(S)
    BY DEF PastIncludes
  <1> HIDE DEF S
  <1>11. PastIncludes(i) = k
    <2>1. Min(S) \in S /\ Min(S) <= k /\ Min(S) \in Nat
      BY <1>6, <1>8, MinIsLeast
    <2>2. ~ (Min(S) < k)
      BY <1>9, <2>1
    <2> QED
      BY <1>4, <1>10, <2>1, <2>2
  <1> QED
    BY <1>3, <1>4, <1>5, <1>11, KeywordTakes, StatementsThere


-----------------------------------------------------------------------------
(***************************************************************************)
(* The way back: where the statement that is waited for has to end so that *)
(* the callers on the stack can go on to the end of the file.  expected[k] *)
(* are the places where the statement of the k-th caller, from the         *)
(* outermost on, may end.                                                  *)
(***************************************************************************)

\* The tokens that go on with what is in front of them.
Apart(t) == t \notin Arithmetic \cup {"AND", Semicolon}

LoopEnds(k, x) ==
    \/ tokens[k + 1] = "ENDLESS" /\ x = k + 2
    \/ tokens[k + 1] \in {"WHILE", "UNTIL"} /\ CodeBoolean(k + 2, x)

\* The caller f ends in ends, its statement ends where Before says.
Before(f, ends) ==
    CASE f.fn \in {"label", "else"} -> ends
      [] f.fn = "then" ->
            ends \cup {k \in 1 .. Len(tokens) : tokens[k] = "ELSE" /\ LastEnds(CodeEnds, k + 1) \cap ends # {}}
      [] f.fn = "do" ->
            {j \in 1 .. EndOfFile : \E k \in CodeEnds[j].all :
                k < Len(tokens) /\ tokens[k] = "LOOP" /\ \E x \in ends : LoopEnds(k, x)}
      [] OTHER ->
            {j \in 1 .. EndOfFile : \E k \in CodeEnds[j].all :
                /\ k < Len(tokens) /\ tokens[k] = "NEXT" /\ tokens[k + 1] \in NumericVariables
                /\ f.kids[1].kids[1] = Leaf(tokens[k + 1]) /\ k + 2 \in ends}

\* Nothing at such a place goes on with what is in front of it; an ELSE there
\* has its statement.
Sound(ends) ==
    \A j \in ends : /\ j \in 1 .. EndOfFile /\ Apart(Token(j))
                    /\ Token(j) = "ELSE" => LastEnds(CodeEnds, j + 1) \cap ends # {}

\* The body of a FOR comes after the initializer.
Headed(f) == f.fn = "for" => f.kids # <<>> /\ \E S : f.kids \in Seq(S)

Expected(c, e) ==
    /\ e[Len(c)] = {j \in 1 .. EndOfFile : EndOfFile \in CodeEnds[j].all}
    /\ \A k \in 1 .. Len(c) : e[k - 1] = Before(c[k], e[k])
    /\ \A k \in 0 .. Len(c) : Sound(e[k])
    /\ \A k \in 1 .. Len(c) : Headed(c[k])

\* The next token, when the statement that is waited for may end in ends.
ReadyAt(p, m, ends) ==
    /\ m = "statement" => LastEnds(CodeEnds, p) \cap ends # {}
    /\ m \in {"returned", "body"} => p \in ends

ProgramAt(p, c, m, h) == ~h /\ m # "crashed" /\ \E e : Expected(c, e) /\ ReadyAt(p, m, e[0])

OnTheWay == ProgramAt(pos, calls, mode, hadError)

ProgramInv == CodeStatements(1, EndOfFile) => OnTheWay

\* What a step makes of it.
ProgramOn == ProgramAt(pos', calls', mode', hadError')

LEMMA FirstsApart ==
  /\ Variables \cap (Statements \cup {"INCLUDE"} \cup LabelNames \cup {"IF", "DO", "FOR"}) = {}
  /\ LabelNames \cap (Statements \cup {"INCLUDE", "IF", "DO", "FOR"}) = {}
  /\ (Statements \cup {"INCLUDE"}) \cap {"IF", "DO", "FOR"} = {}
  BY DEF Variables, NumericVariables, StringVariables, Statements, LabelNames

\* The tokens that a statement may begin with.
FirstTokens == Variables \cup LabelNames \cup Statements \cup {"INCLUDE", "IF", "DO", "FOR"}

LEMMA FirstTokensApart ==
  /\ \A t \in FirstTokens : Apart(t) /\ t \notin {"EOF", "THEN", "TO", "ELSE", "LOOP", "NEXT"}
  /\ \A t \in {"EOF", "THEN", "TO", "ELSE", "LOOP", "NEXT"} : Apart(t)
  BY ZenonT(30) DEF FirstTokens, Apart, Semicolon, Arithmetic, Variables, NumericVariables, StringVariables, Statements, LabelNames

LEMMA FirstKeywords == FirstTokens \cap (Keywords \ {"IF", "DO", "FOR"}) \subseteq Statements \cup {"INCLUDE"}
  BY DEF FirstTokens, Variables, NumericVariables, StringVariables, LabelNames, Statements, Keywords, KeywordValues,
         Modifiers, Structure

LEMMA NotFirst == FirstTokens \cap (Literals \cup Arithmetic \cup Relations \cup Signs \cup Identifiers) = {}
  BY DEF FirstTokens, Variables, NumericVariables, StringVariables, LabelNames, Statements, Literals, NumericLiterals,
         StringLiterals, CharLiterals, Arithmetic, Relations, Signs, Identifiers

\* What a statement is, by its first token.
LEMMA FirstOf ==
  ASSUME Source, NEW i \in 1 .. EndOfFile, NEW j \in CodeEnds[i].one
  PROVE  /\ i \in 1 .. Len(tokens) /\ Token(i) = tokens[i] /\ tokens[i] \in FirstTokens /\ j \in i + 1 .. EndOfFile
         /\ tokens[i] \in Variables => IsAssign(i, j)
         /\ tokens[i] \in Statements \cup {"INCLUDE"} => CodeKeywordStatement(i, j)
         /\ tokens[i] \in LabelNames => j \in LastEnds(CodeEnds, i + 1)
         /\ tokens[i] = "IF" => \E k \in CodeThens(i) \cup CodeElses(CodeEnds, i) : j \in LastEnds(CodeEnds, k + 1)
         /\ tokens[i] = "DO" => \E k \in Loops(CodeEnds, i) : LoopEnds(k, j)
         /\ tokens[i] = "FOR" => \E k \in Nexts(CodeEnds, i) :
               tokens[k + 1] \in NumericVariables /\ tokens[k + 1] = tokens[i + 1] /\ j = k + 2
  <1>1. j \in CodeStatementEnds(CodeEnds, i) /\ j \in i + 1 .. EndOfFile
    BY EndsAre
  <1>2. EndOfFile = Len(tokens) + 1 /\ Len(tokens) \in Nat /\ i \in 1 .. Len(tokens) /\ Token(i) = tokens[i]
    BY <1>1, TokenThere DEF Token
  <1>3. \/ IsAssign(i, j)
        \/ CodeKeywordStatement(i, j)
        \/ tokens[i] \in LabelNames /\ j \in LastEnds(CodeEnds, i + 1)
        \/ tokens[i] = "IF" /\ \E k \in CodeThens(i) \cup CodeElses(CodeEnds, i) : j \in LastEnds(CodeEnds, k + 1)
        \/ tokens[i] = "DO" /\ \E k \in Loops(CodeEnds, i) : LoopEnds(k, j)
        \/ tokens[i] = "FOR" /\ \E k \in Nexts(CodeEnds, i) :
              tokens[k + 1] \in NumericVariables /\ tokens[k + 1] = tokens[i + 1] /\ j = k + 2
    BY <1>1 DEF CodeStatementEnds, LoopEnds
  <1>4. IsAssign(i, j) => tokens[i] \in Variables
    BY DEF IsAssign
  <1>5. CodeKeywordStatement(i, j) => tokens[i] \in Statements \cup {"INCLUDE"}
    <2> SUFFICES ASSUME CodeKeywordStatement(i, j) PROVE tokens[i] \in Statements \cup {"INCLUDE"}
      OBVIOUS
    <2>1. PICK k \in i .. j - 1 :
             /\ (k - i) % 2 = 0
             /\ \A h \in i .. k - 1 : (h - i) % 2 = 0 => tokens[h] = "INCLUDE"
             /\ \E parts \in Sides(tokens[k]) : AreParts(parts, k + 1, j)
      BY DEF CodeKeywordStatement
    <2>2. CASE k = i
      BY <2>1, <2>2, SidesThere
    <2>3. CASE k # i
      <3>1. i \in i .. k - 1 /\ (i - i) % 2 = 0
        BY <1>2, <2>1, <2>3
      <3> QED
        BY <2>1, <3>1
    <2> QED
      BY <2>2, <2>3
  <1> HIDE DEF LoopEnds
  <1> QED
    BY <1>1, <1>2, <1>3, <1>4, <1>5, FirstsApart DEF FirstTokens

\* Statements from j to k are none, or one and the rest.
LEMMA AllFirst ==
  ASSUME Source, NEW j \in 1 .. EndOfFile, NEW k \in CodeEnds[j].all, k # j
  PROVE  /\ Token(j) \in FirstTokens
         /\ \E q \in CodeEnds[j].one : k \in CodeEnds[q].all
  <1>1. PICK q \in CodeEnds[j].one : k \in CodeEnds[q].all
    BY EndsAre
  <1> QED
    BY <1>1, FirstOf

LEMMA SoundAtEnd ==
  ASSUME Source
  PROVE  Sound({j \in 1 .. EndOfFile : EndOfFile \in CodeEnds[j].all})
  <1> SUFFICES ASSUME NEW j \in 1 .. EndOfFile, EndOfFile \in CodeEnds[j].all PROVE Apart(Token(j)) /\ Token(j) # "ELSE"
    BY DEF Sound
  <1>1. CASE j = EndOfFile
    <2>1. Token(j) = "EOF"
      BY <1>1 DEF Token, EndOfFile, Source
    <2> QED
      BY <2>1, FirstTokensApart
  <1>2. CASE j # EndOfFile
    BY <1>2, AllFirst, FirstTokensApart
  <1> QED
    BY <1>1, <1>2

\* What the places have in common where a body may go on.
LEMMA SoundInBody ==
  ASSUME Source, NEW j \in 1 .. EndOfFile, NEW k \in CodeEnds[j].all, k < Len(tokens), tokens[k] \in {"LOOP", "NEXT"}
  PROVE  Apart(Token(j)) /\ Token(j) # "ELSE"
  <1>1. CASE j = k
    <2>1. Token(j) \in {"LOOP", "NEXT"}
      BY <1>1 DEF Token, Source, EndOfFile
    <2> QED
      BY <2>1, FirstTokensApart
  <1>2. CASE j # k
    BY <1>2, AllFirst, FirstTokensApart
  <1> QED
    BY <1>1, <1>2

LEMMA SoundBefore ==
  ASSUME Source, NEW f, f.fn \in Fn, NEW ends, Sound(ends)
  PROVE  Sound(Before(f, ends))
  <1>1. CASE f.fn \in {"label", "else"}
    BY <1>1 DEF Before
  <1>2. CASE f.fn = "then"
    <2> DEFINE more == {k \in 1 .. Len(tokens) : tokens[k] = "ELSE" /\ LastEnds(CodeEnds, k + 1) \cap ends # {}}
    <2>1. Before(f, ends) = ends \cup more
      BY <1>2 DEF Before
    <2>2. ASSUME NEW j \in more PROVE /\ j \in 1 .. EndOfFile /\ Apart(Token(j))
                                      /\ LastEnds(CodeEnds, j + 1) \cap (ends \cup more) # {}
      <3>1. j \in 1 .. EndOfFile /\ Token(j) = "ELSE"
        BY DEF Token, Source, EndOfFile
      <3>2. Apart(Token(j))
        BY <3>1, FirstTokensApart
      <3>3. LastEnds(CodeEnds, j + 1) \cap ends # {}
        BY <2>2
      <3> HIDE DEF more
      <3> QED
        BY <3>1, <3>2, <3>3
    <2> HIDE DEF more
    <2>3. ASSUME NEW j \in ends PROVE /\ j \in 1 .. EndOfFile /\ Apart(Token(j))
                                      /\ Token(j) = "ELSE" => LastEnds(CodeEnds, j + 1) \cap (ends \cup more) # {}
      BY <2>3 DEF Sound
    <2> QED
      BY <2>1, <2>2, <2>3 DEF Sound
  <1>3. CASE f.fn = "do"
    <2>1. \A j \in Before(f, ends) : j \in 1 .. EndOfFile /\ \E k \in CodeEnds[j].all :
             k < Len(tokens) /\ tokens[k] = "LOOP"
      BY <1>3 DEF Before
    <2> QED
      BY <2>1, SoundInBody DEF Sound
  <1>4. CASE f.fn = "for"
    <2>1. \A j \in Before(f, ends) : j \in 1 .. EndOfFile /\ \E k \in CodeEnds[j].all :
             k < Len(tokens) /\ tokens[k] = "NEXT"
      BY <1>4 DEF Before
    <2> QED
      BY <2>1, SoundInBody DEF Sound
  <1> QED
    BY <1>1, <1>2, <1>3, <1>4 DEF Fn

LEMMA ExpectedPop ==
  ASSUME NEW c, Stack(c), c # <<>>, NEW e, Expected(c, e)
  PROVE  /\ \E d : Expected(Tail(c), d) /\ d[0] = e[1]
         /\ e[0] = Before(c[1], e[1]) /\ Sound(e[1]) /\ Sound(e[0]) /\ Headed(c[1])
  <1>1. /\ Len(c) \in Nat /\ Len(c) >= 1 /\ Len(Tail(c)) = Len(c) - 1
        /\ \A i \in 1 .. Len(c) - 1 : Tail(c)[i] = c[i + 1]
    BY StackOf
  <1> DEFINE n == Len(c)
             d == [k \in 0 .. n - 1 |-> e[k + 1]]
             t == Tail(c)
  <1>2. \A k \in 0 .. n - 1 : k + 1 \in 0 .. n /\ d[k] = e[k + 1]
    BY <1>1
  <1>3. /\ e[n] = {j \in 1 .. EndOfFile : EndOfFile \in CodeEnds[j].all}
        /\ \A k \in 1 .. n : e[k - 1] = Before(c[k], e[k])
        /\ \A k \in 0 .. n : Sound(e[k])
        /\ \A k \in 1 .. n : Headed(c[k])
    BY DEF Expected
  <1> HIDE DEF n, d, t
  <1>4. \A k \in 1 .. n - 1 : d[k - 1] = Before(t[k], d[k]) /\ Headed(t[k])
    <2> TAKE k \in 1 .. n - 1
    <2>1. k + 1 \in 1 .. n /\ (k + 1) - 1 = k /\ k \in 0 .. n - 1 /\ k - 1 \in 0 .. n - 1 /\ (k - 1) + 1 = k
      BY <1>1 DEF n
    <2>2. d[k] = e[k + 1] /\ d[k - 1] = e[k] /\ t[k] = c[k + 1]
      BY <1>1, <1>2, <2>1 DEF n, t
    <2> QED
      BY <1>3, <2>1, <2>2
  <1>5. \A k \in 0 .. n - 1 : Sound(d[k])
    BY <1>2, <1>3
  <1>6. d[n - 1] = e[n] /\ d[0] = e[1] /\ Len(t) = n - 1
    BY <1>1, <1>2 DEF n, t
  <1>7. Expected(t, d)
    BY <1>3, <1>4, <1>5, <1>6 DEF Expected
  <1>8. 1 \in 1 .. n /\ 1 - 1 = 0 /\ 0 \in 0 .. n /\ 1 \in 0 .. n
    BY <1>1 DEF n
  <1> QED
    BY <1>3, <1>6, <1>7, <1>8 DEF t

LEMMA ExpectedPush ==
  ASSUME Source, NEW c, Stack(c), NEW e, Expected(c, e), NEW f, FrameTyped(f), Headed(f)
  PROVE  \E d : Expected(<<f>> \o c, d) /\ d[0] = Before(f, e[0])
  <1> DEFINE n == Len(c)
             t == <<f>> \o c
             d == [k \in 0 .. n + 1 |-> IF k = 0 THEN Before(f, e[0]) ELSE e[k - 1]]
  <1>1. n \in Nat /\ Len(t) = n + 1 /\ t[1] = f /\ \A i \in 1 .. n : t[i + 1] = c[i]
    BY StackOf, Pushed
  <1>2. /\ e[n] = {j \in 1 .. EndOfFile : EndOfFile \in CodeEnds[j].all}
        /\ \A k \in 1 .. n : e[k - 1] = Before(c[k], e[k])
        /\ \A k \in 0 .. n : Sound(e[k])
        /\ \A k \in 1 .. n : Headed(c[k])
    BY DEF Expected
  <1>3. d[0] = Before(f, e[0]) /\ \A k \in 1 .. n + 1 : k - 1 \in 0 .. n /\ d[k] = e[k - 1]
    BY <1>1
  <1> HIDE DEF n, d, t
  <1>4. Sound(d[0])
    <2>1. Sound(e[0])
      BY <1>1, <1>2
    <2> QED
      BY <1>3, <2>1, SoundBefore DEF FrameTyped
  <1>5. \A k \in 0 .. n + 1 : Sound(d[k])
    <2> TAKE k \in 0 .. n + 1
    <2>1. CASE k = 0
      BY <1>4, <2>1
    <2>2. CASE k # 0
      <3>1. k \in 1 .. n + 1
        BY <1>1, <2>2
      <3> QED
        BY <1>2, <1>3, <3>1
    <2> QED
      BY <2>1, <2>2
  <1>6. \A k \in 1 .. n + 1 : d[k - 1] = Before(t[k], d[k]) /\ Headed(t[k])
    <2> TAKE k \in 1 .. n + 1
    <2>1. CASE k = 1
      <3>1. d[1] = e[0] /\ 1 - 1 = 0
        BY <1>1, <1>3
      <3> QED
        BY <1>1, <1>3, <2>1, <3>1
    <2>2. CASE k # 1
      <3>1. k - 1 \in 1 .. n /\ (k - 1) + 1 = k /\ k - 1 \in 1 .. n + 1
        BY <1>1, <2>2
      <3>2. d[k] = e[k - 1] /\ d[k - 1] = e[(k - 1) - 1] /\ t[k] = c[k - 1]
        BY <1>1, <1>3, <3>1
      <3> QED
        BY <1>2, <3>1, <3>2
    <2> QED
      BY <2>1, <2>2
  <1>7. d[n + 1] = e[n]
    <2>1. n + 1 \in 1 .. n + 1 /\ (n + 1) - 1 = n
      BY <1>1
    <2> QED
      BY <1>3, <2>1
  <1>8. Expected(t, d)
    BY <1>1, <1>2, <1>5, <1>6, <1>7 DEF Expected
  <1> QED
    BY <1>3, <1>8 DEF t

\* The innermost caller becomes t[1].
LEMMA ExpectedOn ==
  ASSUME Source, NEW c, Stack(c), c # <<>>, NEW e, Expected(c, e),
         NEW t, Len(t) = Len(c), \A i \in 2 .. Len(c) : t[i] = c[i], t[1].fn \in Fn, Headed(t[1])
  PROVE  \E d : Expected(t, d) /\ d[0] = Before(t[1], e[1])
  <1> DEFINE n == Len(c)
             d == [k \in 0 .. n |-> IF k = 0 THEN Before(t[1], e[1]) ELSE e[k]]
  <1>1. n \in Nat /\ n >= 1
    BY StackOf
  <1>2. /\ e[n] = {j \in 1 .. EndOfFile : EndOfFile \in CodeEnds[j].all}
        /\ \A k \in 1 .. n : e[k - 1] = Before(c[k], e[k])
        /\ \A k \in 0 .. n : Sound(e[k])
        /\ \A k \in 1 .. n : Headed(c[k])
    BY DEF Expected
  <1>3. d[0] = Before(t[1], e[1]) /\ \A k \in 1 .. n : d[k] = e[k]
    BY <1>1
  <1> HIDE DEF d
  <1>4. \A k \in 0 .. n : Sound(d[k])
    <2> TAKE k \in 0 .. n
    <2>1. CASE k = 0
      <3>1. Sound(e[1])
        BY <1>1, <1>2
      <3> QED
        BY <1>3, <2>1, <3>1, SoundBefore
    <2>2. CASE k # 0
      <3>1. k \in 1 .. n
        BY <1>1, <2>2
      <3> QED
        BY <1>2, <1>3, <3>1
    <2> QED
      BY <2>1, <2>2
  <1>5. \A k \in 1 .. n : d[k - 1] = Before(t[k], d[k]) /\ Headed(t[k])
    <2> TAKE k \in 1 .. n
    <2>1. CASE k = 1
      <3>1. d[1] = e[1] /\ 1 - 1 = 0
        BY <1>1, <1>3
      <3> QED
        BY <1>3, <2>1, <3>1
    <2>2. CASE k # 1
      <3>1. k \in 2 .. n /\ k - 1 \in 1 .. n
        BY <1>1, <2>2
      <3>2. d[k] = e[k] /\ d[k - 1] = e[k - 1] /\ t[k] = c[k]
        BY <1>3, <3>1
      <3> QED
        BY <1>2, <3>2
    <2> QED
      BY <2>1, <2>2
  <1>6. d[n] = e[n]
    BY <1>1, <1>3
  <1> HIDE DEF n
  <1>7. Expected(t, d)
    BY <1>2, <1>4, <1>5, <1>6 DEF Expected, n
  <1> QED
    BY <1>3, <1>7

LEMMA WayOn ==
  ASSUME NEW c, NEW e, Expected(c, e), NEW p, NEW m \in Modes \ {"crashed"}, ReadyAt(p, m, e[0])
  PROVE  ProgramAt(p, c, m, FALSE)
  BY DEF ProgramAt

LEMMA SoundHere ==
  ASSUME NEW c, Stack(c), NEW e, Expected(c, e)
  PROVE  Sound(e[0])
  <1>1. 0 \in 0 .. Len(c)
    BY StackOf
  <1> QED
    BY <1>1 DEF Expected

\* A statement begins at pos, and may end where the callers can go on.
LEMMA WayBegins ==
  ASSUME TypeInv, OnTheWay, NEW ts, At(ts), "EOF" \notin ts
  PROVE  /\ \E e : /\ Expected(calls, e) /\ Sound(e[0])
                   /\ \E x \in e[0] : x \in CodeEnds[pos].one /\ x \in 1 .. EndOfFile /\ Apart(Token(x))
         /\ hadError = FALSE /\ Source /\ Stack(calls) /\ Token(pos) \in ts /\ Token(pos) = tokens[pos]
         /\ tokens[pos] \in FirstTokens
         /\ pos \in 1 .. Len(tokens) /\ pos \in 1 .. EndOfFile /\ pos + 1 \in 1 .. EndOfFile
         /\ EndOfFile = Len(tokens) + 1 /\ Len(tokens) \in Nat
  <1>1. /\ mode = "statement" /\ Token(pos) \in ts /\ Source /\ pos \in 1 .. Len(tokens) /\ pos + 1 \in 1 .. EndOfFile
        /\ pos \in 1 .. EndOfFile /\ Token(pos) = tokens[pos]
    BY Begun
  <1>2. hadError = FALSE /\ \E e : Expected(calls, e) /\ ReadyAt(pos, mode, e[0])
    BY DEF OnTheWay, ProgramAt, TypeInv
  <1>3. PICK e : Expected(calls, e) /\ ReadyAt(pos, mode, e[0])
    BY <1>2
  <1>4. Stack(calls) /\ Sound(e[0]) /\ EndOfFile = Len(tokens) + 1 /\ Len(tokens) \in Nat
    BY <1>1, <1>3, SoundHere, TokenThere DEF TypeInv
  <1>5. PICK x \in e[0] : x \in LastEnds(CodeEnds, pos)
    BY <1>1, <1>3 DEF ReadyAt
  <1>6. x \in CodeEnds[pos].one
    BY <1>1, <1>4, <1>5 DEF LastEnds
  <1>7. x \in 1 .. EndOfFile /\ Apart(Token(x))
    BY <1>4 DEF Sound
  <1>8. tokens[pos] \in FirstTokens
    BY <1>1, <1>6, FirstOf
  <1> QED
    BY <1>1, <1>2, <1>3, <1>4, <1>6, <1>7, <1>8

LEMMA WayAtEnd ==
  ASSUME TypeInv, OnTheWay, ParseEndOfFile
  PROVE  ProgramOn
  <1>1. /\ mode = "statement" /\ Token(pos) = "EOF" /\ pos' = pos /\ mode' = "returned"
        /\ hadError' = (hadError \/ FALSE) /\ calls' = calls
    BY DEF ParseEndOfFile, At, Return, Result
  <1>2. hadError = FALSE /\ \E e : Expected(calls, e) /\ ReadyAt(pos, mode, e[0])
    BY DEF OnTheWay, ProgramAt, TypeInv
  <1>3. PICK e : Expected(calls, e) /\ ReadyAt(pos, mode, e[0])
    BY <1>2
  <1>4. PICK x \in e[0] : x \in LastEnds(CodeEnds, pos)
    BY <1>1, <1>3 DEF ReadyAt
  <1>5. pos = EndOfFile /\ pos \in 1 .. EndOfFile /\ EndOfFile \in Nat
    BY <1>1, TokenThere DEF TypeInv
  <1>6. CodeEnds[pos].one = {}
    <2>1. CodeEnds[pos].one \subseteq pos + 1 .. EndOfFile
      BY <1>5, EndsAre DEF TypeInv
    <2> QED
      BY <1>5, <2>1
  <1>7. x = pos
    BY <1>4, <1>6 DEF LastEnds
  <1>8. ReadyAt(pos, "returned", e[0])
    BY <1>4, <1>7 DEF ReadyAt
  <1> QED
    BY <1>1, <1>2, <1>3, <1>8 DEF ProgramOn, ProgramAt

LEMMA WayAssign ==
  ASSUME TypeInv, OnTheWay, ParseAssign
  PROVE  ProgramOn
  <1>1. /\ At(Variables) /\ calls' = calls /\ pos' = Assign(pos).pos /\ mode' = "returned"
        /\ hadError' = (hadError \/ Assign(pos).err)
    BY DEF ParseAssign, Return
  <1>2. PICK e : /\ Expected(calls, e) /\ Sound(e[0])
                 /\ \E x \in e[0] : x \in CodeEnds[pos].one /\ x \in 1 .. EndOfFile /\ Apart(Token(x))
    BY <1>1, FirstWords, WayBegins
  <1>3. PICK x \in e[0] : x \in CodeEnds[pos].one /\ x \in 1 .. EndOfFile /\ Apart(Token(x))
    BY <1>2
  <1>4. hadError = FALSE /\ Source /\ pos \in 1 .. EndOfFile /\ tokens[pos] \in Variables
    BY <1>1, FirstWords, WayBegins
  <1>5. IsAssign(pos, x) /\ Token(x) \notin Arithmetic
    BY <1>3, <1>4, FirstOf DEF Apart
  <1>6. Assign(pos).pos = x /\ Assign(pos).err = FALSE
    BY <1>3, <1>4, <1>5, AssignTakes DEF Takes
  <1>7. ReadyAt(x, "returned", e[0])
    BY <1>3 DEF ReadyAt
  <1> QED
    BY <1>1, <1>2, <1>4, <1>6, <1>7 DEF ProgramOn, ProgramAt

LEMMA WayKeyword ==
  ASSUME TypeInv, OnTheWay, ParseKeyword
  PROVE  ProgramOn
  <1> DEFINE k == PastIncludes(pos)
             ts == Keywords \ {"IF", "DO", "FOR"}
  <1>1. At(ts) /\ calls' = calls /\ "EOF" \notin ts
    BY FirstWords DEF ParseKeyword
  <1>2. Token(k) \in Keywords => pos' = Keyword(k).pos /\ mode' = "returned" /\ hadError' = (hadError \/ Keyword(k).err)
    BY DEF ParseKeyword, Return
  <1> HIDE DEF k, ts
  <1>3. PICK e : /\ Expected(calls, e) /\ Sound(e[0])
                 /\ \E x \in e[0] : x \in CodeEnds[pos].one /\ x \in 1 .. EndOfFile /\ Apart(Token(x))
    BY <1>1, WayBegins
  <1>4. PICK x \in e[0] : x \in CodeEnds[pos].one /\ x \in 1 .. EndOfFile /\ Apart(Token(x))
    BY <1>3
  <1>5. hadError = FALSE /\ Source /\ pos \in 1 .. EndOfFile /\ tokens[pos] \in ts /\ tokens[pos] \in FirstTokens
    BY <1>1, WayBegins
  <1>6. tokens[pos] \in Statements \cup {"INCLUDE"}
    BY <1>5, FirstKeywords DEF ts
  <1>7. CodeKeywordStatement(pos, x) /\ Token(x) \notin Arithmetic \cup {Semicolon}
    BY <1>4, <1>5, <1>6, FirstOf DEF Apart
  <1>8. Takes(Keyword(k), x) /\ Token(k) \in Keywords
    BY <1>4, <1>5, <1>7, KeywordStatementTakes DEF k
  <1>9. ReadyAt(x, "returned", e[0])
    BY <1>4 DEF ReadyAt
  <1> QED
    BY <1>1, <1>2, <1>3, <1>5, <1>8, <1>9 DEF ProgramOn, ProgramAt, Takes

LEMMA WayUnexpected ==
  ASSUME TypeInv, OnTheWay, ParseUnexpected
  PROVE  FALSE
  <1> DEFINE ts == Literals \cup Arithmetic \cup Relations \cup Signs \cup Identifiers
  <1>1. At(ts) /\ "EOF" \notin ts
    BY FirstWords DEF ParseUnexpected
  <1> HIDE DEF ts
  <1>2. tokens[pos] \in ts /\ tokens[pos] \in FirstTokens
    BY <1>1, WayBegins
  <1> QED
    BY <1>2, NotFirst DEF ts

\* A function waits for the statement at p, which may end in ends.
LEMMA WayAwaits ==
  ASSUME TypeInv, NEW e, Expected(calls, e), NEW f, FrameTyped(f), Headed(f), NEW p,
         NEW m \in {"statement", "body"}, ReadyAt(p, m, Before(f, e[0]))
  PROVE  ProgramAt(p, <<f>> \o calls, m, FALSE)
  <1>1. PICK d : Expected(<<f>> \o calls, d) /\ d[0] = Before(f, e[0])
    BY ExpectedPush DEF TypeInv
  <1> QED
    BY <1>1 DEF ProgramAt

LEMMA WayLabel ==
  ASSUME TypeInv, OnTheWay, ParseLabel
  PROVE  ProgramOn
  <1> DEFINE f == [fn |-> "label", kids |-> <<Leaf(Token(pos))>>]
  <1>1. /\ At(LabelNames) /\ calls' = <<f>> \o calls /\ pos' = pos + 1 /\ mode' = mode
        /\ hadError' = (hadError \/ FALSE) /\ mode = "statement"
    BY DEF ParseLabel, Await, Result, At
  <1>2. PICK e : /\ Expected(calls, e) /\ Sound(e[0])
                 /\ \E x \in e[0] : x \in CodeEnds[pos].one /\ x \in 1 .. EndOfFile /\ Apart(Token(x))
    BY <1>1, FirstWords, WayBegins
  <1>3. PICK x \in e[0] : x \in CodeEnds[pos].one
    BY <1>2
  <1>4. /\ hadError = FALSE /\ Source /\ pos \in 1 .. EndOfFile /\ tokens[pos] \in LabelNames
        /\ Token(pos) = tokens[pos]
    BY <1>1, FirstWords, WayBegins
  <1>5. x \in LastEnds(CodeEnds, pos + 1)
    BY <1>3, <1>4, FirstOf
  <1>6. f.fn = "label" /\ FrameTyped(f) /\ Headed(f)
    BY <1>4 DEF FrameTyped, Fn, Leaf, Node, Headed
  <1> HIDE DEF f
  <1>7. Before(f, e[0]) = e[0]
    BY <1>6 DEF Before
  <1>8. ReadyAt(pos + 1, "statement", Before(f, e[0]))
    BY <1>3, <1>5, <1>7 DEF ReadyAt
  <1> QED
    BY <1>1, <1>2, <1>4, <1>6, <1>8, WayAwaits DEF ProgramOn

LEMMA WayIf ==
  ASSUME TypeInv, OnTheWay, ParseIf
  PROVE  ProgramOn
  <1> DEFINE cond == BooleanExpr(pos + 1)
             f == [fn |-> "then", kids |-> <<cond.node>>]
  <1>1. At({"IF"}) /\ mode = "statement"
    BY DEF ParseIf, At
  <1>2. PICK e : /\ Expected(calls, e) /\ Sound(e[0])
                 /\ \E x \in e[0] : x \in CodeEnds[pos].one /\ x \in 1 .. EndOfFile /\ Apart(Token(x))
    BY <1>1, WayBegins
  <1>3. PICK x \in e[0] : x \in CodeEnds[pos].one
    BY <1>2
  <1>4. /\ hadError = FALSE /\ Source /\ pos \in 1 .. EndOfFile /\ tokens[pos] = "IF" /\ pos + 1 \in 1 .. EndOfFile
        /\ EndOfFile = Len(tokens) + 1 /\ Len(tokens) \in Nat /\ pos \in 1 .. Len(tokens)
    <2>1. "EOF" \notin {"IF"}
      OBVIOUS
    <2>2. tokens[pos] \in {"IF"}
      BY <1>1, <2>1, WayBegins
    <2> QED
      BY <1>1, <2>1, <2>2, WayBegins
  <1>5. PICK k \in CodeThens(pos) \cup CodeElses(CodeEnds, pos) : x \in LastEnds(CodeEnds, k + 1)
    BY <1>3, <1>4, FirstOf
  <1>6. f.fn = "then" /\ FrameTyped(f) /\ Headed(f)
    BY DEF FrameTyped, Fn, Headed
  <1> HIDE DEF cond, f
  <1>7. Before(f, e[0]) = e[0] \cup {h \in 1 .. Len(tokens) : tokens[h] = "ELSE" /\ LastEnds(CodeEnds, h + 1) \cap e[0] # {}}
    BY <1>6 DEF Before
  <1>8. PICK t \in CodeThens(pos) : ReadyAt(t + 1, "statement", Before(f, e[0]))
    <2>1. CASE k \in CodeThens(pos)
      BY <1>3, <1>5, <1>7, <2>1 DEF ReadyAt
    <2>2. CASE k \in CodeElses(CodeEnds, pos)
      <3>1. PICK t \in CodeThens(pos) : k \in CodeEnds[t + 1].one
        BY <2>2 DEF CodeElses
      <3>2. tokens[k] = "ELSE" /\ k \in 1 .. Len(tokens)
        BY <1>4, <2>2, PartsBehind, SMTT(20) DEF CodeElses
      <3>3. k \in Before(f, e[0])
        BY <1>3, <1>5, <1>7, <3>2
      <3>4. k \in LastEnds(CodeEnds, t + 1)
        BY <3>1 DEF LastEnds
      <3> QED
        BY <3>3, <3>4 DEF ReadyAt
    <2> QED
      BY <2>1, <2>2
  <1>9. t \in 1 .. EndOfFile /\ tokens[t] = "THEN" /\ Token(t) = "THEN" /\ CodeBoolean(pos + 1, t)
    BY <1>4 DEF CodeThens, Token
  <1>10. Token(t) \notin Arithmetic \cup {"AND"}
    BY <1>9, FirstTokensApart DEF Apart
  <1>11. cond.pos = t /\ cond.err = FALSE
    BY <1>4, <1>9, <1>10, BooleanTakes DEF Takes, cond
  <1>12. Await(f, Result(cond.pos + 1, cond.node, cond.err)) /\ mode' = mode
    BY <1>9, <1>11 DEF ParseIf, cond, f
  <1>13. calls' = <<f>> \o calls /\ pos' = t + 1 /\ hadError' = FALSE
    BY <1>4, <1>11, <1>12 DEF Await, Result
  <1> QED
    BY <1>1, <1>2, <1>6, <1>8, <1>12, <1>13, WayAwaits DEF ProgramOn

LEMMA WayDo ==
  ASSUME TypeInv, OnTheWay, ParseDo
  PROVE  ProgramOn
  <1> DEFINE f == [fn |-> "do", kids |-> <<>>]
  <1>1. /\ At({"DO"}) /\ calls' = <<f>> \o calls /\ pos' = pos + 1 /\ mode' = "body"
        /\ hadError' = (hadError \/ FALSE)
    BY DEF ParseDo, Await, Result
  <1>2. PICK e : /\ Expected(calls, e) /\ Sound(e[0])
                 /\ \E x \in e[0] : x \in CodeEnds[pos].one /\ x \in 1 .. EndOfFile /\ Apart(Token(x))
    BY <1>1, WayBegins
  <1>3. PICK x \in e[0] : x \in CodeEnds[pos].one
    BY <1>2
  <1>4. hadError = FALSE /\ Source /\ pos \in 1 .. EndOfFile /\ tokens[pos] = "DO" /\ pos + 1 \in 1 .. EndOfFile
    <2>1. "EOF" \notin {"DO"}
      OBVIOUS
    <2>2. tokens[pos] \in {"DO"}
      BY <1>1, <2>1, WayBegins
    <2> QED
      BY <1>1, <2>1, <2>2, WayBegins
  <1>5. PICK k \in Loops(CodeEnds, pos) : LoopEnds(k, x)
    BY <1>3, <1>4, FirstOf
  <1>6. f.fn = "do" /\ FrameTyped(f) /\ Headed(f)
    BY DEF FrameTyped, Fn, Headed
  <1> HIDE DEF f
  <1>7. k \in CodeEnds[pos + 1].all /\ k < Len(tokens) /\ tokens[k] = "LOOP"
    BY DEF Loops
  <1>8. pos + 1 \in Before(f, e[0])
    BY <1>3, <1>4, <1>5, <1>6, <1>7 DEF Before
  <1>9. ReadyAt(pos + 1, "body", Before(f, e[0]))
    BY <1>8 DEF ReadyAt
  <1> QED
    BY <1>1, <1>2, <1>4, <1>6, <1>9, WayAwaits DEF ProgramOn

LEMMA WayFor ==
  ASSUME TypeInv, OnTheWay, ParseFor
  PROVE  ProgramOn
  <1> DEFINE init == Assign(pos + 1)
             to   == Expr(init.pos + 1)
             f    == [fn |-> "for", kids |-> <<init.node, to.node>>]
  <1>1. At({"FOR"})
    BY DEF ParseFor
  <1>2. PICK e : /\ Expected(calls, e) /\ Sound(e[0])
                 /\ \E x \in e[0] : x \in CodeEnds[pos].one /\ x \in 1 .. EndOfFile /\ Apart(Token(x))
    BY <1>1, WayBegins
  <1>3. PICK x \in e[0] : x \in CodeEnds[pos].one
    BY <1>2
  <1>4. /\ hadError = FALSE /\ Source /\ pos \in 1 .. EndOfFile /\ tokens[pos] = "FOR" /\ pos + 1 \in 1 .. EndOfFile
        /\ EndOfFile = Len(tokens) + 1 /\ Len(tokens) \in Nat /\ pos \in 1 .. Len(tokens)
    <2>1. "EOF" \notin {"FOR"}
      OBVIOUS
    <2>2. tokens[pos] \in {"FOR"}
      BY <1>1, <2>1, WayBegins
    <2> QED
      BY <1>1, <2>1, <2>2, WayBegins
  <1>5. PICK k \in Nexts(CodeEnds, pos) :
           tokens[k + 1] \in NumericVariables /\ tokens[k + 1] = tokens[pos + 1] /\ x = k + 2
    BY <1>3, <1>4, FirstOf
  <1>6. PICK m \in Headers(pos) : k \in CodeEnds[m].all
    BY DEF Nexts
  <1>7. m \in 1 .. EndOfFile /\ k < Len(tokens) /\ tokens[k] = "NEXT"
    BY <1>4, PartsBehind DEF Nexts
  <1>8. PICK q \in pos + 1 .. m - 1 : tokens[q] = "TO" /\ IsAssign(pos + 1, q) /\ IsExpr(q + 1, m)
    BY DEF Headers
  <1>9. q \in 1 .. EndOfFile /\ q + 1 \in 1 .. EndOfFile /\ Token(q) = "TO"
    BY <1>4, <1>7, <1>8 DEF Token
  <1>10. Apart(Token(m))
    BY <1>4, <1>6, <1>7, SoundInBody
  <1>11. Takes(init, q) /\ init.node # NULL /\ init.node.kids[1] = Leaf(tokens[pos + 1])
    <2>1. Token(q) \notin Arithmetic
      BY <1>9, FirstTokensApart DEF Apart
    <2> QED
      BY <1>4, <1>8, <1>9, <2>1, AssignTakes
  <1>12. Token(pos + 1) \in NumericVariables
    <2>1. pos + 1 \in 1 .. Len(tokens)
      BY <1>4, <1>7, <1>8
    <2> QED
      BY <1>5, <2>1 DEF Token
  <1>13. f.fn = "for" /\ FrameTyped(f) /\ Headed(f) /\ f.kids[1] = init.node
    <2>1. <<init.node, to.node>> \in Seq({init.node, to.node}) /\ <<init.node, to.node>> # <<>>
      OBVIOUS
    <2> HIDE DEF init, to
    <2> QED
      BY <2>1 DEF FrameTyped, Fn, Headed
  <1> HIDE DEF f
  <1>14. /\ Await(f, Result(to.pos, to.node, to.err \/ init.err)) /\ mode' = "body"
    <2>1. Token(init.pos) = "TO"
      BY <1>9, <1>11 DEF Takes
    <2> QED
      BY <1>11, <1>12, <2>1 DEF ParseFor, f
  <1>15. to.pos = m /\ to.err = FALSE
    <2>1. init.pos = q
      BY <1>11 DEF Takes
    <2>2. Token(m) \notin Arithmetic
      BY <1>10 DEF Apart
    <2>3. Takes(Expr(q + 1), m)
      BY <1>4, <1>7, <1>8, <1>9, <2>2, ExprTakes
    <2> QED
      BY <2>1, <2>3 DEF Takes
  <1>16. init.err = FALSE
    BY <1>11 DEF Takes
  <1> HIDE DEF init, to
  <1>17. calls' = <<f>> \o calls /\ pos' = m /\ hadError' = FALSE
    BY <1>4, <1>14, <1>15, <1>16 DEF Await, Result
  <1>18. m \in Before(f, e[0])
    <2>1. f.kids[1].kids[1] = Leaf(tokens[k + 1])
      BY <1>5, <1>11, <1>13
    <2> QED
      BY <1>3, <1>5, <1>6, <1>7, <1>13, <2>1 DEF Before
  <1>19. ReadyAt(m, "body", Before(f, e[0]))
    BY <1>18 DEF ReadyAt
  <1> QED
    BY <1>2, <1>13, <1>14, <1>17, <1>19, WayAwaits DEF ProgramOn

\* A function returns; its statement ends at p.
LEMMA WayPop ==
  ASSUME NEW c, Stack(c), c # <<>>, NEW e, Expected(c, e), NEW p \in e[1]
  PROVE  ProgramAt(p, Tail(c), "returned", FALSE)
  <1>1. PICK d : Expected(Tail(c), d) /\ d[0] = e[1]
    BY ExpectedPop
  <1> QED
    BY <1>1 DEF ProgramAt, ReadyAt

\* The innermost function goes on, at p.
LEMMA WayGoesOn ==
  ASSUME Source, NEW c, Stack(c), c # <<>>, NEW e, Expected(c, e),
         NEW t, Len(t) = Len(c), \A i \in 2 .. Len(c) : t[i] = c[i], t[1].fn \in Fn, Headed(t[1]),
         NEW p, NEW m \in Modes \ {"crashed"}, ReadyAt(p, m, Before(t[1], e[1]))
  PROVE  ProgramAt(p, t, m, FALSE)
  <1>1. PICK d : Expected(t, d) /\ d[0] = Before(t[1], e[1])
    BY ExpectedOn
  <1> QED
    BY <1>1 DEF ProgramAt

LEMMA WayBack ==
  ASSUME TypeInv, OnTheWay, NEW fn \in Fn, Returned(fn)
  PROVE  /\ \E e : Expected(calls, e) /\ pos \in e[0] /\ e[0] = Before(calls[1], e[1]) /\ Sound(e[1])
         /\ calls[1].fn = fn /\ Head(calls) = calls[1] /\ Stack(calls) /\ calls # <<>> /\ Source
         /\ Headed(calls[1]) /\ FrameTyped(calls[1]) /\ mode = "returned" /\ hadError = FALSE /\ pos \in 1 .. EndOfFile
  <1>1. /\ mode = "returned" /\ calls[1].fn = fn /\ Head(calls) = calls[1] /\ Stack(calls) /\ calls # <<>> /\ Source
        /\ FrameTyped(calls[1])
    BY Back DEF TypeInv
  <1>2. hadError = FALSE /\ \E e : Expected(calls, e) /\ ReadyAt(pos, mode, e[0])
    BY DEF OnTheWay, ProgramAt, TypeInv
  <1>3. PICK e : Expected(calls, e) /\ pos \in e[0]
    BY <1>1, <1>2 DEF ReadyAt
  <1>4. e[0] = Before(calls[1], e[1]) /\ Sound(e[1]) /\ Headed(calls[1])
    BY <1>1, <1>3, ExpectedPop
  <1>5. pos \in 1 .. EndOfFile
    BY DEF TypeInv
  <1> QED
    BY <1>1, <1>2, <1>3, <1>4, <1>5

LEMMA WayBackToLabel ==
  ASSUME TypeInv, OnTheWay, ReturnToLabel
  PROVE  ProgramOn
  <1>1. Returned("label") /\ calls' = Tail(calls) /\ pos' = pos /\ mode' = mode /\ hadError' = hadError
    BY DEF ReturnToLabel
  <1>2. /\ calls[1].fn = "label" /\ Stack(calls) /\ calls # <<>> /\ mode = "returned" /\ hadError = FALSE
    BY <1>1, WayBack DEF Fn
  <1>3. PICK e : Expected(calls, e) /\ pos \in e[0] /\ e[0] = Before(calls[1], e[1])
    BY <1>1, WayBack DEF Fn
  <1>4. pos \in e[1]
    BY <1>2, <1>3 DEF Before
  <1> QED
    BY <1>1, <1>2, <1>3, <1>4, WayPop DEF ProgramOn

LEMMA WayBackToElse ==
  ASSUME TypeInv, OnTheWay, ReturnToElse
  PROVE  ProgramOn
  <1>1. Returned("else") /\ calls' = Tail(calls) /\ pos' = pos /\ mode' = mode /\ hadError' = hadError
    BY DEF ReturnToElse
  <1>2. /\ calls[1].fn = "else" /\ Stack(calls) /\ calls # <<>> /\ mode = "returned" /\ hadError = FALSE
    BY <1>1, WayBack DEF Fn
  <1>3. PICK e : Expected(calls, e) /\ pos \in e[0] /\ e[0] = Before(calls[1], e[1])
    BY <1>1, WayBack DEF Fn
  <1>4. pos \in e[1]
    BY <1>2, <1>3 DEF Before
  <1> QED
    BY <1>1, <1>2, <1>3, <1>4, WayPop DEF ProgramOn

\* An ELSE is taken by the innermost IF.  The program may mean it for another one:
\* then that one goes on without it.
LEMMA WayBackToThen ==
  ASSUME TypeInv, OnTheWay, ReturnToThen
  PROVE  ProgramOn
  <1>1. Returned("then") /\ hadError' = hadError
    BY DEF ReturnToThen
  <1>2. /\ calls[1].fn = "then" /\ Head(calls) = calls[1] /\ Stack(calls) /\ calls # <<>> /\ mode = "returned"
        /\ hadError = FALSE /\ Source /\ pos \in 1 .. EndOfFile /\ FrameTyped(calls[1])
    BY <1>1, WayBack DEF Fn
  <1>3. PICK e : Expected(calls, e) /\ pos \in e[0] /\ e[0] = Before(calls[1], e[1]) /\ Sound(e[1])
    BY <1>1, WayBack DEF Fn
  <1>4. pos \in e[1] \/ (pos \in 1 .. Len(tokens) /\ tokens[pos] = "ELSE" /\ LastEnds(CodeEnds, pos + 1) \cap e[1] # {})
    BY <1>2, <1>3 DEF Before
  <1>5. CASE TakesElse
    <2> DEFINE kids == Append(Head(calls).kids, ret)
               f == [fn |-> "else", kids |-> kids]
               t == <<f>> \o Tail(calls)
    <2>1. calls' = t /\ pos' = pos + 1 /\ mode' = "statement"
      BY <1>5 DEF ReturnToThen
    <2>2. f.fn = "else" /\ FrameTyped(f) /\ Headed(f) /\ f.fn \in Fn
      BY DEF FrameTyped, Fn, Headed
    <2> HIDE DEF f
    <2>3. Len(t) = Len(calls) /\ t[1] = f /\ \A i \in 2 .. Len(calls) : t[i] = calls[i]
      BY <1>2, <2>2, Replaced
    <2> HIDE DEF t
    <2>4. LastEnds(CodeEnds, pos + 1) \cap e[1] # {}
      <3>1. Token(pos) = "ELSE"
        BY <1>5 DEF TakesElse
      <3> QED
        BY <1>3, <1>4, <3>1 DEF Sound
    <2>5. ReadyAt(pos + 1, "statement", Before(t[1], e[1]))
      BY <2>2, <2>3, <2>4 DEF Before, ReadyAt
    <2>6. "statement" \in Modes \ {"crashed"}
      BY DEF Modes
    <2>7. ProgramAt(pos + 1, t, "statement", FALSE)
      BY <1>2, <1>3, <2>2, <2>3, <2>5, <2>6, WayGoesOn
    <2> QED
      BY <1>1, <1>2, <2>1, <2>7 DEF ProgramOn
  <1>6. CASE ~TakesElse
    <2>1. calls' = Tail(calls) /\ pos' = pos /\ mode' = mode
      BY <1>6 DEF ReturnToThen
    <2>2. ~ (pos \in 1 .. Len(tokens) /\ tokens[pos] = "ELSE")
      BY <1>2, <1>6 DEF TakesElse, Token, Source
    <2>3. pos \in e[1]
      BY <1>4, <2>2
    <2> QED
      BY <1>1, <1>2, <1>3, <2>1, <2>3, WayPop DEF ProgramOn
  <1> QED
    BY <1>5, <1>6

LEMMA WayBackToBody ==
  ASSUME TypeInv, OnTheWay, ReturnToBody
  PROVE  ProgramOn
  <1> DEFINE kids == Append(calls[1].kids, ret)
  <1>1. PICK fn \in {"do", "for"} : Returned(fn)
    BY DEF ReturnToBody
  <1>2. /\ calls' = [calls EXCEPT ![1].kids = kids] /\ mode' = "body" /\ pos' = pos /\ hadError' = hadError
    BY DEF ReturnToBody
  <1>3. fn \in Fn
    BY DEF Fn
  <1>4. /\ calls[1].fn = fn /\ Stack(calls) /\ calls # <<>> /\ hadError = FALSE /\ Source /\ Headed(calls[1])
    BY <1>1, <1>3, WayBack
  <1>5. PICK e : Expected(calls, e) /\ pos \in e[0] /\ e[0] = Before(calls[1], e[1])
    BY <1>1, <1>3, WayBack
  <1> HIDE DEF kids
  <1>6. /\ Len(calls') = Len(calls) /\ calls'[1].fn = fn /\ calls'[1].kids = kids
        /\ \A i \in 2 .. Len(calls) : calls'[i] = calls[i]
    BY <1>2, <1>4, Grown
  <1>7. fn = "for" => kids # <<>> /\ (\E S : kids \in Seq(S)) /\ kids[1] = calls[1].kids[1]
    <2> SUFFICES ASSUME fn = "for" PROVE kids # <<>> /\ (\E S : kids \in Seq(S)) /\ kids[1] = calls[1].kids[1]
      OBVIOUS
    <2>1. PICK S : calls[1].kids \in Seq(S) /\ calls[1].kids # <<>>
      BY <1>4 DEF Headed
    <2>2. calls[1].kids \in Seq(S \cup {ret}) /\ ret \in S \cup {ret}
      BY <2>1
    <2>3. /\ kids \in Seq(S \cup {ret}) /\ Len(kids) = Len(calls[1].kids) + 1
          /\ \A i \in 1 .. Len(calls[1].kids) : kids[i] = calls[1].kids[i]
      BY <2>2, AppendProperties DEF kids
    <2>4. Len(calls[1].kids) \in Nat /\ Len(calls[1].kids) >= 1
      BY <2>1
    <2> QED
      BY <2>3, <2>4
  <1>8. Headed(calls'[1]) /\ calls'[1].fn \in Fn
    BY <1>3, <1>6, <1>7 DEF Headed
  <1>9. Before(calls'[1], e[1]) = Before(calls[1], e[1])
    BY <1>4, <1>6, <1>7 DEF Before
  <1>10. ReadyAt(pos, "body", Before(calls'[1], e[1])) /\ "body" \in Modes \ {"crashed"}
    BY <1>5, <1>9 DEF ReadyAt, Modes
  <1> DEFINE t == calls'
  <1>11. /\ Len(t) = Len(calls) /\ (\A i \in 2 .. Len(calls) : t[i] = calls[i]) /\ t[1].fn \in Fn /\ Headed(t[1])
         /\ ReadyAt(pos, "body", Before(t[1], e[1]))
    BY <1>6, <1>8, <1>10
  <1> HIDE DEF t
  <1>12. ProgramAt(pos, t, "body", FALSE)
    BY <1>4, <1>5, <1>10, <1>11, WayGoesOn
  <1> QED
    BY <1>2, <1>4, <1>12 DEF ProgramOn, t

\* Statements from p on, then the token that ends the body.
LEMMA BodyGoesOn ==
  ASSUME Source, NEW p \in 1 .. EndOfFile, NEW k \in CodeEnds[p].all, k < Len(tokens), tokens[k] \in {"LOOP", "NEXT"}
  PROVE  /\ Token(p) # "EOF"
         /\ Token(p) \in {"LOOP", "NEXT"} => k = p
         /\ Token(p) # tokens[k] => \E q \in CodeEnds[p].one : q \in 1 .. EndOfFile /\ k \in CodeEnds[q].all
  <1>1. /\ EndOfFile = Len(tokens) + 1 /\ Len(tokens) \in Nat /\ k \in p .. EndOfFile
        /\ \A h \in 1 .. Len(tokens) : Token(h) = tokens[h]
    BY OneMore, TokenThere DEF Token
  <1>2. p \in 1 .. Len(tokens) /\ k \in 1 .. Len(tokens)
    BY <1>1
  <1>3. Token(p) # "EOF"
    BY <1>1, <1>2, TokenThere
  <1>4. k # p => Token(p) \in FirstTokens /\ \E q \in CodeEnds[p].one : k \in CodeEnds[q].all
    BY AllFirst
  <1>5. CodeEnds[p].one \subseteq p + 1 .. EndOfFile
    BY EndsAre
  <1>6. \A q \in CodeEnds[p].one : q \in 1 .. EndOfFile
    BY <1>1, <1>2, <1>5
  <1>7. Token(p) \in {"LOOP", "NEXT"} => k = p
    BY <1>4, FirstTokensApart
  <1>8. Token(p) # tokens[k] => k # p
    BY <1>1, <1>2
  <1> QED
    BY <1>3, <1>4, <1>6, <1>7, <1>8

LEMMA WayInside ==
  ASSUME TypeInv, OnTheWay, NEW fn \in {"do", "for"}, InBody(fn)
  PROVE  /\ \E e : /\ Expected(calls, e) /\ pos \in e[0] /\ e[0] = Before(calls[1], e[1]) /\ Sound(e[1])
         /\ calls[1].fn = fn /\ Head(calls) = calls[1] /\ Stack(calls) /\ calls # <<>> /\ Source
         /\ hadError = FALSE /\ pos \in 1 .. EndOfFile /\ EndOfFile = Len(tokens) + 1 /\ Len(tokens) \in Nat
  <1>1. /\ mode = "body" /\ calls[1].fn = fn /\ Head(calls) = calls[1] /\ Stack(calls) /\ calls # <<>> /\ Source
        /\ pos \in 1 .. EndOfFile /\ EndOfFile = Len(tokens) + 1 /\ Len(tokens) \in Nat
    BY Inside, TokenThere DEF TypeInv
  <1>2. hadError = FALSE /\ \E e : Expected(calls, e) /\ ReadyAt(pos, mode, e[0])
    BY DEF OnTheWay, ProgramAt, TypeInv
  <1>3. PICK e : Expected(calls, e) /\ pos \in e[0]
    BY <1>1, <1>2 DEF ReadyAt
  <1>4. e[0] = Before(calls[1], e[1]) /\ Sound(e[1])
    BY <1>1, <1>3, ExpectedPop
  <1> QED
    BY <1>1, <1>2, <1>3, <1>4

LEMMA WayMore ==
  ASSUME TypeInv, OnTheWay, NEW fn \in {"do", "for"}, MoreBody(fn)
  PROVE  ProgramOn
  <1>1. InBody(fn) /\ Token(pos) # Closer(fn) /\ mode' = "statement" /\ UNCHANGED <<pos, calls, ret, hadError>>
    BY DEF MoreBody
  <1>2. calls[1].fn = fn /\ Source /\ hadError = FALSE /\ pos \in 1 .. EndOfFile
    BY <1>1, WayInside
  <1>3. PICK e : Expected(calls, e) /\ pos \in e[0] /\ e[0] = Before(calls[1], e[1])
    BY <1>1, WayInside
  <1>4. PICK q \in CodeEnds[pos].one : q \in e[0]
    <2>1. CASE fn = "do"
      <3>1. PICK k \in CodeEnds[pos].all :
               k < Len(tokens) /\ tokens[k] = "LOOP" /\ \E x \in e[1] : LoopEnds(k, x)
        BY <1>2, <1>3, <2>1 DEF Before
      <3>2. PICK q \in CodeEnds[pos].one : q \in 1 .. EndOfFile /\ k \in CodeEnds[q].all
        BY <1>1, <1>2, <2>1, <3>1, BodyGoesOn DEF Closer
      <3>3. q \in Before(calls[1], e[1])
        BY <1>2, <2>1, <3>1, <3>2 DEF Before
      <3> QED
        BY <1>3, <3>2, <3>3
    <2>2. CASE fn = "for"
      <3>1. PICK k \in CodeEnds[pos].all :
               /\ k < Len(tokens) /\ tokens[k] = "NEXT" /\ tokens[k + 1] \in NumericVariables
               /\ calls[1].kids[1].kids[1] = Leaf(tokens[k + 1]) /\ k + 2 \in e[1]
        BY <1>2, <1>3, <2>2 DEF Before
      <3>2. PICK q \in CodeEnds[pos].one : q \in 1 .. EndOfFile /\ k \in CodeEnds[q].all
        BY <1>1, <1>2, <2>2, <3>1, BodyGoesOn DEF Closer
      <3>3. q \in Before(calls[1], e[1])
        BY <1>2, <2>2, <3>1, <3>2 DEF Before
      <3> QED
        BY <1>3, <3>2, <3>3
    <2> QED
      BY <2>1, <2>2
  <1>5. ReadyAt(pos, "statement", e[0])
    BY <1>4 DEF ReadyAt, LastEnds
  <1> QED
    BY <1>1, <1>2, <1>3, <1>5 DEF ProgramOn, ProgramAt

LEMMA WayNotAtEnd ==
  ASSUME TypeInv, OnTheWay, NEW fn \in {"do", "for"}, InBody(fn)
  PROVE  Token(pos) # "EOF"
  <1>1. calls[1].fn = fn /\ Source /\ pos \in 1 .. EndOfFile
    BY WayInside
  <1>2. PICK e : pos \in Before(calls[1], e[1])
    BY WayInside
  <1>3. PICK k \in CodeEnds[pos].all : k < Len(tokens) /\ tokens[k] \in {"LOOP", "NEXT"}
    BY <1>1, <1>2 DEF Before
  <1> QED
    BY <1>1, <1>3, BodyGoesOn

LEMMA WayDone ==
  ASSUME TypeInv, OnTheWay, CloseDo
  PROVE  ProgramOn
  <1> DEFINE kids == Head(calls).kids
             cond == BooleanExpr(pos + 2)
  <1>1. InBody("do") /\ Token(pos) = "LOOP" /\ calls' = Tail(calls)
    BY DEF CloseDo
  <1>2. /\ calls[1].fn = "do" /\ Stack(calls) /\ calls # <<>> /\ Source
        /\ hadError = FALSE /\ pos \in 1 .. EndOfFile /\ EndOfFile = Len(tokens) + 1 /\ Len(tokens) \in Nat
    BY <1>1, WayInside
  <1>3. PICK e : Expected(calls, e) /\ pos \in e[0] /\ e[0] = Before(calls[1], e[1]) /\ Sound(e[1])
    BY <1>1, WayInside
  <1>4. PICK k \in CodeEnds[pos].all : k < Len(tokens) /\ tokens[k] = "LOOP" /\ \E x \in e[1] : LoopEnds(k, x)
    BY <1>2, <1>3 DEF Before
  <1>5. k = pos
    BY <1>1, <1>2, <1>4, BodyGoesOn
  <1>6. PICK x \in e[1] : LoopEnds(pos, x)
    BY <1>4, <1>5
  <1>7. pos < Len(tokens) /\ Token(pos + 1) = tokens[pos + 1] /\ pos + 2 \in 1 .. EndOfFile
    BY <1>2, <1>4, <1>5 DEF Token
  <1>8. x \in 1 .. EndOfFile /\ Token(x) \notin Arithmetic \cup {"AND"}
    BY <1>3, <1>6 DEF Sound, Apart
  <1>9. CASE tokens[pos + 1] = "ENDLESS" /\ x = pos + 2
    <2>1. Return(Result(pos + 2, NULL, FALSE), Node("ENDLESS", <<NULL>> \o kids))
      BY <1>7, <1>9 DEF CloseDo
    <2>2. pos' = x /\ mode' = "returned" /\ hadError' = FALSE
      BY <1>2, <1>9, <2>1 DEF Return, Result
    <2> QED
      BY <1>1, <1>2, <1>3, <1>6, <2>2, WayPop DEF ProgramOn
  <1>10. CASE tokens[pos + 1] \in {"WHILE", "UNTIL"} /\ CodeBoolean(pos + 2, x)
    <2>1. Return(cond, Node(Token(pos + 1), <<cond.node>> \o kids))
      BY <1>7, <1>10 DEF CloseDo
    <2>2. cond.pos = x /\ cond.err = FALSE
      BY <1>2, <1>7, <1>8, <1>10, BooleanTakes DEF Takes
    <2> HIDE DEF cond
    <2>3. pos' = x /\ mode' = "returned" /\ hadError' = FALSE
      BY <1>2, <2>1, <2>2 DEF Return
    <2> QED
      BY <1>1, <1>2, <1>3, <1>6, <2>3, WayPop DEF ProgramOn
  <1> QED
    BY <1>6, <1>9, <1>10 DEF LoopEnds

LEMMA WayNext ==
  ASSUME TypeInv, OnTheWay, CloseFor
  PROVE  ProgramOn
  <1> DEFINE kids == Head(calls).kids
             temp == Variable(pos + 1)
  <1>1. InBody("for") /\ Token(pos) = "NEXT" /\ calls' = Tail(calls)
    BY DEF CloseFor
  <1>2. /\ calls[1].fn = "for" /\ Stack(calls) /\ calls # <<>> /\ Source /\ Head(calls) = calls[1]
        /\ hadError = FALSE /\ pos \in 1 .. EndOfFile /\ EndOfFile = Len(tokens) + 1 /\ Len(tokens) \in Nat
    BY <1>1, WayInside
  <1>3. PICK e : Expected(calls, e) /\ pos \in e[0] /\ e[0] = Before(calls[1], e[1])
    BY <1>1, WayInside
  <1>4. PICK k \in CodeEnds[pos].all :
           /\ k < Len(tokens) /\ tokens[k] = "NEXT" /\ tokens[k + 1] \in NumericVariables
           /\ calls[1].kids[1].kids[1] = Leaf(tokens[k + 1]) /\ k + 2 \in e[1]
    BY <1>2, <1>3 DEF Before
  <1>5. k = pos
    BY <1>1, <1>2, <1>4, BodyGoesOn
  <1>6. pos + 1 \in 1 .. Len(tokens) /\ Token(pos + 1) = tokens[pos + 1]
    BY <1>2, <1>4, <1>5 DEF Token
  <1>7. temp = Result((pos + 1) + 1, Leaf(tokens[pos + 1]), FALSE)
    BY <1>4, <1>5, <1>6 DEF Variable, OneOf, Variables
  <1>8. Leaf(tokens[pos + 1]) # NULL
    <2>1. tokens[pos + 1] # "NULL"
      BY <1>4, <1>5 DEF NumericVariables
    <2> QED
      BY <2>1 DEF NULL, Leaf, Node
  <1>9. temp.node = Leaf(tokens[pos + 1]) /\ temp.node # NULL /\ temp.pos = pos + 2 /\ temp.err = FALSE
    BY <1>2, <1>7, <1>8 DEF Result
  <1>10. SameVariable(kids, temp.node)
    BY <1>2, <1>4, <1>5, <1>9 DEF SameVariable
  <1>11. Return(temp, Node("FOR", kids))
    BY <1>9, <1>10 DEF CloseFor
  <1> HIDE DEF temp
  <1>12. pos' = pos + 2 /\ mode' = "returned" /\ hadError' = FALSE
    BY <1>2, <1>9, <1>11 DEF Return
  <1>13. pos + 2 \in e[1]
    BY <1>4, <1>5
  <1> QED
    BY <1>1, <1>2, <1>3, <1>12, <1>13, WayPop DEF ProgramOn

LEMMA WayTop ==
  ASSUME TypeInv, OnTheWay, ReturnToParse
  PROVE  ProgramOn
  <1>1. /\ mode = "returned" /\ calls = <<>> /\ mode' = (IF Token(pos) = "EOF" THEN "parsed" ELSE "statement")
        /\ UNCHANGED <<tokens, pos, calls, ret, hadError, labels>>
    BY DEF ReturnToParse
  <1>2. hadError = FALSE /\ \E e : Expected(calls, e) /\ ReadyAt(pos, mode, e[0])
    BY DEF OnTheWay, ProgramAt, TypeInv
  <1>3. PICK e : Expected(calls, e) /\ pos \in e[0]
    BY <1>1, <1>2 DEF ReadyAt
  <1>4. e[0] = {j \in 1 .. EndOfFile : EndOfFile \in CodeEnds[j].all}
    <2>1. Len(calls) = 0
      BY <1>1
    <2> QED
      BY <1>3, <2>1 DEF Expected
  <1>5. CASE Token(pos) = "EOF"
    <2>1. ReadyAt(pos, "parsed", e[0])
      BY DEF ReadyAt
    <2> QED
      BY <1>1, <1>2, <1>3, <1>5, <2>1 DEF ProgramOn, ProgramAt
  <1>6. CASE Token(pos) # "EOF"
    <2>1. pos \in 1 .. EndOfFile /\ pos # EndOfFile /\ EndOfFile \in CodeEnds[pos].all /\ Source
      BY <1>3, <1>4, <1>6 DEF Token, EndOfFile, TypeInv, Source
    <2>2. PICK q \in CodeEnds[pos].one : EndOfFile \in CodeEnds[q].all
      BY <2>1, AllFirst
    <2>3. q \in 1 .. EndOfFile
      BY <2>1, FirstOf
    <2>4. ReadyAt(pos, "statement", e[0])
      BY <1>4, <2>2, <2>3 DEF ReadyAt, LastEnds
    <2> QED
      BY <1>1, <1>2, <1>3, <1>6, <2>4 DEF ProgramOn, ProgramAt
  <1> QED
    BY <1>5, <1>6

LEMMA WayStep ==
  ASSUME TypeInv, OnTheWay, Next, vars' # vars
  PROVE  ProgramOn
  <1>1. CASE \/ ParseEndOfFile \/ ParseAssign \/ ParseKeyword \/ ParseUnexpected \/ ParseLabel \/ ParseIf \/ ParseDo
             \/ ParseFor
    BY <1>1, WayAtEnd, WayAssign, WayKeyword, WayUnexpected, WayLabel, WayIf, WayDo, WayFor
  <1>2. CASE \/ ReturnToLabel \/ ReturnToThen \/ ReturnToElse \/ ReturnToBody
             \/ (\E fn \in {"do", "for"} : MoreBody(fn)) \/ CloseDo \/ CloseFor \/ ReturnToParse
    BY <1>2, WayBackToLabel, WayBackToThen, WayBackToElse, WayBackToBody, WayMore, WayDone, WayNext, WayTop
  <1>3. ~ \E fn \in {"do", "for"} : BodyAtEndOfFile(fn)
    BY WayNotAtEnd DEF BodyAtEndOfFile
  <1>4. ~Stop
    BY DEF Stop
  <1> QED
    BY <1>1, <1>2, <1>3, <1>4 DEF Next

LEMMA WayStays ==
  ASSUME tokens' = tokens
  PROVE  /\ CodeStatements(1, EndOfFile)' <=> CodeStatements(1, EndOfFile)
         /\ \A p, c, m, h : ProgramAt(p, c, m, h)' <=> ProgramAt(p, c, m, h)
  <1>1. CodeEnds' = CodeEnds /\ EndOfFile' = EndOfFile /\ \A i : Token(i)' = Token(i)
    BY SourceStays DEF EndOfFile, Token
  <1>2. \A k, x : LoopEnds(k, x)' <=> LoopEnds(k, x)
    BY DEF LoopEnds, CodeBoolean, CodeComparison, IsExpr, Separated, IsPrimary
  <1>3. \A k : LastEnds(CodeEnds, k)' = LastEnds(CodeEnds, k)
    BY <1>1 DEF LastEnds
  <1>4. \A f, ends : Before(f, ends)' = Before(f, ends)
    BY <1>1, <1>2, <1>3 DEF Before
  <1>5. \A ends : Sound(ends)' <=> Sound(ends)
    BY <1>1, <1>3 DEF Sound
  <1>6. \A c, e : Expected(c, e)' <=> Expected(c, e)
    BY <1>1, <1>4, <1>5 DEF Expected
  <1>7. \A p, m, ends : ReadyAt(p, m, ends)' <=> ReadyAt(p, m, ends)
    BY <1>3 DEF ReadyAt
  <1>8. \A p, c, m, h : ProgramAt(p, c, m, h)' <=> ProgramAt(p, c, m, h)
    BY <1>6, <1>7 DEF ProgramAt
  <1> QED
    BY <1>1, <1>8 DEF CodeStatements

LEMMA ParserTakesAllCode == Spec => []TakesAllCode
  <1>1. Init => TypeInv /\ ProgramInv
    <2> SUFFICES ASSUME Init, CodeStatements(1, EndOfFile) PROVE TypeInv /\ OnTheWay
      BY TypesAtFirst DEF ProgramInv
    <2>1. TypeInv
      BY TypesAtFirst
    <2>2. 1 \in 1 .. EndOfFile /\ Source /\ EndOfFile \in 1 .. EndOfFile /\ EndOfFile \in Nat
      BY <2>1, TokenThere DEF TypeInv
    <2> DEFINE base == {j \in 1 .. EndOfFile : EndOfFile \in CodeEnds[j].all}
               e == [k \in 0 .. 0 |-> base]
    <2>3. e[0] = base /\ EndOfFile \in CodeEnds[1].all
      BY DEF CodeStatements
    <2>4. calls = <<>> /\ Len(calls) = 0 /\ pos = 1 /\ mode = "statement" /\ hadError = FALSE
      BY DEF Init
    <2>5. Sound(base)
      BY <2>2, SoundAtEnd
    <2> HIDE DEF e
    <2>6. Expected(calls, e)
      <3>1. Len(calls) = 0 /\ (\A k \in 0 .. 0 : k = 0) /\ 1 .. 0 = {}
        BY <2>4
      <3>2. \A k \in 0 .. 0 : Sound(e[k])
        BY <2>3, <2>5, <3>1
      <3> QED
        BY <2>3, <3>1, <3>2 DEF Expected
    <2>7. LastEnds(CodeEnds, 1) \cap base # {}
      <3>1. CASE EndOfFile = 1
        <4>1. 1 \in LastEnds(CodeEnds, 1) /\ 1 \in base
          BY <2>2, <2>3, <3>1 DEF LastEnds
        <4> QED
          BY <4>1
      <3>2. CASE EndOfFile # 1
        <4>1. PICK q \in CodeEnds[1].one : EndOfFile \in CodeEnds[q].all
          BY <2>2, <2>3, <3>2, AllFirst
        <4>2. q \in 1 .. EndOfFile
          BY <2>2, FirstOf
        <4> QED
          BY <4>1, <4>2 DEF LastEnds
      <3> QED
        BY <3>1, <3>2
    <2>8. ReadyAt(pos, mode, e[0])
      BY <2>3, <2>4, <2>7 DEF ReadyAt
    <2> QED
      BY <2>1, <2>4, <2>6, <2>8 DEF OnTheWay, ProgramAt
  <1>2. TypeInv /\ ProgramInv /\ [Next]_vars => ProgramInv'
    <2> SUFFICES ASSUME TypeInv, ProgramInv, [Next]_vars PROVE ProgramInv'
      OBVIOUS
    <2>1. tokens' = tokens
      <3>1. CASE vars' = vars
        BY <3>1 DEF vars
      <3>2. CASE Next
        BY <3>2 DEF Next, ParseEndOfFile, ParseAssign, ParseKeyword, ParseUnexpected, ParseLabel, ParseIf, ParseDo,
           ParseFor, ReturnToLabel, ReturnToThen, ReturnToElse, ReturnToBody, MoreBody, BodyAtEndOfFile, CloseDo,
           CloseFor, ReturnToParse, Stop, At, Returned, InBody, vars
      <3> QED
        BY <3>1, <3>2
    <2>2. OnTheWay' <=> ProgramOn
      BY <2>1, WayStays DEF OnTheWay, ProgramOn
    <2>3. CodeStatements(1, EndOfFile)' <=> CodeStatements(1, EndOfFile)
      BY <2>1, WayStays
    <2>4. CASE vars' = vars
      BY <2>2, <2>3, <2>4 DEF vars, ProgramInv, OnTheWay, ProgramOn
    <2>5. CASE Next /\ vars' # vars
      BY <2>2, <2>3, <2>5, WayStep DEF ProgramInv
    <2> QED
      BY <2>4, <2>5
  <1>3. ProgramInv => TakesAllCode
    BY DEF ProgramInv, OnTheWay, ProgramAt, TakesAllCode
  <1> QED
    BY <1>1, <1>2, <1>3, TypesHold, PTL DEF Spec
-----------------------------------------------------------------------------
(***************************************************************************)
(* The language of the code and the grammar.  Where neither takes more     *)
(* than the other, they are the same.                                      *)
(***************************************************************************)

\* Induction from n down to 1, as a fact about a set.
LEMMA Downward ==
  ASSUME NEW n \in Nat, NEW S, \A x \in 1 .. n : (\A y \in x + 1 .. n : y \in S) => x \in S
  PROVE  \A x \in 1 .. n : x \in S
  <1> DEFINE bad == {x \in 1 .. n : x \notin S}
             far == {n - x : x \in bad}
  <1> SUFFICES ASSUME bad # {} PROVE FALSE
    OBVIOUS
  <1>1. far \in SUBSET Nat /\ far # {}
    OBVIOUS
  <1>2. PICK d \in far : \A e \in far : d <= e
    <2> HIDE DEF far
    <2> QED
      BY <1>1, LeastElement
  <1>3. PICK x \in bad : d = n - x
    OBVIOUS
  <1>5. \A z \in bad : n - z \in far
    OBVIOUS
  <1>4. ASSUME NEW y \in x + 1 .. n PROVE y \in S
    <2>1. y \in 1 .. n /\ n - y < d
      BY <1>3
    <2>2. y \notin bad
      <3>1. n \in Int /\ y \in Int /\ d \in Int
        BY <1>1, <2>1
      <3> HIDE DEF far, bad
      <3> QED
        BY <1>2, <1>5, <2>1, <3>1
    <2> QED
      BY <2>1, <2>2
  <1> QED
    BY <1>3, <1>4

SpanEndsAt(g, i) ==
    [one |-> StatementEnds(g, i), all |-> {i} \cup UNION {g[k].all : k \in StatementEnds(g, i)}]

LEMMA SpanEndsAfter ==
  ASSUME NEW g, NEW i
  PROVE  StatementEnds(g, i) \subseteq i + 1 .. EndOfFile
  BY DEF StatementEnds

LEMMA SpanEndsAgree ==
  ASSUME Source, NEW i \in 1 .. EndOfFile, NEW g, NEW h,
         \A k \in i + 1 .. EndOfFile : g[k] = h[k] /\ g[k].one \subseteq k + 1 .. EndOfFile
  PROVE  SpanEndsAt(g, i) = SpanEndsAt(h, i)
  <1>1. EndOfFile \in Nat /\ EndOfFile = Len(tokens) + 1 /\ i \in Nat
    BY TokenThere
  <1>2. Elses(g, i) = Elses(h, i) /\ \A k \in Thens(i) \cup Elses(g, i) : k + 1 \in i + 1 .. EndOfFile
    <2>1. \A k \in Thens(i) : k + 1 \in i + 1 .. EndOfFile
      BY <1>1 DEF Thens
    <2>2. \A k \in Thens(i) : g[k + 1].one = h[k + 1].one /\ g[k + 1].one \subseteq (k + 1) + 1 .. EndOfFile
      BY <2>1
    <2>3. Elses(g, i) = Elses(h, i)
      BY <2>2 DEF Elses
    <2>4. ASSUME NEW e \in Elses(g, i) PROVE e + 1 \in i + 1 .. EndOfFile
      <3>1. PICK k \in Thens(i) : e \in g[k + 1].one
        BY DEF Elses
      <3>2. e \in (k + 1) + 1 .. EndOfFile /\ e < EndOfFile /\ k + 1 \in i + 1 .. EndOfFile /\ k \in Int
        BY <2>1, <2>2, <3>1 DEF Elses, Thens
      <3> QED
        BY <1>1, <3>2
    <2> QED
      BY <2>1, <2>3, <2>4
  <1>3. \A k \in i + 1 .. EndOfFile : g[k].one = h[k].one
    OBVIOUS
  <1>4. i < EndOfFile => i + 1 \in i + 1 .. EndOfFile /\ Loops(g, i) = Loops(h, i)
    BY <1>1 DEF Loops
  <1>5. Nexts(g, i) = Nexts(h, i)
    <2>1. \A m \in Headers(i) : g[m].all = h[m].all
      BY DEF Headers
    <2> QED
      BY <2>1 DEF Nexts
  <1>6. StatementEnds(g, i) = StatementEnds(h, i)
    <2>1. CASE i < EndOfFile
      <3>1. \A k \in Thens(i) \cup Elses(g, i) : g[k + 1].one = h[k + 1].one
        BY <1>2, <1>3
      <3> QED
        BY <1>2, <1>4, <1>5, <2>1, <3>1 DEF StatementEnds
    <2>2. CASE ~ (i < EndOfFile)
      <3>1. i + 1 .. EndOfFile = {}
        BY <1>1, <2>2
      <3>2. StatementEnds(g, i) = {} /\ StatementEnds(h, i) = {}
        BY <3>1, SpanEndsAfter
      <3> QED
        BY <3>2
    <2> QED
      BY <2>1, <2>2
  <1>7. \A k \in StatementEnds(g, i) : g[k].all = h[k].all
    BY SpanEndsAfter
  <1> QED
    BY <1>6, <1>7, ZenonT(30) DEF SpanEndsAt

LEMMA SpanEndsAtHas ==
  ASSUME NEW g, NEW i
  PROVE  /\ SpanEndsAt(g, i).one = StatementEnds(g, i)
         /\ SpanEndsAt(g, i).all = {i} \cup UNION {g[k].all : k \in SpanEndsAt(g, i).one}
         /\ SpanEndsAt(g, i).one \subseteq i + 1 .. EndOfFile
  <1>1. SpanEndsAt(g, i).one = StatementEnds(g, i)
    BY DEF SpanEndsAt
  <1>2. SpanEndsAt(g, i).all = {i} \cup UNION {g[k].all : k \in StatementEnds(g, i)}
    BY DEF SpanEndsAt
  <1> QED
    BY <1>1, <1>2, SpanEndsAfter

\* The functions that are as Ends from m on.
SpansSolveFrom(g, m) == g = [i \in m .. EndOfFile |-> SpanEndsAt(g, i)]

LEMMA SpanEndsExist ==
  ASSUME Source
  PROVE  \E g : SpansSolveFrom(g, 1)
  <1> DEFINE n == EndOfFile
             S == {d \in 0 .. n : \E g : SpansSolveFrom(g, n + 1 - d)}
  <1>1. n \in Nat \ {0}
    BY DEF EndOfFile, Source
  <1>2. 0 \in S
    <2>1. SpansSolveFrom([i \in n + 1 .. n |-> i], n + 1)
      <3>1. n + 1 .. n = {}
        BY <1>1
      <3> QED
        BY <3>1 DEF SpansSolveFrom
    <2> QED
      BY <1>1, <2>1
  <1>3. \A d \in 1 .. n : d - 1 \in S => d \in S
    <2> TAKE d \in 1 .. n
    <2> HAVE d - 1 \in S
    <2> DEFINE m == n + 1 - d
    <2>1. n + 1 - (d - 1) = m + 1 /\ m \in 1 .. n /\ d \in 0 .. n
      BY <1>1
    <2>2. PICK g : SpansSolveFrom(g, m + 1)
      BY <2>1
    <2> HIDE DEF m, n
    <2> DEFINE h == [i \in m .. n |-> IF i = m THEN SpanEndsAt(g, m) ELSE g[i]]
    <2>3. \A i \in m .. n : i # m => i \in m + 1 .. n
      BY <1>1, <2>1
    <2>4. \A i \in m + 1 .. n : g[i] = SpanEndsAt(g, i) /\ h[i] = g[i] /\ i \in m .. n /\ i # m
      <3> TAKE i \in m + 1 .. n
      <3>1. i \in m .. n /\ i # m
        BY <1>1, <2>1
      <3>2. g[i] = SpanEndsAt(g, i)
        BY <2>2 DEF SpansSolveFrom, n
      <3> QED
        BY <3>1, <3>2
    <2>5. h[m] = SpanEndsAt(g, m)
      BY <1>1, <2>1
    <2>6. \A i \in m + 1 .. n : g[i].one \subseteq i + 1 .. n
      BY <2>4, SpanEndsAtHas DEF n
    <2>7. h = [i \in m .. n |-> h[i]]
      OBVIOUS
    <2> HIDE DEF h
    <2>8. \A i \in m .. n : SpanEndsAt(g, i) = SpanEndsAt(h, i)
      <3> TAKE i \in m .. n
      <3>1. i \in 1 .. EndOfFile /\ \A k \in i + 1 .. EndOfFile : k \in m + 1 .. n
        BY <1>1, <2>1 DEF n
      <3>2. \A k \in i + 1 .. EndOfFile : g[k] = h[k] /\ g[k].one \subseteq k + 1 .. EndOfFile
        BY <2>4, <2>6, <3>1 DEF n
      <3> QED
        BY <3>1, <3>2, SpanEndsAgree
    <2>9. \A i \in m .. n : h[i] = SpanEndsAt(h, i)
      BY <2>3, <2>4, <2>5, <2>8
    <2>10. SpansSolveFrom(h, m)
      BY <2>7, <2>9 DEF SpansSolveFrom, n
    <2> QED
      BY <2>1, <2>10 DEF m
  <1>4. \A d \in 0 .. n : d \in S
    <2> HIDE DEF S, n
    <2> QED
      BY <1>1, <1>2, <1>3, UpTo
  <1>5. n \in S /\ n + 1 - n = 1
    BY <1>1, <1>4
  <1> QED
    BY <1>5

LEMMA SpanEndsAre ==
  ASSUME Source
  PROVE  \A i \in 1 .. EndOfFile : /\ Ends[i].one = StatementEnds(Ends, i)
                                   /\ Ends[i].all = {i} \cup UNION {Ends[k].all : k \in Ends[i].one}
                                   /\ Ends[i].one \subseteq i + 1 .. EndOfFile
  <1>1. Ends = CHOOSE g : SpansSolveFrom(g, 1)
    BY DEF Ends, SpansSolveFrom, SpanEndsAt
  <1>2. SpansSolveFrom(Ends, 1)
    BY <1>1, SpanEndsExist
  <1>3. \A i \in 1 .. EndOfFile : Ends[i] = SpanEndsAt(Ends, i)
    BY <1>2 DEF SpansSolveFrom
  <1> QED
    BY <1>3, SpanEndsAtHas

\* Statements of the grammar, and then others.
LEMMA SpansFollow ==
  ASSUME Source, NEW i \in 1 .. EndOfFile, NEW k \in Ends[i].all
  PROVE  k \in i .. EndOfFile /\ Ends[k].all \subseteq Ends[i].all
  <1> DEFINE S == {x \in 1 .. EndOfFile : \A y \in Ends[x].all : y \in x .. EndOfFile /\ Ends[y].all \subseteq Ends[x].all}
  <1>1. EndOfFile \in Nat
    BY TokenThere
  <1>2. ASSUME NEW x \in 1 .. EndOfFile, \A y \in x + 1 .. EndOfFile : y \in S PROVE x \in S
    <2> SUFFICES ASSUME NEW y \in Ends[x].all PROVE y \in x .. EndOfFile /\ Ends[y].all \subseteq Ends[x].all
      OBVIOUS
    <2>1. /\ Ends[x].all = {x} \cup UNION {Ends[z].all : z \in Ends[x].one}
          /\ Ends[x].one \subseteq x + 1 .. EndOfFile
      BY SpanEndsAre
    <2>2. CASE y = x
      BY <1>1, <2>2
    <2>3. CASE y # x
      <3>1. PICK z \in Ends[x].one : y \in Ends[z].all
        BY <2>1, <2>3
      <3>2. z \in x + 1 .. EndOfFile
        BY <2>1
      <3>3. y \in z .. EndOfFile /\ Ends[y].all \subseteq Ends[z].all
        BY <1>2, <3>1, <3>2
      <3>4. Ends[z].all \subseteq Ends[x].all
        BY <2>1
      <3> QED
        BY <1>1, <3>2, <3>3, <3>4
    <2> QED
      BY <2>2, <2>3
  <1>3. i \in S
    <2> HIDE DEF S
    <2> QED
      BY <1>1, <1>2, Downward
  <1> QED
    BY <1>3

\* A statement is one way to go on, or none.
LEMMA SpanAll ==
  ASSUME Source, NEW i \in 1 .. EndOfFile
  PROVE  /\ i \in Ends[i].all
         /\ \A k \in Ends[i].one : k \in i + 1 .. EndOfFile /\ Ends[k].all \subseteq Ends[i].all /\ k \in Ends[i].all
         /\ \A j \in Ends[i].all : j = i \/ \E k \in Ends[i].one : j \in Ends[k].all
  <1>1. /\ Ends[i].all = {i} \cup UNION {Ends[z].all : z \in Ends[i].one}
        /\ Ends[i].one \subseteq i + 1 .. EndOfFile
    BY SpanEndsAre
  <1>2. EndOfFile \in Nat
    BY TokenThere
  <1>3. \A k \in Ends[i].one : k \in Ends[k].all
    <2> TAKE k \in Ends[i].one
    <2>1. k \in 1 .. EndOfFile
      BY <1>1, <1>2
    <2> QED
      BY <2>1, SpanEndsAre
  <1> QED
    BY <1>1, <1>3

LEMMA CodeAll ==
  ASSUME Source, NEW i \in 1 .. EndOfFile
  PROVE  /\ i \in CodeEnds[i].all
         /\ \A k \in CodeEnds[i].one : k \in i + 1 .. EndOfFile /\ CodeEnds[k].all \subseteq CodeEnds[i].all
         /\ \A j \in CodeEnds[i].all : j = i \/ \E k \in CodeEnds[i].one : j \in CodeEnds[k].all
  <1>1. /\ CodeEnds[i].all = {i} \cup UNION {CodeEnds[z].all : z \in CodeEnds[i].one}
        /\ CodeEnds[i].one \subseteq i + 1 .. EndOfFile
    BY EndsAre
  <1> QED
    BY <1>1

\* A statement of the grammar, by its alternatives.
LoopCloses(k, j) ==
    \/ tokens[k + 1] = "ENDLESS" /\ j = k + 2
    \/ tokens[k + 1] \in {"WHILE", "UNTIL"} /\ IsBoolean(k + 2, j)

NextCloses(i, k, j) == tokens[k + 1] \in NumericVariables /\ tokens[k + 1] = tokens[i + 1] /\ j = k + 2

LEMMA SpanOf ==
  ASSUME Source, NEW i \in 1 .. EndOfFile, NEW j
  PROVE  j \in Ends[i].one <=>
           /\ j \in i + 1 .. EndOfFile
           /\ \/ IsAssign(i, j)
              \/ IsKeywordStatement(i, j)
              \/ tokens[i] \in LabelNames /\ j = i + 1
              \/ tokens[i] = "IF" /\ \E k \in Thens(i) \cup Elses(Ends, i) : j \in Ends[k + 1].one
              \/ tokens[i] = "DO" /\ \E k \in Loops(Ends, i) : LoopCloses(k, j)
              \/ tokens[i] = "FOR" /\ \E k \in Nexts(Ends, i) : NextCloses(i, k, j)
  <1>1. Ends[i].one = StatementEnds(Ends, i)
    BY SpanEndsAre
  <1> QED
    BY <1>1 DEF StatementEnds, LoopCloses, NextCloses

LEMMA CodeOf ==
  ASSUME Source, NEW i \in 1 .. EndOfFile, NEW j
  PROVE  j \in CodeEnds[i].one <=>
           /\ j \in i + 1 .. EndOfFile
           /\ \/ IsAssign(i, j)
              \/ CodeKeywordStatement(i, j)
              \/ tokens[i] \in LabelNames /\ j \in LastEnds(CodeEnds, i + 1)
              \/ tokens[i] = "IF" /\ \E k \in CodeThens(i) \cup CodeElses(CodeEnds, i) : j \in LastEnds(CodeEnds, k + 1)
              \/ tokens[i] = "DO" /\ \E k \in Loops(CodeEnds, i) : LoopEnds(k, j)
              \/ tokens[i] = "FOR" /\ \E k \in Nexts(CodeEnds, i) : NextCloses(i, k, j)
  <1>1. CodeEnds[i].one = CodeStatementEnds(CodeEnds, i)
    BY EndsAre
  <1> QED
    BY <1>1 DEF CodeStatementEnds, LoopEnds, NextCloses

\* A comparison of the grammar is one of the code; the other way round where the
\* left side is a variable.
LEMMA ComparisonIsCode ==
  ASSUME Source, NEW i \in 1 .. EndOfFile, NEW j \in i .. EndOfFile, IsComparison(i, j)
  PROVE  CodeComparison(i, j)
  <1>1. EndOfFile \in Nat /\ i + 2 < j /\ tokens[i] \in Variables /\ tokens[i + 1] \in Relations /\ IsExpr(i + 2, j)
    BY TokenThere DEF IsComparison
  <1>2. i + 1 \in 1 .. EndOfFile /\ i + 1 \in i .. j - 1 /\ (i + 1) + 1 = i + 2
    BY <1>1
  <1>3. IsExpr(i, i + 1)
    BY <1>1, <1>2, ExprOne DEF IsPrimary
  <1> QED
    BY <1>1, <1>2, <1>3 DEF CodeComparison

LEMMA VariableAlone ==
  ASSUME Source, ComparesVariables(tokens), NEW i \in 1 .. EndOfFile, NEW k \in i .. EndOfFile, IsExpr(i, k),
         k \in DOMAIN tokens, tokens[k] \in Relations
  PROVE  k = i + 1 /\ tokens[i] \in Variables
  <1> DEFINE C   == CutsOf(Arithmetic, i, k)
             far == {k - c : c \in {d \in C : d < k}}
  <1>1. EndOfFile \in Nat /\ i \in Nat \ {0} /\ k \in Nat /\ i < k
    BY TokenThere DEF IsExpr, Separated
  <1>2. /\ tokens[k - 1] \in Variables
        /\ k > 2 => tokens[k - 2] \notin Arithmetic /\ tokens[k - 2] # "&"
    BY DEF ComparesVariables
  <1>3. far \in SUBSET Nat /\ far # {}
    <2>1. i - 1 \in {d \in C : d < k}
      BY <1>1 DEF CutsOf
    <2>2. C \subseteq Int
      BY <1>1 DEF CutsOf
    <2> HIDE DEF C
    <2>3. \A c \in C : c < k => k - c \in Nat
      BY <1>1, <2>2
    <2> QED
      BY <2>1, <2>3
  <1>4. PICK f \in far : \A e \in far : f <= e
    <2> HIDE DEF far
    <2> QED
      BY <1>3, LeastElement
  <1>5. PICK a \in C : a < k /\ f = k - a
    BY <1>4
  <1>6. C \subseteq Int
    BY <1>1 DEF CutsOf
  <1>7. ASSUME NEW c \in C PROVE c <= a \/ k <= c
    <2> SUFFICES ASSUME c < k PROVE c <= a
      BY <1>1, <1>6
    <2>1. k - c \in far
      OBVIOUS
    <2>2. k - a <= k - c
      BY <1>4, <1>5, <2>1
    <2> HIDE DEF C, far
    <2> QED
      BY <1>1, <1>6, <2>2
  <1>8. k \in C
    BY DEF CutsOf
  <1>9. Spaced(Primaries, Arithmetic, i, k)
    BY ExprSpaced
  <1>10. IsPrimary(a + 1, k)
    <2>1. <<a + 1, k>> \in Primaries
      BY <1>5, <1>7, <1>8, <1>9 DEF Spaced, Consecutive
    <2> QED
      BY <2>1 DEF Primaries
  <1>11. a = i - 1 \/ (a >= i /\ tokens[a] \in Arithmetic)
    BY <1>1, <1>5 DEF CutsOf
  <1>12. k = a + 2 \/ (k = a + 3 /\ tokens[a + 1] = "&")
    <2>1. a \in Int /\ (k = (a + 1) + 1 \/ (k = (a + 1) + 2 /\ tokens[a + 1] = "&"))
      BY <1>5, <1>6, <1>10 DEF IsPrimary
    <2> HIDE DEF C
    <2> QED
      BY <1>5, <1>6, <2>1
  <1> HIDE DEF C, far
  <1>13. CASE k = a + 2
    <2>1. k - 2 = a
      BY <1>1, <1>5, <1>6, <1>13
    <2>2. a = i - 1
      BY <1>1, <1>2, <1>11, <1>13, <2>1
    <2> QED
      BY <1>1, <1>2, <1>13, <2>2
  <1>14. CASE k = a + 3 /\ tokens[a + 1] = "&"
    <2>1. k - 2 = a + 1 /\ a >= i - 1 /\ k > 2
      BY <1>1, <1>5, <1>6, <1>11, <1>14
    <2> QED
      BY <1>2, <1>14, <2>1
  <1> QED
    BY <1>12, <1>13, <1>14

LEMMA CodeIsComparison ==
  ASSUME Source, ComparesVariables(tokens), NEW i \in 1 .. EndOfFile, NEW j \in i .. EndOfFile, CodeComparison(i, j)
  PROVE  IsComparison(i, j)
  <1>1. PICK k \in i .. j - 1 : tokens[k] \in Relations /\ IsExpr(i, k) /\ IsExpr(k + 1, j)
    BY DEF CodeComparison
  <1>2. EndOfFile = Len(tokens) + 1 /\ Len(tokens) \in Nat /\ k \in DOMAIN tokens /\ k \in i .. EndOfFile
    BY <1>1, TokenThere DEF Source
  <1>3. k = i + 1 /\ tokens[i] \in Variables
    BY <1>1, <1>2, VariableAlone
  <1>4. IsExpr(i + 2, j)
    BY <1>1, <1>3
  <1>5. i + 2 < j
    BY <1>4 DEF IsExpr, Separated
  <1> QED
    BY <1>1, <1>3, <1>4, <1>5 DEF IsComparison

\* The parts of a condition lie in the source.
LEMMA CutsWithin ==
  ASSUME NEW n \in Nat, NEW i \in 1 .. n, NEW j \in i .. n, NEW ts,
         NEW a \in {i - 1, j} \cup {k \in i .. j - 1 : tokens[k] \in ts},
         NEW b \in {i - 1, j} \cup {k \in i .. j - 1 : tokens[k] \in ts}, a < b
  PROVE  a + 1 \in 1 .. n /\ b \in a + 1 .. n
  OBVIOUS

LEMMA BooleanIsCode ==
  ASSUME Source, NEW i \in 1 .. EndOfFile, NEW j \in i .. EndOfFile
  PROVE  /\ IsBoolean(i, j) => CodeBoolean(i, j)
         /\ ComparesVariables(tokens) => (CodeBoolean(i, j) => IsBoolean(i, j))
  <1> DEFINE cuts == {i - 1, j} \cup {k \in i .. j - 1 : tokens[k] \in {"AND"}}
             Adjacent(a, b) == a < b /\ \A c \in cuts : c <= a \/ b <= c
  <1>1. EndOfFile \in Nat
    BY TokenThere
  <1>2. IsBoolean(i, j) <=> i < j /\ \A a, b \in cuts : Adjacent(a, b) => IsComparison(a + 1, b)
    BY DEF IsBoolean, Separated
  <1>3. CodeBoolean(i, j) <=> i < j /\ \A a, b \in cuts : Adjacent(a, b) => CodeComparison(a + 1, b)
    BY DEF CodeBoolean, Separated
  <1>4. \A a, b \in cuts : Adjacent(a, b) => a + 1 \in 1 .. EndOfFile /\ b \in a + 1 .. EndOfFile
    BY <1>1, CutsWithin
  <1>5. \A a, b \in cuts : Adjacent(a, b) =>
           /\ IsComparison(a + 1, b) => CodeComparison(a + 1, b)
           /\ ComparesVariables(tokens) => (CodeComparison(a + 1, b) => IsComparison(a + 1, b))
    <2> HIDE DEF cuts, Adjacent
    <2> QED
      BY <1>4, ComparisonIsCode, CodeIsComparison
  <1> HIDE DEF cuts, Adjacent
  <1> QED
    BY <1>2, <1>3, <1>5

LEMMA ThensAre ==
  ASSUME Source, NEW i \in 1 .. EndOfFile
  PROVE  /\ Thens(i) \subseteq CodeThens(i)
         /\ ComparesVariables(tokens) => CodeThens(i) \subseteq Thens(i)
         /\ \A k \in CodeThens(i) : k \in DOMAIN tokens /\ k > i /\ tokens[k] = "THEN" /\ k + 1 \in i + 1 .. EndOfFile
  <1>1. EndOfFile = Len(tokens) + 1 /\ Len(tokens) \in Nat
    BY TokenThere
  <1>2. \A k \in i + 1 .. Len(tokens) : /\ i + 1 \in 1 .. EndOfFile /\ k \in i + 1 .. EndOfFile
                                        /\ k \in DOMAIN tokens /\ k > i /\ k + 1 \in i + 1 .. EndOfFile
    BY <1>1 DEF Source
  <1> QED
    BY <1>2, BooleanIsCode DEF Thens, CodeThens

LEMMA LoopsEnd ==
  ASSUME Source, NEW k \in 1 .. EndOfFile, k < Len(tokens), NEW j \in k + 2 .. EndOfFile
  PROVE  /\ LoopCloses(k, j) => LoopEnds(k, j)
         /\ ComparesVariables(tokens) => (LoopEnds(k, j) => LoopCloses(k, j))
  <1>1. EndOfFile = Len(tokens) + 1 /\ Len(tokens) \in Nat
    BY TokenThere
  <1>2. k + 2 \in 1 .. EndOfFile
    BY <1>1
  <1> QED
    BY <1>2, BooleanIsCode DEF LoopCloses, LoopEnds

\* The end of a LOOP and of a NEXT is behind it.
LEMMA ClosesBehind ==
  ASSUME Source, NEW k \in 1 .. EndOfFile, k < Len(tokens), NEW j \in 1 .. EndOfFile
  PROVE  /\ LoopCloses(k, j) \/ LoopEnds(k, j) => j \in k + 2 .. EndOfFile
         /\ \A i : NextCloses(i, k, j) => j \in k + 2 .. EndOfFile
  <1>1. EndOfFile \in Nat
    BY TokenThere
  <1>2. IsBoolean(k + 2, j) \/ CodeBoolean(k + 2, j) => k + 2 < j
    BY DEF IsBoolean, CodeBoolean, Separated
  <1> QED
    BY <1>1, <1>2 DEF LoopCloses, LoopEnds, NextCloses

\* INCLUDE with its literal, and a keyword statement behind them: to the grammar
\* two statements, to the code one.
LEMMA IncludesLead ==
  ASSUME Source, IncludesLeadKeywords(tokens), NEW i \in 1 .. EndOfFile, i \in DOMAIN tokens, tokens[i] = "INCLUDE"
  PROVE  /\ i + 2 \in 1 .. Len(tokens) /\ tokens[i + 2] \in Statements \cup {"INCLUDE"}
         /\ i + 2 \in Ends[i].one
         /\ \A j : CodeKeywordStatement(i, j) <=> CodeKeywordStatement(i + 2, j)
  <1>1. EndOfFile = Len(tokens) + 1 /\ Len(tokens) \in Nat
    BY TokenThere
  <1>2. i + 2 <= Len(tokens) /\ tokens[i + 1] \in StringLiterals /\ tokens[i + 2] \in Statements \cup {"INCLUDE"}
    BY DEF IncludesLeadKeywords
  <1>3. i + 2 \in Ends[i].one
    BY <1>1, <1>2, SpanOf DEF IsKeywordStatement
  <1>4. ASSUME NEW j, CodeKeywordStatement(i, j) PROVE CodeKeywordStatement(i + 2, j)
    <2>1. PICK k \in i .. j - 1 :
             /\ (k - i) % 2 = 0
             /\ \A h \in i .. k - 1 : (h - i) % 2 = 0 => tokens[h] = "INCLUDE"
             /\ \E parts \in Sides(tokens[k]) : AreParts(parts, k + 1, j)
      BY <1>4 DEF CodeKeywordStatement
    <2>2. k # i
      BY <2>1, SidesThere
    <2>3. k \in i + 2 .. j - 1 /\ (k - (i + 2)) % 2 = 0
      BY <2>1, <2>2
    <2>4. \A h \in i + 2 .. k - 1 : h \in i .. k - 1 /\ ((h - (i + 2)) % 2 = 0 => (h - i) % 2 = 0)
      BY <2>3
    <2> QED
      BY <2>1, <2>3, <2>4 DEF CodeKeywordStatement
  <1>5. ASSUME NEW j, CodeKeywordStatement(i + 2, j) PROVE CodeKeywordStatement(i, j)
    <2>1. PICK k \in i + 2 .. j - 1 :
             /\ (k - (i + 2)) % 2 = 0
             /\ \A h \in i + 2 .. k - 1 : (h - (i + 2)) % 2 = 0 => tokens[h] = "INCLUDE"
             /\ \E parts \in Sides(tokens[k]) : AreParts(parts, k + 1, j)
      BY <1>5 DEF CodeKeywordStatement
    <2>2. k \in i .. j - 1 /\ (k - i) % 2 = 0
      BY <2>1
    <2>3. ASSUME NEW h \in i .. k - 1, (h - i) % 2 = 0 PROVE tokens[h] = "INCLUDE"
      <3>1. h = i \/ (h \in i + 2 .. k - 1 /\ (h - (i + 2)) % 2 = 0)
        BY <2>1, <2>3
      <3> QED
        BY <2>1, <3>1
    <2> QED
      BY <2>1, <2>2, <2>3 DEF CodeKeywordStatement
  <1> QED
    BY <1>1, <1>2, <1>3, <1>4, <1>5

\* A keyword statement of one keyword is one to both.
LEMMA KeywordAlone ==
  ASSUME Source, NEW i \in 1 .. EndOfFile, NEW j, tokens[i] # "INCLUDE"
  PROVE  /\ CodeKeywordStatement(i, j) => IsKeywordStatement(i, j)
         /\ j \in i + 1 .. EndOfFile /\ IsKeywordStatement(i, j) => CodeKeywordStatement(i, j)
  <1>1. EndOfFile \in Nat
    BY TokenThere
  <1>2. ASSUME CodeKeywordStatement(i, j) PROVE IsKeywordStatement(i, j)
    <2>1. PICK k \in i .. j - 1 :
             /\ (k - i) % 2 = 0
             /\ \A h \in i .. k - 1 : (h - i) % 2 = 0 => tokens[h] = "INCLUDE"
             /\ \E parts \in Sides(tokens[k]) : AreParts(parts, k + 1, j)
      BY <1>2 DEF CodeKeywordStatement
    <2>2. k # i => i \in i .. k - 1 /\ (i - i) % 2 = 0
      BY <2>1
    <2>3. k = i
      BY <2>1, <2>2
    <2> QED
      BY <2>1, <2>3 DEF IsKeywordStatement
  <1>3. ASSUME j \in i + 1 .. EndOfFile, IsKeywordStatement(i, j) PROVE CodeKeywordStatement(i, j)
    <2>1. PICK parts \in Sides(tokens[i]) : AreParts(parts, i + 1, j)
      BY <1>3 DEF IsKeywordStatement
    <2>2. i \in i .. j - 1 /\ (i - i) % 2 = 0 /\ i .. i - 1 = {}
      BY <1>1, <1>3
    <2> QED
      BY <2>1, <2>2 DEF CodeKeywordStatement
  <1> QED
    BY <1>2, <1>3

\* The first tokens of the grammar's statements tell them apart too.
LEMMA SpanFirst ==
  ASSUME Source, NEW i \in 1 .. EndOfFile, NEW j \in Ends[i].one
  PROVE  /\ i \in 1 .. Len(tokens) /\ i \in DOMAIN tokens /\ j \in i + 1 .. EndOfFile
         /\ \/ IsAssign(i, j) /\ tokens[i] \in Variables
            \/ IsKeywordStatement(i, j) /\ tokens[i] \in Statements \ {"INCLUDE"}
            \/ j = i + 2 /\ tokens[i] = "INCLUDE"
            \/ tokens[i] \in LabelNames /\ j = i + 1
            \/ tokens[i] = "IF" /\ \E k \in Thens(i) \cup Elses(Ends, i) : j \in Ends[k + 1].one
            \/ tokens[i] = "DO" /\ \E k \in Loops(Ends, i) : LoopCloses(k, j)
            \/ tokens[i] = "FOR" /\ \E k \in Nexts(Ends, i) : NextCloses(i, k, j)
  <1>1. EndOfFile = Len(tokens) + 1 /\ Len(tokens) \in Nat
    BY TokenThere
  <1>2. j \in i + 1 .. EndOfFile
    BY SpanOf
  <1>3. i \in 1 .. Len(tokens) /\ i \in DOMAIN tokens
    BY <1>1, <1>2 DEF Source
  <1>4. IsAssign(i, j) => tokens[i] \in Variables
    BY DEF IsAssign
  <1>5. IsKeywordStatement(i, j) => \/ tokens[i] \in Statements \ {"INCLUDE"}
                                    \/ j = i + 2 /\ tokens[i] = "INCLUDE"
    BY SidesThere DEF IsKeywordStatement
  <1> QED
    BY <1>2, <1>3, <1>4, <1>5, SpanOf

\* THEN and ELSE of both.
LEMMA BranchesAt ==
  ASSUME Source, NEW i \in 1 .. EndOfFile
  PROVE  /\ \A k \in Elses(Ends, i) : \E t \in Thens(i) : k \in Ends[t + 1].one /\ tokens[k] = "ELSE" /\ k < EndOfFile
         /\ \A k \in CodeElses(CodeEnds, i) : \E t \in CodeThens(i) :
               k \in CodeEnds[t + 1].one /\ tokens[k] = "ELSE" /\ k < EndOfFile
         /\ \A t \in Thens(i) : t \in i + 1 .. Len(tokens) /\ tokens[t] = "THEN"
         /\ \A t \in CodeThens(i) : t \in i + 1 .. Len(tokens) /\ tokens[t] = "THEN"
         /\ \A t \in Thens(i) : \A k \in Ends[t + 1].one : k < EndOfFile /\ tokens[k] = "ELSE" => k \in Elses(Ends, i)
         /\ \A t \in CodeThens(i) : \A k \in CodeEnds[t + 1].one :
               k < EndOfFile /\ tokens[k] = "ELSE" => k \in CodeElses(CodeEnds, i)
  BY DEF Elses, CodeElses, Thens, CodeThens

-----------------------------------------------------------------------------
(* What the code takes is in the grammar.                                  *)

\* From x on: what a statement, and what any number of them, become; and one
\* that is followed by ELSE is one statement to both.
Sounds(x) ==
    /\ CodeEnds[x].one \subseteq Ends[x].all
    /\ CodeEnds[x].all \subseteq Ends[x].all
    /\ \A j \in CodeEnds[x].one :
          j < EndOfFile /\ tokens[j] = "ELSE" /\ tokens[x] \notin LabelNames \cup {"INCLUDE"} => j \in Ends[x].one

\* The branches of an IF.
LEMMA SoundBranch ==
  ASSUME Source, NoMoreThanTheGrammar(tokens), NEW i \in 1 .. EndOfFile, \A y \in i + 1 .. EndOfFile : Sounds(y),
         NEW k \in CodeThens(i) \cup CodeElses(CodeEnds, i), NEW j \in LastEnds(CodeEnds, k + 1)
  PROVE  /\ k \in Thens(i) \cup Elses(Ends, i) /\ k \in i + 1 .. Len(tokens) /\ tokens[k] \in {"THEN", "ELSE"}
         /\ k + 1 \in i + 1 .. EndOfFile /\ j \in CodeEnds[k + 1].one
  <1>1. EndOfFile = Len(tokens) + 1 /\ Len(tokens) \in Nat /\ DOMAIN tokens = 1 .. Len(tokens)
    BY TokenThere DEF Source
  <1>2. CodeThens(i) \subseteq Thens(i)
    BY ThensAre DEF NoMoreThanTheGrammar
  <1>3. /\ k \in Thens(i) \cup Elses(Ends, i) /\ k \in i + 1 .. Len(tokens) /\ tokens[k] \in {"THEN", "ELSE"}
    <2>1. CASE k \in CodeThens(i)
      BY <1>2, <2>1, BranchesAt
    <2>2. CASE k \in CodeElses(CodeEnds, i)
      <3>1. PICK t \in CodeThens(i) : k \in CodeEnds[t + 1].one /\ tokens[k] = "ELSE" /\ k < EndOfFile
        BY <2>2, BranchesAt
      <3>2. t \in i + 1 .. Len(tokens) /\ tokens[t] = "THEN" /\ t + 1 \in i + 1 .. EndOfFile /\ t + 1 \in 1 .. EndOfFile
        BY <1>1, <3>1, BranchesAt
      <3>3. k \in (t + 1) + 1 .. EndOfFile
        BY <3>1, <3>2, CodeAll
      <3>4. k \in t + 2 .. Len(tokens) /\ t \in DOMAIN tokens /\ k \in i + 1 .. Len(tokens)
        BY <1>1, <3>1, <3>2, <3>3
      <3>5. tokens[t + 1] \notin LabelNames \cup {"INCLUDE"}
        BY <3>1, <3>2, <3>4 DEF NoMoreThanTheGrammar, BranchesAreSingle
      <3>6. k \in Ends[t + 1].one
        BY <3>1, <3>2, <3>5 DEF Sounds
      <3> QED
        BY <1>2, <3>1, <3>4, <3>6, BranchesAt
    <2> QED
      BY <2>1, <2>2
  <1>4. k + 1 # EndOfFile
    BY <1>1, <1>3 DEF NoMoreThanTheGrammar, HasBranches
  <1> QED
    BY <1>1, <1>3, <1>4 DEF LastEnds

\* The end of a body of the code is one of the grammar.
LEMMA SoundBodies ==
  ASSUME Source, NEW i \in 1 .. EndOfFile, \A y \in i + 1 .. EndOfFile : Sounds(y)
  PROVE  /\ \A k \in Nexts(CodeEnds, i) : k \in Nexts(Ends, i) /\ k \in 1 .. EndOfFile /\ k < Len(tokens)
         /\ i < EndOfFile =>
               \A k \in Loops(CodeEnds, i) : k \in Loops(Ends, i) /\ k \in 1 .. EndOfFile /\ k < Len(tokens)
  <1>1. EndOfFile = Len(tokens) + 1 /\ Len(tokens) \in Nat
    BY TokenThere
  <1>2. ASSUME NEW y \in i + 1 .. EndOfFile, NEW k \in CodeEnds[y].all PROVE k \in Ends[y].all /\ k \in 1 .. EndOfFile
    <2>1. y \in 1 .. EndOfFile /\ k \in Ends[y].all
      BY <1>2 DEF Sounds
    <2>2. k \in y .. EndOfFile
      BY <2>1, SpansFollow
    <2> QED
      BY <1>1, <2>1, <2>2
  <1>3. Headers(i) \subseteq i + 1 .. EndOfFile
    BY DEF Headers
  <1>4. i < EndOfFile => i + 1 \in i + 1 .. EndOfFile
    BY <1>1
  <1>5. \A k \in Nexts(CodeEnds, i) : k \in Nexts(Ends, i) /\ k \in 1 .. EndOfFile /\ k < Len(tokens)
    <2> TAKE k \in Nexts(CodeEnds, i)
    <2>1. PICK m \in Headers(i) : k \in CodeEnds[m].all
      BY DEF Nexts
    <2>2. k < Len(tokens) /\ tokens[k] = "NEXT"
      BY DEF Nexts
    <2>3. k \in Ends[m].all /\ k \in 1 .. EndOfFile
      BY <1>2, <1>3, <2>1
    <2> QED
      BY <2>1, <2>2, <2>3 DEF Nexts
  <1> QED
    BY <1>2, <1>4, <1>5 DEF Loops

LEMMA SoundStep ==
  ASSUME Source, NoMoreThanTheGrammar(tokens), NEW i \in 1 .. EndOfFile, \A y \in i + 1 .. EndOfFile : Sounds(y)
  PROVE  Sounds(i)
  <1>1. EndOfFile = Len(tokens) + 1 /\ Len(tokens) \in Nat /\ DOMAIN tokens = 1 .. Len(tokens)
    BY TokenThere DEF Source
  <1>2. ASSUME NEW j \in CodeEnds[i].one
        PROVE  /\ j \in Ends[i].all
               /\ j < EndOfFile /\ tokens[j] = "ELSE" /\ tokens[i] \notin LabelNames \cup {"INCLUDE"} => j \in Ends[i].one
    <2>1. j \in i + 1 .. EndOfFile /\ i \in 1 .. Len(tokens) /\ i + 1 \in i + 1 .. EndOfFile
      BY <1>1, CodeAll
    <2>2. j \in Ends[i].one => j \in Ends[i].all
      BY SpanAll
    <2>3. CASE IsAssign(i, j)
      BY <2>1, <2>2, <2>3, SpanOf
    <2>4. CASE CodeKeywordStatement(i, j) /\ tokens[i] # "INCLUDE"
      BY <2>1, <2>2, <2>4, SpanOf, KeywordAlone
    <2>5. CASE CodeKeywordStatement(i, j) /\ tokens[i] = "INCLUDE"
      <3>1. i + 2 \in 1 .. Len(tokens) /\ i + 2 \in Ends[i].one /\ CodeKeywordStatement(i + 2, j)
        BY <1>1, <2>1, <2>5, IncludesLead DEF NoMoreThanTheGrammar
      <3>2. i + 2 \in i + 1 .. EndOfFile /\ i + 2 \in 1 .. EndOfFile /\ j \in (i + 2) + 1 .. EndOfFile
        BY <1>1, <2>1, <3>1 DEF CodeKeywordStatement
      <3>3. j \in CodeEnds[i + 2].one
        BY <3>1, <3>2, CodeOf
      <3>4. j \in Ends[i + 2].all
        BY <3>2, <3>3 DEF Sounds
      <3> QED
        BY <2>5, <3>1, <3>4, SpanAll
    <2>6. CASE tokens[i] \in LabelNames /\ j \in LastEnds(CodeEnds, i + 1)
      <3>1. i + 1 \in Ends[i].one
        BY <2>1, <2>6, SpanOf
      <3>2. j \in Ends[i + 1].all
        <4>1. i + 1 \in 1 .. EndOfFile
          BY <1>1, <2>1
        <4>2. j = i + 1 \/ j \in CodeEnds[i + 1].one
          BY <2>6 DEF LastEnds
        <4> QED
          BY <2>1, <4>1, <4>2, SpanAll DEF Sounds
      <3> QED
        BY <2>6, <3>1, <3>2, SpanAll
    <2>7. CASE tokens[i] = "IF" /\ \E k \in CodeThens(i) \cup CodeElses(CodeEnds, i) : j \in LastEnds(CodeEnds, k + 1)
      <3>1. PICK k \in CodeThens(i) \cup CodeElses(CodeEnds, i) : j \in LastEnds(CodeEnds, k + 1)
        BY <2>7
      <3>2. /\ k \in Thens(i) \cup Elses(Ends, i) /\ k \in i + 1 .. Len(tokens) /\ tokens[k] \in {"THEN", "ELSE"}
            /\ k + 1 \in i + 1 .. EndOfFile /\ j \in CodeEnds[k + 1].one
        BY <3>1, SoundBranch
      <3>3. k + 1 \in 1 .. EndOfFile /\ k \in DOMAIN tokens
        BY <1>1, <3>2
      <3>4. j \in (k + 1) + 1 .. EndOfFile
        BY <3>2, <3>3, CodeAll
      <3>5. j \in Ends[i].all
        <4>1. j \in Ends[k + 1].all
          BY <3>2 DEF Sounds
        <4>2. j # k + 1
          BY <3>2, <3>4
        <4>3. PICK r \in Ends[k + 1].one : j \in Ends[r].all
          BY <3>3, <4>1, <4>2, SpanAll
        <4>4. r \in (k + 1) + 1 .. EndOfFile
          BY <3>3, SpanAll
        <4>5. r \in i + 1 .. EndOfFile
          BY <3>2, <4>4
        <4>6. r \in Ends[i].one
          BY <2>7, <3>2, <4>5, SpanOf
        <4> QED
          BY <4>3, <4>6, SpanAll
      <3>6. ASSUME j < EndOfFile, tokens[j] = "ELSE" PROVE j \in Ends[i].one
        <4>1. j \in k + 2 .. Len(tokens)
          BY <1>1, <3>2, <3>4, <3>6
        <4>2. tokens[k + 1] \notin LabelNames \cup {"INCLUDE"}
          BY <3>2, <3>3, <3>6, <4>1 DEF NoMoreThanTheGrammar, BranchesAreSingle
        <4>3. j \in Ends[k + 1].one
          BY <3>2, <3>6, <4>2 DEF Sounds
        <4> QED
          BY <2>1, <2>7, <3>2, <4>3, SpanOf
      <3> QED
        BY <3>5, <3>6
    <2>8. CASE tokens[i] = "DO" /\ \E k \in Loops(CodeEnds, i) : LoopEnds(k, j)
      <3>1. PICK k \in Loops(CodeEnds, i) : LoopEnds(k, j)
        BY <2>8
      <3>2. k \in Loops(Ends, i) /\ k \in 1 .. EndOfFile /\ k < Len(tokens) /\ j \in 1 .. EndOfFile
        BY <1>1, <2>1, SoundBodies
      <3>3. LoopCloses(k, j)
        BY <3>1, <3>2, ClosesBehind, LoopsEnd DEF NoMoreThanTheGrammar
      <3> QED
        BY <2>1, <2>2, <2>8, <3>2, <3>3, SpanOf
    <2>9. CASE tokens[i] = "FOR" /\ \E k \in Nexts(CodeEnds, i) : NextCloses(i, k, j)
      <3>1. \E k \in Nexts(Ends, i) : NextCloses(i, k, j)
        BY <2>9, SoundBodies
      <3> QED
        BY <2>1, <2>2, <2>9, <3>1, SpanOf
    <2> QED
      BY <2>3, <2>4, <2>5, <2>6, <2>7, <2>8, <2>9, CodeOf
  <1>3. ASSUME NEW j \in CodeEnds[i].all PROVE j \in Ends[i].all
    <2>1. CASE j = i
      BY <2>1, SpanAll
    <2>2. CASE j # i
      <3>1. PICK q \in CodeEnds[i].one : j \in CodeEnds[q].all
        BY <2>2, CodeAll
      <3>2. q \in i + 1 .. EndOfFile /\ q \in Ends[i].all
        BY <1>2, CodeAll
      <3>3. j \in Ends[q].all
        BY <3>1, <3>2 DEF Sounds
      <3> QED
        BY <3>2, <3>3, SpansFollow
    <2> QED
      BY <2>1, <2>2
  <1> QED
    BY <1>2, <1>3 DEF Sounds

LEMMA CodeIsGrammar ==
  ASSUME Source, NoMoreThanTheGrammar(tokens), CodeStatements(1, EndOfFile)
  PROVE  IsProgram
  <1> DEFINE S == {x \in 1 .. EndOfFile : Sounds(x)}
  <1>1. EndOfFile \in Nat /\ 1 \in 1 .. EndOfFile
    BY DEF EndOfFile, Source
  <1>2. \A x \in 1 .. EndOfFile : (\A y \in x + 1 .. EndOfFile : y \in S) => x \in S
    BY SoundStep
  <1>3. 1 \in S
    <2> HIDE DEF S
    <2> QED
      BY <1>1, <1>2, Downward
  <1> QED
    BY <1>3 DEF Sounds, CodeStatements, IsProgram, NoMoreThanTheGrammar, HasBranches

-----------------------------------------------------------------------------
(* What is in the grammar the code takes.                                  *)

\* From x on: statements that end where a body or the source does, and one that is
\* followed by ELSE, are so many to the code.
Closing(j) == j = EndOfFile \/ tokens[j] \in {"LOOP", "NEXT"}

Covers(x) ==
    /\ \A j \in Ends[x].all : Closing(j) => j \in CodeEnds[x].all
    /\ \A j \in Ends[x].one : j < EndOfFile /\ tokens[j] = "ELSE" => j \in CodeEnds[x].one

LEMMA CoversBranch ==
  ASSUME Source, NEW i \in 1 .. EndOfFile, \A y \in i + 1 .. EndOfFile : Covers(y),
         NEW k \in Thens(i) \cup Elses(Ends, i)
  PROVE  k \in CodeThens(i) \cup CodeElses(CodeEnds, i) /\ k + 1 \in i + 1 .. EndOfFile /\ k + 1 \in 1 .. EndOfFile
  <1>1. EndOfFile = Len(tokens) + 1 /\ Len(tokens) \in Nat
    BY TokenThere
  <1>2. Thens(i) \subseteq CodeThens(i)
    BY ThensAre
  <1>3. CASE k \in Thens(i)
    BY <1>1, <1>2, <1>3, BranchesAt
  <1>4. CASE k \in Elses(Ends, i)
    <2>1. PICK t \in Thens(i) : k \in Ends[t + 1].one /\ tokens[k] = "ELSE" /\ k < EndOfFile
      BY <1>4, BranchesAt
    <2>2. t + 1 \in i + 1 .. EndOfFile /\ t + 1 \in 1 .. EndOfFile /\ t \in Int
      BY <1>1, <2>1, BranchesAt
    <2>3. k \in (t + 1) + 1 .. EndOfFile
      BY <2>1, <2>2, SpanAll
    <2>4. k \in CodeEnds[t + 1].one
      BY <2>1, <2>2 DEF Covers
    <2> QED
      BY <1>1, <1>2, <2>1, <2>2, <2>3, <2>4, BranchesAt
  <1> QED
    BY <1>3, <1>4

LEMMA CoversBodies ==
  ASSUME Source, NEW i \in 1 .. EndOfFile, \A y \in i + 1 .. EndOfFile : Covers(y)
  PROVE  /\ \A k \in Nexts(Ends, i) : k \in Nexts(CodeEnds, i) /\ k \in 1 .. EndOfFile /\ k < Len(tokens)
         /\ i < EndOfFile =>
               \A k \in Loops(Ends, i) : k \in Loops(CodeEnds, i) /\ k \in 1 .. EndOfFile /\ k < Len(tokens)
  <1>1. EndOfFile = Len(tokens) + 1 /\ Len(tokens) \in Nat
    BY TokenThere
  <1>2. ASSUME NEW y \in i + 1 .. EndOfFile, NEW k \in Ends[y].all, tokens[k] \in {"LOOP", "NEXT"}
        PROVE  k \in CodeEnds[y].all /\ k \in 1 .. EndOfFile
    <2>1. y \in 1 .. EndOfFile /\ k \in CodeEnds[y].all
      BY <1>2 DEF Covers, Closing
    <2>2. k \in y .. EndOfFile
      BY <2>1, SpansFollow
    <2> QED
      BY <1>1, <2>1, <2>2
  <1>3. Headers(i) \subseteq i + 1 .. EndOfFile
    BY DEF Headers
  <1>4. i < EndOfFile => i + 1 \in i + 1 .. EndOfFile
    BY <1>1
  <1>5. \A k \in Nexts(Ends, i) : k \in Nexts(CodeEnds, i) /\ k \in 1 .. EndOfFile /\ k < Len(tokens)
    <2> TAKE k \in Nexts(Ends, i)
    <2>1. PICK m \in Headers(i) : k \in Ends[m].all
      BY DEF Nexts
    <2>2. k < Len(tokens) /\ tokens[k] = "NEXT"
      BY DEF Nexts
    <2>3. k \in CodeEnds[m].all /\ k \in 1 .. EndOfFile
      BY <1>2, <1>3, <2>1, <2>2
    <2> QED
      BY <2>1, <2>2, <2>3 DEF Nexts
  <1> QED
    BY <1>2, <1>4, <1>5 DEF Loops

\* A statement of the grammar that is one of the code too.
LEMMA CoversAlone ==
  ASSUME Source, NEW i \in 1 .. EndOfFile, \A y \in i + 1 .. EndOfFile : Covers(y), NEW j \in Ends[i].one,
         \/ IsAssign(i, j)
         \/ IsKeywordStatement(i, j) /\ tokens[i] \in Statements \ {"INCLUDE"}
         \/ tokens[i] = "DO" /\ \E k \in Loops(Ends, i) : LoopCloses(k, j)
         \/ tokens[i] = "FOR" /\ \E k \in Nexts(Ends, i) : NextCloses(i, k, j)
  PROVE  j \in CodeEnds[i].one
  <1>1. j \in i + 1 .. EndOfFile /\ EndOfFile = Len(tokens) + 1 /\ Len(tokens) \in Nat /\ i < EndOfFile
    BY TokenThere, SpanAll
  <1>2. CASE IsAssign(i, j)
    BY <1>1, <1>2, CodeOf
  <1>3. CASE IsKeywordStatement(i, j) /\ tokens[i] \in Statements \ {"INCLUDE"}
    BY <1>1, <1>3, CodeOf, KeywordAlone
  <1>4. CASE tokens[i] = "DO" /\ \E k \in Loops(Ends, i) : LoopCloses(k, j)
    <2>1. PICK k \in Loops(Ends, i) : LoopCloses(k, j)
      BY <1>4
    <2>2. k \in Loops(CodeEnds, i) /\ k \in 1 .. EndOfFile /\ k < Len(tokens) /\ j \in 1 .. EndOfFile
      BY <1>1, CoversBodies
    <2>3. LoopEnds(k, j)
      BY <2>1, <2>2, ClosesBehind, LoopsEnd
    <2> QED
      BY <1>1, <1>4, <2>2, <2>3, CodeOf
  <1>5. CASE tokens[i] = "FOR" /\ \E k \in Nexts(Ends, i) : NextCloses(i, k, j)
    <2>1. \E k \in Nexts(CodeEnds, i) : NextCloses(i, k, j)
      BY <1>5, CoversBodies
    <2> QED
      BY <1>1, <1>5, <2>1, CodeOf
  <1> QED
    BY <1>2, <1>3, <1>4, <1>5

LEMMA CoversStep ==
  ASSUME Source, NoMoreThanTheCode(tokens), NEW i \in 1 .. EndOfFile, \A y \in i + 1 .. EndOfFile : Covers(y)
  PROVE  Covers(i)
  <1>1. EndOfFile = Len(tokens) + 1 /\ Len(tokens) \in Nat /\ DOMAIN tokens = 1 .. Len(tokens)
    BY TokenThere DEF Source
  <1>2. ASSUME NEW q \in Ends[i].one
        PROVE  /\ q < EndOfFile /\ tokens[q] = "ELSE" => q \in CodeEnds[i].one
               /\ \A j \in Ends[q].all : Closing(j) => \E r \in CodeEnds[i].one : j \in CodeEnds[r].all
    <2>1. q \in i + 1 .. EndOfFile /\ q \in 1 .. EndOfFile /\ i \in 1 .. Len(tokens) /\ Covers(q)
      BY <1>1, SpanFirst
    <2>2. q \in CodeEnds[i].one => \A j \in Ends[q].all : Closing(j) => \E r \in CodeEnds[i].one : j \in CodeEnds[r].all
      BY <2>1 DEF Covers
    <2>3. CASE \/ IsAssign(i, q)
               \/ IsKeywordStatement(i, q) /\ tokens[i] \in Statements \ {"INCLUDE"}
               \/ tokens[i] = "DO" /\ \E k \in Loops(Ends, i) : LoopCloses(k, q)
               \/ tokens[i] = "FOR" /\ \E k \in Nexts(Ends, i) : NextCloses(i, k, q)
      BY <2>2, <2>3, CoversAlone
    <2>4. CASE q = i + 2 /\ tokens[i] = "INCLUDE"
      <3>1. q \in 1 .. Len(tokens) /\ tokens[q] \in Statements \cup {"INCLUDE"}
            /\ \A j : CodeKeywordStatement(i, j) <=> CodeKeywordStatement(q, j)
        BY <1>1, <2>1, <2>4, IncludesLead DEF NoMoreThanTheCode
      <3>2. tokens[q] \notin {"ELSE", "LOOP", "NEXT"} /\ q # EndOfFile
        BY <1>1, <3>1 DEF Statements
      <3>3. ASSUME NEW j \in Ends[q].all, Closing(j) PROVE \E r \in CodeEnds[i].one : j \in CodeEnds[r].all
        <4>1. j \in CodeEnds[q].all /\ j # q
          BY <2>1, <3>2, <3>3 DEF Covers, Closing
        <4>2. PICK r \in CodeEnds[q].one : j \in CodeEnds[r].all
          BY <2>1, <4>1, CodeAll
        <4>3. CodeKeywordStatement(q, r) /\ r \in q + 1 .. EndOfFile
          BY <2>1, <3>1, <4>2, FirstOf
        <4>4. CodeKeywordStatement(i, r) /\ r \in i + 1 .. EndOfFile
          BY <1>1, <2>4, <3>1, <4>3
        <4>5. r \in CodeEnds[i].one
          BY <4>4, CodeOf
        <4> QED
          BY <4>2, <4>5
      <3> QED
        BY <3>2, <3>3
    <2>5. CASE tokens[i] \in LabelNames /\ q = i + 1
      <3>1. q < EndOfFile => tokens[q] \notin {"LOOP", "NEXT", "ELSE"}
        BY <1>1, <2>1, <2>5 DEF NoMoreThanTheCode, LabelsHaveStatements
      <3>2. CASE q = EndOfFile
        <4>1. q \in CodeEnds[i].one
          BY <2>1, <2>5, <3>2, CodeOf DEF LastEnds
        <4> QED
          BY <2>2, <3>2, <4>1
      <3>3. CASE q # EndOfFile
        <4>1. q < EndOfFile
          BY <1>1, <2>1, <3>3
        <4>2. ASSUME NEW j \in Ends[q].all, Closing(j) PROVE \E r \in CodeEnds[i].one : j \in CodeEnds[r].all
          <5>1. j \in CodeEnds[q].all /\ j # q
            BY <2>1, <3>1, <3>3, <4>1, <4>2 DEF Covers, Closing
          <5>2. PICK r \in CodeEnds[q].one : j \in CodeEnds[r].all
            BY <2>1, <5>1, CodeAll
          <5>3. r \in q + 1 .. EndOfFile
            BY <2>1, CodeAll
          <5>4. r \in i + 1 .. EndOfFile /\ r \in LastEnds(CodeEnds, i + 1)
            BY <1>1, <2>5, <5>2, <5>3 DEF LastEnds
          <5>5. r \in CodeEnds[i].one
            BY <2>5, <5>4, CodeOf
          <5> QED
            BY <5>2, <5>5
        <4> QED
          BY <3>1, <4>1, <4>2
      <3> QED
        BY <3>2, <3>3
    <2>6. CASE tokens[i] = "IF" /\ \E k \in Thens(i) \cup Elses(Ends, i) : q \in Ends[k + 1].one
      <3>1. PICK k \in Thens(i) \cup Elses(Ends, i) : q \in Ends[k + 1].one
        BY <2>6
      <3>2. k \in CodeThens(i) \cup CodeElses(CodeEnds, i) /\ k + 1 \in i + 1 .. EndOfFile /\ k + 1 \in 1 .. EndOfFile
        BY CoversBranch
      <3>3. \A r \in CodeEnds[k + 1].one : r \in CodeEnds[i].one
        <4> TAKE r \in CodeEnds[k + 1].one
        <4>1. r \in (k + 1) + 1 .. EndOfFile /\ r \in LastEnds(CodeEnds, k + 1)
          BY <3>2, CodeAll DEF LastEnds
        <4>2. r \in i + 1 .. EndOfFile
          BY <3>2, <4>1
        <4> QED
          BY <2>6, <3>2, <4>1, <4>2, CodeOf
      <3>4. ASSUME NEW j \in Ends[q].all, Closing(j) PROVE \E r \in CodeEnds[i].one : j \in CodeEnds[r].all
        <4>1. j \in Ends[k + 1].all /\ q \in (k + 1) + 1 .. EndOfFile
          BY <3>1, <3>2, SpanAll
        <4>2. j \in q .. EndOfFile
          BY <2>1, SpansFollow
        <4>3. j # k + 1 /\ j \in CodeEnds[k + 1].all
          BY <3>2, <3>4, <4>1, <4>2 DEF Covers
        <4>4. PICK r \in CodeEnds[k + 1].one : j \in CodeEnds[r].all
          BY <3>2, <4>3, CodeAll
        <4> QED
          BY <3>3, <4>4
      <3>5. q < EndOfFile /\ tokens[q] = "ELSE" => q \in CodeEnds[i].one
        BY <3>1, <3>2, <3>3 DEF Covers
      <3> QED
        BY <3>4, <3>5
    <2> QED
      BY <2>3, <2>4, <2>5, <2>6, SpanFirst
  <1>3. ASSUME NEW j \in Ends[i].all, Closing(j) PROVE j \in CodeEnds[i].all
    <2>1. CASE j = i
      BY <2>1, CodeAll
    <2>2. CASE j # i
      <3>1. PICK q \in Ends[i].one : j \in Ends[q].all
        BY <2>2, SpanAll
      <3>2. PICK r \in CodeEnds[i].one : j \in CodeEnds[r].all
        BY <1>2, <1>3, <3>1
      <3> QED
        BY <3>2, CodeAll
    <2> QED
      BY <2>1, <2>2
  <1> QED
    BY <1>2, <1>3 DEF Covers

LEMMA GrammarIsCode ==
  ASSUME Source, NoMoreThanTheCode(tokens), IsProgram
  PROVE  CodeStatements(1, EndOfFile)
  <1> DEFINE S == {x \in 1 .. EndOfFile : Covers(x)}
  <1>1. EndOfFile \in Nat /\ 1 \in 1 .. EndOfFile
    BY DEF EndOfFile, Source
  <1>2. \A x \in 1 .. EndOfFile : (\A y \in x + 1 .. EndOfFile : y \in S) => x \in S
    BY CoversStep
  <1>3. 1 \in S
    <2> HIDE DEF S
    <2> QED
      BY <1>1, <1>2, Downward
  <1> QED
    BY <1>3 DEF Covers, Closing, CodeStatements, IsProgram

-----------------------------------------------------------------------------
(* The parser and the grammar.                                             *)

LEMMA SourcesStay == Spec => [](tokens \in Sources)
  <1>1. Init => tokens \in Sources
    BY DEF Init
  <1>2. tokens \in Sources /\ [Next]_vars => (tokens \in Sources)'
    BY DEF Next, ParseEndOfFile, ParseAssign, ParseKeyword, ParseUnexpected, ParseLabel, ParseIf, ParseDo,
       ParseFor, ReturnToLabel, ReturnToThen, ReturnToElse, ReturnToBody, MoreBody, BodyAtEndOfFile, CloseDo,
       CloseFor, ReturnToParse, Stop, At, Returned, InBody, vars
  <1> QED
    BY <1>1, <1>2, PTL DEF Spec

\* A source that the parser accepts is a program of the grammar, each statement of
\* the form that grammar.ebnf gives it, if the source has nothing of what only the
\* code takes.
THEOREM ParserAcceptsPrograms ==
  ASSUME \A s \in Sources : NoMoreThanTheGrammar(s)
  PROVE  Spec => []AcceptsOnlyPrograms
  <1>1. TypeInv /\ tokens \in Sources /\ TakesOnlyCode => AcceptsOnlyPrograms
    BY CodeIsGrammar DEF TypeInv, TakesOnlyCode, AcceptsOnlyPrograms
  <1> QED
    BY <1>1, TypesHold, SourcesStay, ParserTakesOnlyCode, PTL

\* The parser accepts every program of the grammar that has nothing of what only
\* the grammar takes: it reports no error in it and looks into no Node that is not
\* there.
THEOREM ParserAcceptsEveryProgram ==
  ASSUME \A s \in Sources : NoMoreThanTheCode(s)
  PROVE  Spec => []AcceptsAllPrograms
  <1>1. TypeInv /\ tokens \in Sources /\ TakesAllCode => AcceptsAllPrograms
    BY GrammarIsCode DEF TypeInv, TakesAllCode, AcceptsAllPrograms
  <1> QED
    BY <1>1, TypesHold, SourcesStay, ParserTakesAllCode, PTL
=============================================================================
