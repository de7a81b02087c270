----------------------------- MODULE LexerProofs ------------------------------
(***************************************************************************)
(* The parser gets the lexemes of the source in their order, what is       *)
(* refused is none, and the first INCLUDE is read, for any source, any     *)
(* files, and any contents of the memory that include() frees.             *)
(*                                                                         *)
(* Next1, Newlines and ScanTokens are recursive functions.  What they      *)
(* compute is proved by their least counterexample: a set of naturals that *)
(* is not empty has a least element.                                       *)
(***************************************************************************)
EXTENDS Lexer, TLAPS, WellFoundedInduction, FiniteSetTheorems

\* Every set of naturals that is not empty has a least element: induction, as
\* a fact about sets.
LEMMA LeastElement ==
  ASSUME NEW S \in SUBSET Nat, S # {}
  PROVE  \E k \in S : \A n \in S : k <= n
  <1>1. IsWellFoundedOn(OpToRel(<, Nat), Nat)
    BY NatLessThanWellFounded
  <1>2. PICK k \in S : \A n \in S : ~ (<<n, k>> \in OpToRel(<, Nat))
    BY <1>1, WFMin
  <1>3. \A n \in S : n \in Nat /\ k \in Nat /\ ~ (n < k)
    BY <1>2 DEF OpToRel
  <1>4. \A n \in S : k <= n
    BY <1>3
  <1> QED
    BY <1>2, <1>4

LEMMA MinIsLeast ==
  ASSUME NEW S \in SUBSET Nat, S # {}
  PROVE  Min(S) \in S /\ \A n \in S : Min(S) <= n
  BY LeastElement DEF Min

\* A text holds a symbol at each of its positions, and a NUL behind them.
LEMMA Holds ==
  ASSUME NEW s \in Seq(Symbols)
  PROVE  /\ Len(s) \in Nat
         /\ \A i \in 1 .. Len(s) : s[i] \in Symbols /\ At(s, i) = s[i]
         /\ \A i \in Nat : i > Len(s) => At(s, i) = "NUL"
  BY DEF At

LEMMA NextParts ==
  ASSUME NEW s \in Seq(Symbols), NEW i \in Nat \ {0}, NEW cs
  PROVE  /\ Next1(s, i, cs) \in Nat
         /\ \/ /\ Next1(s, i, cs) = Len(s) + 2
               /\ \A j \in i .. Len(s) : s[j] \notin cs
            \/ /\ Next1(s, i, cs) \in i .. Len(s)
               /\ s[Next1(s, i, cs)] \in cs
               /\ \A j \in i .. Next1(s, i, cs) - 1 : s[j] \notin cs
  <1> DEFINE found == {j \in i .. Len(s) : s[j] \in cs}
  <1>1. found \in SUBSET Nat /\ Len(s) \in Nat
    OBVIOUS
  <1>2. CASE found = {}
    <2>1. Next1(s, i, cs) = Len(s) + 2
      BY <1>2 DEF Next1
    <2> QED
      BY <1>1, <1>2, <2>1
  <1>3. CASE found # {}
    <2>1. Next1(s, i, cs) = Min(found)
      BY <1>3 DEF Next1
    <2> HIDE DEF found
    <2>2. Next1(s, i, cs) \in found /\ \A n \in found : Next1(s, i, cs) <= n
      BY <1>1, <1>3, <2>1, MinIsLeast
    <2> QED
      BY <1>1, <2>2 DEF found
  <1> QED
    BY <1>2, <1>3

LEMMA NumberParts ==
  ASSUME NEW s \in Seq(Symbols), NEW i \in 1 .. Len(s) + 1
  PROVE  /\ NumberEnd(s, i) \in i .. Len(s) + 1
         /\ At(s, NumberEnd(s, i)) \notin Digits
         /\ \A j \in i .. NumberEnd(s, i) - 1 : At(s, j) \in Digits
  <1> DEFINE ends == {j \in i .. Len(s) + 1 : At(s, j) \notin Digits}
  <1>1. Len(s) \in Nat /\ ends \in SUBSET Nat
    OBVIOUS
  <1>2. Len(s) + 1 \in ends
    BY <1>1, Holds DEF Digits
  <1>3. NumberEnd(s, i) = Min(ends)
    BY DEF NumberEnd
  <1> HIDE DEF ends
  <1>4. NumberEnd(s, i) \in ends /\ \A n \in ends : NumberEnd(s, i) <= n
    BY <1>1, <1>2, <1>3, MinIsLeast
  <1> QED
    BY <1>1, <1>4 DEF ends

LEMMA WordParts ==
  ASSUME NEW s \in Seq(Symbols), NEW i \in 1 .. Len(s) + 1
  PROVE  /\ WordEnd(s, i) \in i .. Len(s) + 1
         /\ IsWhite(At(s, WordEnd(s, i)))
         /\ \A j \in i .. WordEnd(s, i) - 1 : ~IsWhite(At(s, j))
  <1> DEFINE ends == {j \in i .. Len(s) + 1 : IsWhite(At(s, j))}
  <1>1. Len(s) \in Nat /\ ends \in SUBSET Nat
    OBVIOUS
  <1>2. Len(s) + 1 \in ends
    <2>1. At(s, Len(s) + 1) = "NUL"
      BY <1>1, Holds
    <2>2. IsWhite("NUL")
      BY DEF IsWhite
    <2> QED
      BY <1>1, <2>1, <2>2
  <1>3. WordEnd(s, i) = Min(ends)
    BY DEF WordEnd
  <1> HIDE DEF ends
  <1>4. WordEnd(s, i) \in ends /\ \A n \in ends : WordEnd(s, i) <= n
    BY <1>1, <1>2, <1>3, MinIsLeast
  <1> QED
    BY <1>1, <1>4 DEF ends

-----------------------------------------------------------------------------
(* "goto next".                                                            *)

\* Where the scan goes on from a blank or a comment at j.
Onward(s, j) == IF At(s, j) \in Blanks THEN j + 1 ELSE CommentEnd(s, j)
Skipped(s, j) == At(s, j) \in Blanks \/ IsRem(s, j)

LEMMA GoesOn ==
  ASSUME NEW s \in Seq(Symbols), NEW j \in 1 .. Len(s) + 2, Skipped(s, j)
  PROVE  j <= Len(s) /\ Onward(s, j) \in j + 1 .. Len(s) + 2
  <1>1. Len(s) \in Nat
    OBVIOUS
  <1>2. j <= Len(s)
    <2>1. j > Len(s) => At(s, j) = "NUL"
      BY <1>1, Holds
    <2>2. "NUL" \notin Blanks /\ "NUL" # "REM"
      BY DEF Blanks
    <2>3. ~ (j > Len(s))
      BY <2>1, <2>2 DEF Skipped, IsRem
    <2> QED
      BY <1>1, <2>3
  <1>3. CASE At(s, j) \in Blanks
    BY <1>1, <1>2, <1>3 DEF Onward
  <1>4. CASE At(s, j) \notin Blanks
    <2>1. s[j] = "REM"
      BY <1>2, <1>4, Holds DEF Skipped, IsRem
    <2>2. Onward(s, j) = Next1(s, j, {"\n"})
      BY <1>4 DEF Onward, CommentEnd
    <2>3. s[j] \notin {"\n"}
      BY <2>1
    <2> QED
      BY <1>1, <1>2, <2>2, <2>3, NextParts
  <1> QED
    BY <1>3, <1>4

\* The equation of the scan has a solution: what Begin is at j depends on Begin
\* further on only.
LEMMA ScanExists ==
  ASSUME NEW s \in Seq(Symbols)
  PROVE  \E begin : begin = [j \in 1 .. Len(s) + 2 |->
            IF At(s, j) \in Blanks THEN begin[j + 1]
            ELSE IF IsRem(s, j) THEN begin[CommentEnd(s, j)] ELSE j]
  <1> DEFINE n == Len(s) + 2
             Value(g, j) == IF Skipped(s, j) THEN g[Onward(s, j)] ELSE j
             Solves(g, k) == /\ DOMAIN g = n - k + 1 .. n
                             /\ g = [j \in n - k + 1 .. n |-> g[j]]
                             /\ \A j \in n - k + 1 .. n : g[j] = Value(g, j)
             bad == {k \in 0 .. n : ~ \E g : Solves(g, k)}
  <1>1. n \in Nat /\ n >= 2
    OBVIOUS
  <1> HIDE DEF n
  <1>2. bad = {}
    <2> SUFFICES ASSUME bad # {} PROVE FALSE
      OBVIOUS
    <2>1. PICK k \in bad : \A i \in bad : k <= i
      <3>1. bad \in SUBSET Nat
        BY <1>1
      <3> HIDE DEF bad
      <3> QED
        BY <3>1, LeastElement
    <2>2. k \in 0 .. n /\ ~ \E g : Solves(g, k)
      BY <2>1
    <2>3. k # 0
      <3> SUFFICES ASSUME k = 0 PROVE FALSE
        OBVIOUS
      <3>1. Solves([j \in n - k + 1 .. n |-> j], k)
        BY <1>1
      <3> QED
        BY <2>2, <3>1
    <2>4. k - 1 \in 0 .. n /\ k - 1 \notin bad
      <3> HIDE DEF bad, Solves
      <3> QED
        BY <1>1, <2>1, <2>2, <2>3
    <2>5. PICK g : Solves(g, k - 1)
      BY <2>4
    <2> DEFINE first == n - k + 1
               h == [j \in first .. n |-> IF j = first THEN Value(g, j) ELSE g[j]]
    <2>6. first \in 1 .. n /\ n - (k - 1) + 1 = first + 1
      BY <1>1, <2>2, <2>3
    <2>7. \A j \in first .. n : h[j] = Value(h, j)
      <3> SUFFICES ASSUME NEW j \in first .. n PROVE h[j] = Value(h, j)
        OBVIOUS
      <3>1. j \in 1 .. Len(s) + 2
        BY <1>1, <2>6 DEF n
      <3>2. Skipped(s, j) => Onward(s, j) \in j + 1 .. n
        BY <3>1, GoesOn DEF n
      <3>3. Skipped(s, j) => Onward(s, j) \in first + 1 .. n
        BY <3>2, <2>6
      <3>4. \A i \in first + 1 .. n : i \in first .. n /\ i # first
        BY <1>1, <2>6
      <3>5. \A i \in first + 1 .. n : h[i] = g[i]
        BY <3>4
      <3>6. Value(h, j) = Value(g, j)
        BY <3>3, <3>5
      <3>7. j # first => j \in first + 1 .. n
        BY <1>1, <2>6
      <3>8. j # first => g[j] = Value(g, j)
        BY <3>7, <2>5, <2>6
      <3> QED
        BY <3>6, <3>8
    <2>8. Solves(h, k)
      BY <2>7
    <2> QED
      BY <2>2, <2>8
  <1>3. PICK g : Solves(g, n)
    BY <1>1, <1>2
  <1>4. n - n + 1 = 1
    BY <1>1
  <1>5. g = [j \in 1 .. n |-> g[j]]
    BY <1>3, <1>4
  <1>6. \A j \in 1 .. n : g[j] = IF At(s, j) \in Blanks THEN g[j + 1]
                                 ELSE IF IsRem(s, j) THEN g[CommentEnd(s, j)] ELSE j
    BY <1>3, <1>4 DEF Skipped, Onward
  <1>7. g = [j \in 1 .. n |-> IF At(s, j) \in Blanks THEN g[j + 1]
                              ELSE IF IsRem(s, j) THEN g[CommentEnd(s, j)] ELSE j]
    BY <1>5, <1>6
  <1> QED
    BY <1>7 DEF n

LEMMA BeginIs ==
  ASSUME NEW s \in Seq(Symbols), NEW j \in 1 .. Len(s) + 2
  PROVE  Begin(s, j) = IF Skipped(s, j) THEN Begin(s, Onward(s, j)) ELSE j
  <1> DEFINE begin == CHOOSE begin : begin = [i \in 1 .. Len(s) + 2 |->
                         IF At(s, i) \in Blanks THEN begin[i + 1]
                         ELSE IF IsRem(s, i) THEN begin[CommentEnd(s, i)] ELSE i]
  <1>1. begin = [i \in 1 .. Len(s) + 2 |->
                         IF At(s, i) \in Blanks THEN begin[i + 1]
                         ELSE IF IsRem(s, i) THEN begin[CommentEnd(s, i)] ELSE i]
    BY ScanExists
  <1>2. \A i : Begin(s, i) = begin[i]
    BY DEF Begin
  <1> HIDE DEF begin
  <1>3. begin[j] = IF At(s, j) \in Blanks THEN begin[j + 1]
                   ELSE IF IsRem(s, j) THEN begin[CommentEnd(s, j)] ELSE j
    BY <1>1
  <1> QED
    BY <1>2, <1>3 DEF Skipped, Onward

\* A comment of the scan from i covers j.
Covered(s, i, j) ==
    \E r \in i .. j : s[r] = "REM" /\ IsWhite(At(s, r + 1)) /\ "\n" \notin {s[q] : q \in r .. j}

\* The scan leaves off at the first symbol, or the NUL, that is neither blank nor
\* in a comment.
BeginsAt(s, i, b) ==
    /\ b \in i .. Len(s) + 2
    /\ b <= Len(s) + 1 => ~Skipped(s, b)
    /\ \A n \in i .. b - 1 : n <= Len(s) => s[n] \in Blanks \/ Covered(s, i, n)
    /\ b <= Len(s) => ~Covered(s, i, b)

LEMMA Steps ==
  ASSUME NEW s \in Seq(Symbols), NEW i \in 1 .. Len(s), NEW b, Skipped(s, i),
         BeginsAt(s, Onward(s, i), b)
  PROVE  BeginsAt(s, i, b)
  <1> DEFINE next == Onward(s, i)
  <1>1. Len(s) \in Nat
    OBVIOUS
  <1>2. next \in i + 1 .. Len(s) + 2 /\ i <= Len(s)
    BY <1>1, GoesOn
  <1>3. b \in next .. Len(s) + 2
    BY DEF BeginsAt
  <1>4. \A n \in i .. next - 1 : n <= Len(s) => s[n] \in Blanks \/ Covered(s, i, n)
    <2> SUFFICES ASSUME NEW n \in i .. next - 1, n <= Len(s)
                 PROVE  s[n] \in Blanks \/ Covered(s, i, n)
      OBVIOUS
    <2>1. CASE At(s, i) \in Blanks
      <3>1. n = i
        BY <1>1, <2>1 DEF Onward
      <3> QED
        BY <2>1, <3>1, <1>2, Holds
    <2>2. CASE At(s, i) \notin Blanks
      <3>1. s[i] = "REM" /\ IsWhite(At(s, i + 1))
        BY <1>2, <2>2, Holds DEF Skipped, IsRem
      <3>2. next = Next1(s, i, {"\n"})
        BY <2>2 DEF Onward, CommentEnd
      <3>3. \A q \in i .. n : s[q] # "\n"
        BY <1>1, <1>2, <3>2, NextParts
      <3> QED
        BY <3>1, <3>3 DEF Covered
    <2> QED
      BY <2>1, <2>2
  <1>5. \A n \in next .. Len(s) : Covered(s, next, n) => Covered(s, i, n)
    <2> SUFFICES ASSUME NEW n \in next .. Len(s), Covered(s, next, n) PROVE Covered(s, i, n)
      OBVIOUS
    <2>1. PICK r \in next .. n : s[r] = "REM" /\ IsWhite(At(s, r + 1)) /\ "\n" \notin {s[q] : q \in r .. n}
      BY DEF Covered
    <2>2. r \in i .. n
      BY <1>1, <1>2
    <2> QED
      BY <2>1, <2>2 DEF Covered
  <1>6. \A n \in next .. b - 1 : n <= Len(s) => s[n] \in Blanks \/ Covered(s, i, n)
    BY <1>1, <1>2, <1>3, <1>5 DEF BeginsAt
  <1>7. b <= Len(s) => ~Covered(s, i, b)
    <2> SUFFICES ASSUME b <= Len(s), Covered(s, i, b) PROVE FALSE
      OBVIOUS
    <2>1. PICK r \in i .. b : s[r] = "REM" /\ IsWhite(At(s, r + 1)) /\ \A q \in r .. b : s[q] # "\n"
      BY DEF Covered
    <2>2. r < next
      BY <2>1, <1>1, <1>2, <1>3 DEF BeginsAt, Covered
    <2>3. CASE At(s, i) \in Blanks
      <3>1. r = i
        BY <1>1, <1>2, <2>2, <2>3 DEF Onward
      <3>2. "REM" \notin Blanks
        BY DEF Blanks
      <3> QED
        BY <1>2, <2>1, <2>3, <3>1, <3>2, Holds
    <2>4. CASE At(s, i) \notin Blanks
      <3>1. next = Next1(s, i, {"\n"})
        BY <2>4 DEF Onward, CommentEnd
      <3>2. next <= Len(s)
        BY <1>1, <1>2, <1>3
      <3>3. s[next] = "\n"
        BY <1>1, <1>2, <3>1, <3>2, NextParts
      <3> QED
        BY <1>1, <1>2, <1>3, <2>1, <2>2, <3>3
    <2> QED
      BY <2>3, <2>4
  <1> QED
    BY <1>1, <1>2, <1>3, <1>4, <1>6, <1>7 DEF BeginsAt

\* What the scan does, from wherever it begins: an induction from the end of the
\* text to its beginning.
LEMMA ScanIs ==
  ASSUME NEW s \in Seq(Symbols), NEW i \in 1 .. Len(s) + 2
  PROVE  BeginsAt(s, i, Begin(s, i))
  <1> DEFINE n == Len(s) + 2
             bad == {k \in 0 .. n : n - k >= 1 /\ ~BeginsAt(s, n - k, Begin(s, n - k))}
  <1>1. n \in Nat
    OBVIOUS
  <1>2. bad = {}
    <2> SUFFICES ASSUME bad # {} PROVE FALSE
      OBVIOUS
    <2>1. PICK k \in bad : \A q \in bad : k <= q
      <3>1. bad \in SUBSET Nat
        BY <1>1
      <3> HIDE DEF bad
      <3> QED
        BY <3>1, LeastElement
    <2> DEFINE j == n - k
    <2>2. j \in 1 .. n /\ ~BeginsAt(s, j, Begin(s, j))
      BY <1>1, <2>1
    <2>3. CASE ~Skipped(s, j)
      <3>1. Begin(s, j) = j
        BY <2>2, <2>3, BeginIs
      <3>2. ~Covered(s, j, j) \/ j > Len(s)
        BY <2>2, <2>3, Holds DEF Covered, Skipped, IsRem
      <3>3. BeginsAt(s, j, j)
        BY <1>1, <2>2, <2>3, <3>2 DEF BeginsAt
      <3> QED
        BY <2>2, <3>1, <3>3
    <2>4. CASE Skipped(s, j)
      <3> DEFINE next == Onward(s, j)
      <3>1. j <= Len(s) /\ next \in j + 1 .. n
        BY <2>2, <2>4, GoesOn
      <3>2. Begin(s, j) = Begin(s, next)
        BY <2>2, <2>4, BeginIs
      <3>3. n - next \in 0 .. n /\ n - next < k /\ n - (n - next) = next
        BY <1>1, <2>1, <2>2, <3>1
      <3>4. n - next \notin bad
        <4>1. k \in 0 .. n
          BY <2>1
        <4> HIDE DEF bad
        <4> QED
          BY <2>1, <3>3, <1>1, <4>1
      <3>5. BeginsAt(s, next, Begin(s, next))
        BY <1>1, <2>2, <3>1, <3>3, <3>4
      <3>6. BeginsAt(s, j, Begin(s, next))
        BY <2>2, <2>4, <3>1, <3>5, Steps
      <3> QED
        BY <2>2, <3>2, <3>6
    <2> QED
      BY <2>3, <2>4
  <1>3. PICK k : k = n - i
    OBVIOUS
  <1>4. k \in 0 .. n /\ n - k = i /\ n - k >= 1
    BY <1>1, <1>3
  <1>5. BeginsAt(s, n - k, Begin(s, n - k))
    BY <1>2, <1>4
  <1> QED
    BY <1>4, <1>5

-----------------------------------------------------------------------------
(* Tokens.                                                                 *)

LEMMA Slice ==
  ASSUME NEW s \in Seq(Symbols), NEW i \in 1 .. Len(s), NEW j \in i .. Len(s)
  PROVE  /\ SubSeq(s, i, j) \in Seq(Symbols)
         /\ Len(SubSeq(s, i, j)) = j - i + 1
         /\ \A n \in 1 .. j - i + 1 : SubSeq(s, i, j)[n] = s[i + n - 1]
  OBVIOUS

LEMMA SameSequence ==
  ASSUME NEW v \in Seq(Symbols), NEW w \in Seq(Symbols), Len(v) = Len(w),
         \A n \in 1 .. Len(v) : v[n] = w[n]
  PROVE  v = w
  OBVIOUS

LEMMA OneSymbol ==
  ASSUME NEW s \in Seq(Symbols), NEW i \in 1 .. Len(s)
  PROVE  SubSeq(s, i, i) = <<s[i]>>
  <1>1. Len(s) \in Nat /\ s[i] \in Symbols
    OBVIOUS
  <1>2. SubSeq(s, i, i) \in Seq(Symbols) /\ Len(SubSeq(s, i, i)) = 1 /\ SubSeq(s, i, i)[1] = s[i]
    BY <1>1, Slice
  <1> DEFINE one == <<s[i]>>
  <1>3. one \in Seq(Symbols) /\ Len(one) = 1 /\ one[1] = s[i]
    BY <1>1
  <1> DEFINE w == SubSeq(s, i, i)
  <1>4. w \in Seq(Symbols) /\ Len(w) = 1 /\ w[1] = s[i]
    BY <1>2
  <1> HIDE DEF one, w
  <1>5. w = one
    BY <1>3, <1>4, SameSequence
  <1> QED
    BY <1>5 DEF one, w

LEMMA TwoSymbols ==
  ASSUME NEW s \in Seq(Symbols), NEW i \in 1 .. Len(s) - 1
  PROVE  SubSeq(s, i, i + 1) = <<s[i], s[i + 1]>>
  <1>1. Len(s) \in Nat /\ s[i] \in Symbols /\ s[i + 1] \in Symbols
    OBVIOUS
  <1>2. /\ SubSeq(s, i, i + 1) \in Seq(Symbols) /\ Len(SubSeq(s, i, i + 1)) = 2
        /\ SubSeq(s, i, i + 1)[1] = s[i] /\ SubSeq(s, i, i + 1)[2] = s[i + 1]
    BY <1>1, Slice
  <1> DEFINE two == <<s[i], s[i + 1]>>
  <1>3. two \in Seq(Symbols) /\ Len(two) = 2 /\ two[1] = s[i] /\ two[2] = s[i + 1]
    BY <1>1
  <1> HIDE DEF two
  <1>4. SubSeq(s, i, i + 1) = two
    BY <1>2, <1>3, SameSequence
  <1> QED
    BY <1>4 DEF two

\* What get_token makes of the symbol at b.
LEMMA TokenCases ==
  ASSUME NEW s \in Seq(Symbols), NEW b \in 1 .. Len(s) + 1, ~Skipped(s, b)
  PROVE  \/ b = Len(s) + 1 /\ TokenAt(s, b) = Lexeme("EOF", b, b - 1, b)
         \/ /\ b <= Len(s)
            /\ \/ s[b] \in Operators /\ TokenAt(s, b) = Lexeme(s[b], b, b, b + 1)
               \/ s[b] = "quote" /\ TokenAt(s, b) = String(s, b)
               \/ s[b] = "'" /\ TokenAt(s, b) = Character(s, b)
               \/ s[b] = "$" /\ TokenAt(s, b) = StringVariable(s, b)
               \/ s[b] = "!" /\ TokenAt(s, b) = Bang(s, b)
               \/ s[b] \in Digits /\ TokenAt(s, b) = Number(s, b)
               \/ s[b] \in Letters \cup Runs \cup {":", "("} /\ TokenAt(s, b) = Word(s, b)
  <1>1. Len(s) \in Nat
    OBVIOUS
  <1>2. CASE b = Len(s) + 1
    <2>1. At(s, b) = "NUL"
      BY <1>1, <1>2, Holds
    <2>2. TokenAt(s, b) = Lexeme("EOF", b, b - 1, b)
      BY <2>1 DEF TokenAt, Operators, Digits
    <2> QED
      BY <1>2, <2>2
  <1>3. CASE b # Len(s) + 1
    <2>1. b \in 1 .. Len(s)
      BY <1>1, <1>3
    <2>2. At(s, b) = s[b] /\ s[b] \in Symbols \ Blanks
      BY <2>1, Holds DEF Skipped
    <2>3. \/ s[b] \in Operators \/ s[b] = "quote" \/ s[b] = "'" \/ s[b] = "$" \/ s[b] = "!"
          \/ s[b] \in Digits \/ s[b] \in Letters \cup Runs \cup {":", "("}
      BY <2>2 DEF Symbols
    <2>4. CASE s[b] \in Operators
      BY <2>1, <2>2, <2>4 DEF TokenAt, Operators
    <2>5. CASE s[b] \in {"quote", "'", "$", "!"}
      BY <2>1, <2>2, <2>5 DEF TokenAt, Operators
    <2>6. CASE s[b] \in Digits
      BY <2>1, <2>2, <2>6 DEF TokenAt, Operators, Digits
    <2>7. CASE s[b] \in Letters \cup Runs \cup {":", "("}
      BY <2>1, <2>2, <2>7 DEF TokenAt, Operators, Digits, Letters, Runs
    <2> QED
      BY <2>3, <2>4, <2>5, <2>6, <2>7
  <1> QED
    BY <1>2, <1>3

\* The extent of a token that begins at b.
Extent(s, b, t) ==
    /\ t.type \in TokenType
    /\ t.from \in Nat /\ t.to \in Nat
    /\ t.next \in b .. Len(s) + 2
    /\ t.line = 0
    /\ t = Lexeme(t.type, t.from, t.to, t.next)
    /\ Ends(t) + 1 = t.next
    /\ t.type = "EOF" => b = Len(s) + 1 /\ t.from = b /\ t.next = b
    /\ t.type # "EOF" => b <= Len(s) /\ t.next > b
    /\ t.type \notin {"EOF", "ERROR"} => First1(t) = b /\ t.next <= Len(s) + 1
    /\ t.from \in {b, b + 1}
    /\ \A q \in b .. t.next - 1 : At(s, q) = "\n" => q \in t.from .. t.to

LEMMA StringParts ==
  ASSUME source \in Seq(Symbols), NEW b \in 1 .. Len(source), source[b] = "quote",
         NEW t, t = String(source, b), t.type # "PAST"
  PROVE  /\ Extent(source, b, t)
         /\ t.type = "STRING" \/ t.type = "ERROR"
         /\ t.type = "STRING" /\ (\A q \in t.from .. t.to : source[q] # "\n") =>
               IsLexeme(b, t.next - 1, t.type)
         /\ t.type = "ERROR" => \E q \in b + 2 .. Len(source) : /\ source[q] = "\n"
                                      /\ \A k \in b + 1 .. q - 1 : source[k] # "quote"
  <1> DEFINE s == source
             end == Next1(s, b + 1, {"quote"})
             newline == Next1(s, b + 2, {"\n"})
  <1>1. Len(s) \in Nat
    OBVIOUS
  <1>2. end \in Nat /\ newline \in Nat
    BY NextParts
  <1>3. t = IF newline < end THEN Error(b + 1, newline)
            ELSE IF end > Len(s) THEN Past ELSE Lexeme("STRING", b + 1, end - 1, end + 1)
    BY DEF String, Closed
  <1>4. CASE newline < end
    <2>1. t = Lexeme("ERROR", b + 1, newline - 1, newline)
      BY <1>3, <1>4 DEF Error
    <2>2. /\ newline \in b + 2 .. Len(s) /\ s[newline] = "\n"
          /\ \A k \in b + 2 .. newline - 1 : s[k] # "\n"
      <3>1. newline # Len(s) + 2
        BY <1>1, <1>2, <1>4, NextParts
      <3> QED
        BY <1>1, <3>1, NextParts
    <2>3. \A k \in b + 1 .. newline - 1 : k <= Len(s) /\ s[k] # "quote"
      BY <1>1, <1>2, <1>4, <2>2, NextParts
    <2>4. Extent(s, b, t)
      BY <1>1, <2>1, <2>2, <2>3, Holds DEF Extent, Lexeme, Ends, First1, Last1, Quoted, TokenType
    <2> QED
      BY <2>1, <2>2, <2>3, <2>4 DEF Lexeme
  <1>5. CASE ~(newline < end)
    <2>1. end <= Len(s) /\ t = Lexeme("STRING", b + 1, end - 1, end + 1)
      BY <1>1, <1>2, <1>3, <1>5 DEF Past, Lexeme
    <2>2. /\ end \in b + 1 .. Len(s) /\ s[end] = "quote"
          /\ \A k \in b + 1 .. end - 1 : s[k] # "quote"
      BY <1>1, <1>2, <2>1, NextParts
    <2>3. Extent(s, b, t)
      BY <1>1, <2>1, <2>2, Holds DEF Extent, Lexeme, Ends, First1, Last1, Quoted, TokenType, Types
    <2> SUFFICES ASSUME \A q \in t.from .. t.to : s[q] # "\n"
                 PROVE  IsLexeme(b, t.next - 1, "STRING")
      BY <2>1, <2>3 DEF Lexeme
    <2>4. \A k \in b + 1 .. end - 1 : s[k] # "\n"
      BY <2>1 DEF Lexeme
    <2> DEFINE w == SubSeq(s, b, end)
    <2>5. /\ Len(w) = end - b + 1
          /\ \A n \in 1 .. end - b + 1 : w[n] = s[b + n - 1]
      BY <1>1, <2>2, Slice
    <2>6. Len(w) > 1 /\ w[1] = "quote" /\ w[Len(w)] = "quote"
      BY <1>1, <2>2, <2>5
    <2>7. \A n \in 2 .. Len(w) - 1 : w[n] \notin {"quote", "\n"}
      <3> SUFFICES ASSUME NEW n \in 2 .. Len(w) - 1 PROVE w[n] \notin {"quote", "\n"}
        OBVIOUS
      <3>1. w[n] = s[b + n - 1] /\ b + n - 1 \in b + 1 .. end - 1
        BY <1>1, <2>2, <2>5
      <3>2. w[n] # "quote"
        BY <2>2, <3>1
      <3>3. w[n] # "\n"
        BY <2>4, <3>1
      <3> QED
        BY <3>2, <3>3
    <2>8. IsLexeme(b, end, "STRING")
      <3> HIDE DEF w
      <3>1. {w[n] : n \in 2 .. Len(w) - 1} \cap {"quote", "\n"} = {}
        BY <2>7
      <3> QED
        BY <2>6, <3>1 DEF IsLexeme, w
    <2>9. t.next - 1 = end
      BY <1>1, <2>1, <2>2 DEF Lexeme
    <2> QED
      BY <2>8, <2>9
  <1> QED
    BY <1>4, <1>5

\* A token of one or two symbols.
LEMMA ShortParts ==
  ASSUME source \in Seq(Symbols), NEW b \in 1 .. Len(source), NEW t,
         \/ source[b] \in Operators /\ t = Lexeme(source[b], b, b, b + 1)
         \/ source[b] = "$" /\ t = StringVariable(source, b)
         \/ source[b] = "!" /\ t = Bang(source, b)
  PROVE  /\ Extent(source, b, t)
         /\ t.type # "ERROR" => IsLexeme(b, t.next - 1, t.type)
         /\ t.type = "ERROR" => \/ source[b] = "$" /\ At(source, b + 1) # "1"
                                \/ source[b] = "!" /\ At(source, b + 1) # "="
  <1> DEFINE s == source
  <1>1. Len(s) \in Nat /\ s[b] \in Symbols
    OBVIOUS
  <1>2. CASE s[b] \in Operators /\ t = Lexeme(s[b], b, b, b + 1)
    <2>1. s[b] # "\n" /\ At(s, b) = s[b]
      BY <1>2, Holds DEF Operators
    <2>2. Extent(s, b, t)
      BY <1>1, <1>2, <2>1 DEF Extent, Lexeme, Ends, First1, Last1, Quoted, TokenType, Types, Operators
    <2>3. SubSeq(s, b, b) = <<s[b]>>
      BY OneSymbol
    <2>4. IsLexeme(b, b, s[b])
      BY <1>2, <2>3 DEF IsLexeme
    <2>5. t.type = s[b] /\ t.next - 1 = b /\ s[b] # "ERROR"
      BY <1>2 DEF Lexeme, Operators
    <2> QED
      BY <2>2, <2>4, <2>5
  <1>3. CASE s[b] = "$" /\ t = StringVariable(s, b)
    <2>1. At(s, b) = "$"
      BY <1>3, Holds
    <2>2. CASE At(s, b + 1) = "1"
      <3>1. b \in 1 .. Len(s) - 1 /\ s[b + 1] = "1"
        BY <1>1, <2>2, Holds
      <3>2. t = Lexeme("STRING_VARIABLE", b, b + 1, b + 2)
        BY <1>3, <2>2 DEF StringVariable
      <3>3. Extent(s, b, t)
        BY <1>1, <2>1, <2>2, <3>1, <3>2 DEF Extent, Lexeme, Ends, First1, Last1, Quoted, TokenType, Types
      <3>4. SubSeq(s, b, b + 1) = <<"$", "1">>
        BY <1>3, <3>1, TwoSymbols
      <3>5. IsLexeme(b, b + 1, "STRING_VARIABLE")
        BY <3>4 DEF IsLexeme
      <3>6. t.type = "STRING_VARIABLE" /\ t.next - 1 = b + 1
        BY <3>2 DEF Lexeme
      <3> QED
        BY <3>3, <3>5, <3>6
    <2>3. CASE At(s, b + 1) # "1"
      <3>1. t = Lexeme("ERROR", b, b + 1, b + 2)
        BY <1>3, <2>3 DEF StringVariable, Error
      <3>2. Extent(s, b, t)
        BY <1>1, <2>1, <3>1 DEF Extent, Lexeme, Ends, First1, Last1, Quoted, TokenType
      <3> QED
        BY <1>3, <2>3, <3>1, <3>2 DEF Lexeme
    <2> QED
      BY <2>2, <2>3
  <1>4. CASE s[b] = "!" /\ t = Bang(s, b)
    <2>1. At(s, b) = "!"
      BY <1>4, Holds
    <2>2. CASE At(s, b + 1) = "="
      <3>1. b \in 1 .. Len(s) - 1 /\ s[b + 1] = "="
        BY <1>1, <2>2, Holds
      <3>2. t = Lexeme("!=", b, b + 1, b + 2)
        BY <1>4, <2>2 DEF Bang
      <3>3. Extent(s, b, t)
        BY <1>1, <2>1, <2>2, <3>1, <3>2 DEF Extent, Lexeme, Ends, First1, Last1, Quoted, TokenType, Types
      <3>4. SubSeq(s, b, b + 1) = <<"!", "=">>
        BY <1>4, <3>1, TwoSymbols
      <3>5. IsLexeme(b, b + 1, "!=")
        BY <3>4 DEF IsLexeme
      <3>6. t.type = "!=" /\ t.next - 1 = b + 1
        BY <3>2 DEF Lexeme
      <3> QED
        BY <3>3, <3>5, <3>6
    <2>3. CASE At(s, b + 1) # "="
      <3>1. t = Lexeme("ERROR", b, b, b + 1)
        BY <1>4, <2>3 DEF Bang, Error
      <3>2. Extent(s, b, t)
        BY <1>1, <2>1, <3>1 DEF Extent, Lexeme, Ends, First1, Last1, Quoted, TokenType
      <3> QED
        BY <1>4, <2>3, <3>1, <3>2 DEF Lexeme
    <2> QED
      BY <2>2, <2>3
  <1> QED
    BY <1>2, <1>3, <1>4

LEMMA CharacterParts ==
  ASSUME source \in Seq(Symbols), NEW b \in 1 .. Len(source), source[b] = "'",
         NEW t, t = Character(source, b), t.type # "PAST"
  PROVE  /\ Extent(source, b, t)
         /\ t.type = "CHARACTER" \/ t.type = "ERROR"
         /\ t.type = "CHARACTER" /\ (\A q \in t.from .. t.to : source[q] # "\n") =>
               IsLexeme(b, t.next - 1, t.type)
         /\ t.type = "ERROR" => At(source, b + 2) # "'"
  <1> DEFINE s == source
  <1>1. Len(s) \in Nat /\ At(s, b) = "'"
    BY Holds
  <1>2. b # Len(s)
    BY DEF Character, Past, Lexeme
  <1>3. CASE At(s, b + 2) = "'"
    <2>1. b + 2 \in 1 .. Len(s) /\ s[b + 2] = "'" /\ At(s, b + 1) = s[b + 1]
      BY <1>1, <1>2, <1>3, Holds
    <2>2. t = Lexeme("CHARACTER", b + 1, b + 1, b + 3)
      BY <1>2, <1>3 DEF Character
    <2>3. Extent(s, b, t)
      BY <1>1, <1>3, <2>1, <2>2 DEF Extent, Lexeme, Ends, First1, Last1, Quoted, TokenType, Types
    <2>4. ASSUME s[b + 1] # "\n" PROVE IsLexeme(b, b + 2, "CHARACTER")
      <3> DEFINE w == SubSeq(s, b, b + 2)
      <3>1. Len(w) = 3 /\ w[1] = "'" /\ w[2] = s[b + 1] /\ w[3] = "'"
        BY <1>1, <2>1, Slice
      <3> QED
        BY <2>4, <3>1 DEF IsLexeme
    <2>5. t.type = "CHARACTER" /\ t.next - 1 = b + 2 /\ t.from = b + 1 /\ t.to = b + 1
      BY <2>2 DEF Lexeme
    <2>6. b + 1 \in b + 1 .. b + 1
      OBVIOUS
    <2> QED
      BY <2>3, <2>4, <2>5, <2>6
  <1>4. CASE At(s, b + 2) # "'"
    <2>1. t = Lexeme("ERROR", b + 1, b + 1, b + 2)
      BY <1>2, <1>4 DEF Character, Error
    <2>2. Extent(s, b, t)
      BY <1>1, <1>2, <2>1 DEF Extent, Lexeme, Ends, First1, Last1, Quoted, TokenType
    <2> QED
      BY <1>4, <2>1, <2>2 DEF Lexeme
  <1> QED
    BY <1>3, <1>4

\* A number.
LEMMA DigitsParts ==
  ASSUME source \in Seq(Symbols), NEW b \in 1 .. Len(source), source[b] \in Digits,
         NEW t, t = Number(source, b)
  PROVE  /\ Extent(source, b, t)
         /\ t.type = "NUMBER" /\ IsLexeme(b, t.next - 1, "NUMBER")
  <1> DEFINE s == source
             end == NumberEnd(s, b)
  <1>1. Len(s) \in Nat /\ At(s, b) = s[b]
    BY Holds
  <1>2. /\ end \in b .. Len(s) + 1 /\ At(s, end) \notin Digits
        /\ \A j \in b .. end - 1 : At(s, j) \in Digits
    BY <1>1, NumberParts
  <1>3. end # b
    BY <1>1, <1>2
  <1>4. t = Lexeme("NUMBER", b, end - 1, end)
    BY DEF Number
  <1>5. "\n" \notin Digits
    BY DEF Digits
  <1> HIDE DEF end
  <1>6. Extent(s, b, t)
    BY <1>1, <1>2, <1>3, <1>4, <1>5 DEF Extent, Lexeme, Ends, First1, Last1, Quoted, TokenType, Types
  <1> DEFINE w == SubSeq(s, b, end - 1)
  <1>7. /\ w \in Seq(Symbols) /\ Len(w) = end - b
        /\ \A n \in 1 .. end - b : w[n] = s[b + n - 1]
    BY <1>1, <1>2, <1>3, Slice
  <1>8. \A n \in 1 .. Len(w) : w[n] \in Digits
    <2> SUFFICES ASSUME NEW n \in 1 .. Len(w) PROVE w[n] \in Digits
      OBVIOUS
    <2>1. b + n - 1 \in b .. end - 1 /\ b + n - 1 \in 1 .. Len(s) /\ w[n] = s[b + n - 1]
      BY <1>1, <1>2, <1>7
    <2> QED
      BY <1>2, <2>1, Holds
  <1> HIDE DEF w
  <1>9. w # <<>> /\ ToSet(w) \subseteq Digits
    BY <1>1, <1>2, <1>3, <1>7, <1>8 DEF ToSet
  <1>10. IsLexeme(b, end - 1, "NUMBER")
    BY <1>1, <1>2, <1>9 DEF IsLexeme, w
  <1>11. t.type = "NUMBER" /\ t.next - 1 = end - 1
    BY <1>4 DEF Lexeme
  <1> QED
    BY <1>6, <1>10, <1>11

\* A variable, a label, a keyword or an identifier.
LEMMA LettersParts ==
  ASSUME source \in Seq(Symbols), NEW b \in 1 .. Len(source), ~Skipped(source, b),
         source[b] \in Letters \cup Runs \cup {":", "("},
         NEW t, t = Word(source, b)
  PROVE  /\ Extent(source, b, t)
         /\ t.type # "ERROR" => IsLexeme(b, t.next - 1, t.type)
         /\ t.type = "ERROR" => source[b] \in {":", "("} /\ IsWhite(At(source, b + 1))
  <1> DEFINE s == source
             end == WordEnd(s, b)
  <1>1. Len(s) \in Nat /\ At(s, b) = s[b]
    BY Holds
  <1>2. /\ end \in b .. Len(s) + 1 /\ IsWhite(At(s, end))
        /\ \A j \in b .. end - 1 : ~IsWhite(At(s, j))
    BY <1>1, WordParts
  <1>3. ~IsWhite(s[b])
    BY DEF IsWhite, Letters, Runs, Blanks, Operators
  <1>4. end > b
    BY <1>1, <1>2, <1>3
  <1>5. IsWhite("\n")
    BY DEF IsWhite, Blanks
  <1>6. s[b] # "\n" /\ s[b] \notin Digits \cup {"$"}
    BY DEF Letters, Runs, Digits
  <1>7. t = IF s[b] \notin Runs /\ end = b + 1
            THEN IF s[b] \in Letters THEN Lexeme("NUMERIC_VARIABLE", b, b, b + 1) ELSE Error(b, b + 1)
            ELSE IF s[end - 1] = ":" THEN Lexeme("LABEL", b, end - 2, end)
            ELSE IF end = b + 1 /\ s[b] \in DOMAIN Keyword THEN Lexeme(Keyword[s[b]], b, b, end)
            ELSE Lexeme("IDENTIFIER", b, end - 1, end)
    BY DEF Word
  <1> HIDE DEF end
  <1> DEFINE w == SubSeq(s, b, end - 1)
  <1>8. /\ w \in Seq(Symbols) /\ Len(w) = end - b
        /\ \A n \in 1 .. end - b : w[n] = s[b + n - 1]
    BY <1>1, <1>2, <1>4, Slice
  <1>9. \A n \in 1 .. Len(w) : ~IsWhite(w[n])
    <2> SUFFICES ASSUME NEW n \in 1 .. Len(w) PROVE ~IsWhite(w[n])
      OBVIOUS
    <2>1. b + n - 1 \in b .. end - 1 /\ b + n - 1 \in 1 .. Len(s) /\ w[n] = s[b + n - 1]
      BY <1>1, <1>2, <1>8
    <2> QED
      BY <1>2, <2>1, Holds
  <1>10. w[1] = s[b] /\ w[Len(w)] = s[end - 1] /\ w # <<>> /\ DOMAIN w = 1 .. Len(w)
    BY <1>1, <1>2, <1>4, <1>8
  <1> HIDE DEF w
  <1>11. ASSUME NEW type, \/ Len(w) > 1 /\ w[Len(w)] = ":" /\ type = "LABEL"
                          \/ w[Len(w)] # ":" /\ w # <<"(">> /\ WordHasType(w, type)
         PROVE  IsLexeme(b, end - 1, type)
    <2>1. w # <<>> /\ \A n \in DOMAIN w : ~IsWhite(w[n])
      BY <1>9, <1>10
    <2>2. w[1] \notin Digits \cup {"$"} /\ IsWhite(At(source, (end - 1) + 1))
      BY <1>1, <1>2, <1>6, <1>10
    <2> QED
      BY <1>11, <2>1, <2>2 DEF IsLexeme, w
  <1>12. \A q \in b .. end - 1 : At(s, q) # "\n"
    BY <1>2, <1>5
  <1>13. CASE s[b] \notin Runs /\ end = b + 1
    <2>1. CASE s[b] \in Letters
      <3>1. t = Lexeme("NUMERIC_VARIABLE", b, b, b + 1)
        BY <1>7, <1>13, <2>1
      <3>2. Extent(s, b, t)
        BY <1>1, <1>2, <1>12, <1>13, <3>1 DEF Extent, Lexeme, Ends, First1, Last1, Quoted, TokenType, Types
      <3>3. w[Len(w)] # ":" /\ w # <<"(">> /\ WordHasType(w, "NUMERIC_VARIABLE")
        <4>1. Len(w) = 1 /\ w[1] = s[b]
          BY <1>1, <1>8, <1>10, <1>13
        <4>2. s[b] # ":" /\ s[b] # "("
          BY <2>1 DEF Letters
        <4>3. WordHasType(w, "NUMERIC_VARIABLE")
          BY <2>1, <4>1 DEF WordHasType, Letters, Keyword
        <4> QED
          BY <4>1, <4>2, <4>3
      <3> QED
        BY <1>11, <1>13, <3>1, <3>2, <3>3 DEF Lexeme
    <2>2. CASE s[b] \notin Letters
      <3>1. t = Lexeme("ERROR", b, b, b + 1)
        BY <1>7, <1>13, <2>2 DEF Error
      <3>2. Extent(s, b, t)
        BY <1>1, <1>2, <1>12, <1>13, <3>1 DEF Extent, Lexeme, Ends, First1, Last1, Quoted, TokenType
      <3> QED
        BY <1>2, <1>13, <2>2, <3>1, <3>2 DEF Lexeme
    <2> QED
      BY <2>1, <2>2
  <1>14. CASE ~(s[b] \notin Runs /\ end = b + 1) /\ s[end - 1] = ":"
    <2>1. t = Lexeme("LABEL", b, end - 2, end)
      BY <1>7, <1>14
    <2>2. end # b + 1
      BY <1>14 DEF Runs
    <2>3. Extent(s, b, t)
      <3>1. s[end - 1] # "\n" /\ At(s, end - 1) = s[end - 1]
        BY <1>1, <1>2, <1>4, <1>14, Holds
      <3> QED
        BY <1>1, <1>2, <1>4, <1>12, <2>1, <2>2, <3>1 DEF Extent, Lexeme, Ends, First1, Last1, Quoted, TokenType, Types
    <2> QED
      BY <1>1, <1>2, <1>4, <1>8, <1>10, <1>11, <1>14, <2>1, <2>2, <2>3 DEF Lexeme
  <1>15. CASE /\ ~(s[b] \notin Runs /\ end = b + 1) /\ s[end - 1] # ":"
              /\ end = b + 1 /\ s[b] \in DOMAIN Keyword
    <2>1. t = Lexeme(Keyword[s[b]], b, b, end)
      BY <1>7, <1>15
    <2>2. s[b] # "REM"
      BY <1>1, <1>2, <1>15 DEF Skipped, IsRem
    <2>3. s[b] \in {"INCLUDE", "CLS", "cls"}
      BY <1>15, <2>2 DEF Keyword
    <2>4. Keyword[s[b]] \in {"INCLUDE", "CLS"}
      BY <2>3 DEF Keyword
    <2>5. Extent(s, b, t)
      BY <1>1, <1>2, <1>12, <1>15, <2>1, <2>4 DEF Extent, Lexeme, Ends, First1, Last1, Quoted, TokenType, Types
    <2>6. w[Len(w)] # ":" /\ w # <<"(">> /\ WordHasType(w, Keyword[s[b]])
      <3>1. s[b] \notin Letters /\ s[b] # "("
        BY <2>3 DEF Letters
      <3> QED
        BY <1>8, <1>10, <1>15, <3>1 DEF WordHasType
    <2> QED
      BY <1>11, <1>15, <2>1, <2>4, <2>5, <2>6 DEF Lexeme
  <1>16. CASE /\ ~(s[b] \notin Runs /\ end = b + 1) /\ s[end - 1] # ":"
              /\ ~(end = b + 1 /\ s[b] \in DOMAIN Keyword)
    <2>1. t = Lexeme("IDENTIFIER", b, end - 1, end)
      BY <1>7, <1>16
    <2>2. Extent(s, b, t)
      BY <1>1, <1>2, <1>4, <1>12, <2>1 DEF Extent, Lexeme, Ends, First1, Last1, Quoted, TokenType, Types
    <2>3. Len(w) = 1 => w[1] \in Runs \ DOMAIN Keyword
      <3>1. Len(w) = 1 => end = b + 1
        <4>1. end \in Nat /\ b \in Nat
          BY <1>1, <1>2
        <4>2. end - b = 1 => end = b + 1
          BY <4>1
        <4> QED
          BY <4>2, <1>8
      <3> QED
        BY <3>1, <1>10, <1>16
    <2>4. "(" \notin Runs
      BY DEF Runs
    <2>5. w # <<"(">>
      BY <2>3, <2>4
    <2>6. \A c \in Runs : c \notin Letters
      BY DEF Runs, Letters
    <2>7. WordHasType(w, "IDENTIFIER")
      BY <2>3, <2>6 DEF WordHasType
    <2> QED
      BY <1>10, <1>11, <1>16, <2>1, <2>2, <2>5, <2>7 DEF Lexeme
  <1> QED
    BY <1>13, <1>14, <1>15, <1>16

\* What get_token does not take for a token.
Refused(b) ==
    \/ source[b] = "quote" /\ \E q \in b + 2 .. Len(source) :
          source[q] = "\n" /\ \A k \in b + 1 .. q - 1 : source[k] # "quote"
    \/ source[b] = "'" /\ At(source, b + 2) # "'"
    \/ source[b] = "$" /\ At(source, b + 1) # "1"
    \/ source[b] = "!" /\ At(source, b + 1) # "="
    \/ source[b] \in {":", "("} /\ IsWhite(At(source, b + 1))

\* get_token takes the lexeme at b, or an error where none can be.
LEMMA TokenParts ==
  ASSUME source \in Seq(Symbols), NEW b \in 1 .. Len(source) + 1, ~Skipped(source, b),
         NEW t, t = TokenAt(source, b), t.type # "PAST"
  PROVE  /\ Extent(source, b, t)
         /\ t.type \notin {"ERROR", "EOF"} /\ (\A q \in t.from .. t.to : source[q] # "\n") =>
               IsLexeme(b, t.next - 1, t.type)
         /\ t.type = "ERROR" => Refused(b)
  <1>1. Len(source) \in Nat
    OBVIOUS
  <1>2. CASE b = Len(source) + 1 /\ TokenAt(source, b) = Lexeme("EOF", b, b - 1, b)
    <2>1. At(source, b) = "NUL"
      BY <1>1, <1>2, Holds
    <2>2. Extent(source, b, t)
      BY <1>1, <1>2 DEF Extent, Lexeme, Ends, First1, Last1, Quoted, TokenType
    <2> QED
      BY <1>2, <2>2 DEF Lexeme
  <1>3. CASE ~ (b = Len(source) + 1 /\ TokenAt(source, b) = Lexeme("EOF", b, b - 1, b))
    <2>1. /\ b \in 1 .. Len(source)
          /\ \/ source[b] \in Operators /\ t = Lexeme(source[b], b, b, b + 1)
             \/ source[b] = "quote" /\ t = String(source, b)
             \/ source[b] = "'" /\ t = Character(source, b)
             \/ source[b] = "$" /\ t = StringVariable(source, b)
             \/ source[b] = "!" /\ t = Bang(source, b)
             \/ source[b] \in Digits /\ t = Number(source, b)
             \/ source[b] \in Letters \cup Runs \cup {":", "("} /\ t = Word(source, b)
      BY <1>1, <1>3, TokenCases
    <2>2. CASE \/ source[b] \in Operators /\ t = Lexeme(source[b], b, b, b + 1)
               \/ source[b] = "$" /\ t = StringVariable(source, b)
               \/ source[b] = "!" /\ t = Bang(source, b)
      BY <2>1, <2>2, ShortParts DEF Refused
    <2>3. CASE source[b] = "quote" /\ t = String(source, b)
      BY <2>1, <2>3, StringParts DEF Refused
    <2>4. CASE source[b] = "'" /\ t = Character(source, b)
      BY <2>1, <2>4, CharacterParts DEF Refused
    <2>5. CASE source[b] \in Digits /\ t = Number(source, b)
      BY <2>1, <2>5, DigitsParts
    <2>6. CASE source[b] \in Letters \cup Runs \cup {":", "("} /\ t = Word(source, b)
      BY <2>1, <2>6, LettersParts DEF Refused
    <2> QED
      BY <2>1, <2>2, <2>3, <2>4, <2>5, <2>6
  <1> QED
    BY <1>2, <1>3

\* What lexemes have at their beginning.
LEMMA LexemesBegin ==
  ASSUME source \in Seq(Symbols), NEW i \in 1 .. Len(source), NEW j \in 1 .. Len(source),
         NEW type, IsLexeme(i, j, type)
  PROVE  \/ source[i] \in Operators \cup Digits
         \/ source[i] = "!" /\ At(source, i + 1) = "="
         \/ /\ source[i] = "quote" /\ j > i /\ source[j] = "quote"
            /\ \A k \in i + 1 .. j - 1 : source[k] \notin {"quote", "\n"}
         \/ source[i] = "'" /\ At(source, i + 2) = "'"
         \/ source[i] = "$" /\ At(source, i + 1) = "1"
         \/ /\ ~IsWhite(source[i]) /\ source[i] # "$"
            /\ source[i] \in {":", "("} => ~IsWhite(At(source, i + 1))
  <1> DEFINE s == source
             w == SubSeq(s, i, j)
  <1>1. Len(s) \in Nat /\ i \in Nat /\ j \in Nat
    OBVIOUS
  <1>9. \/ type \in Operators /\ w = <<type>>
        \/ w = <<"!", "=">>
        \/ /\ Len(w) > 1 /\ w[1] = "quote" /\ w[Len(w)] = "quote"
           /\ {w[n] : n \in 2 .. Len(w) - 1} \cap {"quote", "\n"} = {}
        \/ Len(w) = 3 /\ w[1] = "'" /\ w[3] = "'"
        \/ w = <<"$", "1">>
        \/ w # <<>> /\ ToSet(w) \subseteq Digits
        \/ /\ w # <<>> /\ \A n \in DOMAIN w : ~IsWhite(w[n])
           /\ w[1] \notin Digits \cup {"$"}
           /\ \/ Len(w) > 1
              \/ w[Len(w)] # ":" /\ w # <<"(">>
    BY DEF IsLexeme
  <1>2. Len(w) > 0
    <2>1. w \in Seq(Symbols)
      OBVIOUS
    <2> HIDE DEF w
    <2>2. w # <<>>
      <3>1. Len(w) = 0 <=> w = <<>>
        BY <2>1
      <3>2. /\ <<type>> # <<>> /\ <<"!", "=">> # <<>> /\ <<"$", "1">> # <<>>
        OBVIOUS
      <3>3. Len(w) > 1 \/ Len(w) = 3 => w # <<>>
        <4>1. Len(w) \in Nat
          BY <2>1
        <4>2. Len(w) = 0 => ~(Len(w) > 1) /\ Len(w) # 3
          BY <4>1
        <4> QED
          BY <3>1, <4>2
      <3> QED
        BY <1>9, <3>2, <3>3
    <2> QED
      BY <2>1, <2>2
  <1>3. j >= i
    BY <1>2
  <1>4. /\ w \in Seq(Symbols) /\ Len(w) = j - i + 1
        /\ \A n \in 1 .. j - i + 1 : w[n] = s[i + n - 1]
    BY <1>1, <1>3, Slice
  <1>5. w[1] = s[i] /\ w[Len(w)] = s[j]
    BY <1>1, <1>3, <1>4
  <1>6. Len(w) > 1 => w[2] = At(s, i + 1)
    BY <1>1, <1>3, <1>4, Holds
  <1>7. Len(w) > 2 => w[3] = At(s, i + 2)
    BY <1>1, <1>3, <1>4, Holds
  <1>8. Len(w) \in Nat /\ DOMAIN w = 1 .. Len(w)
    BY <1>4
  <1> HIDE DEF w
  <1>10. CASE type \in Operators /\ w = <<type>>
    BY <1>5, <1>10
  <1>11. CASE w = <<"!", "=">>
    BY <1>5, <1>6, <1>11
  <1>12. CASE /\ Len(w) > 1 /\ w[1] = "quote" /\ w[Len(w)] = "quote"
              /\ {w[n] : n \in 2 .. Len(w) - 1} \cap {"quote", "\n"} = {}
    <2>1. j > i /\ s[i] = "quote" /\ s[j] = "quote"
      BY <1>1, <1>4, <1>5, <1>12
    <2>2. ASSUME NEW k \in i + 1 .. j - 1 PROVE s[k] \notin {"quote", "\n"}
      <3> DEFINE n == k - i + 1
      <3>1. n \in 2 .. Len(w) - 1 /\ n \in 1 .. j - i + 1 /\ i + n - 1 = k
        BY <1>1, <1>4, <2>1
      <3>2. w[n] = s[k]
        BY <1>4, <3>1
      <3> HIDE DEF n
      <3> QED
        BY <1>12, <3>1, <3>2
    <2> QED
      BY <2>1, <2>2
  <1>13. CASE Len(w) = 3 /\ w[1] = "'" /\ w[3] = "'"
    BY <1>5, <1>7, <1>13
  <1>14. CASE w = <<"$", "1">>
    BY <1>5, <1>6, <1>14
  <1>15. CASE w # <<>> /\ ToSet(w) \subseteq Digits
    <2>1. w[1] \in ToSet(w)
      BY <1>2, <1>8 DEF ToSet
    <2> QED
      BY <1>5, <1>15, <2>1
  <1>16. CASE /\ \A n \in DOMAIN w : ~IsWhite(w[n])
              /\ w[1] \notin Digits \cup {"$"}
              /\ \/ Len(w) > 1
                 \/ w[Len(w)] # ":" /\ w # <<"(">>
    <2>1. ~IsWhite(s[i]) /\ s[i] # "$"
      BY <1>2, <1>5, <1>8, <1>16
    <2>2. Len(w) > 1 => ~IsWhite(At(s, i + 1))
      BY <1>6, <1>8, <1>16
    <2>3. Len(w) = 1 => s[i] # ":" /\ s[i] # "("
      <3> DEFINE one == <<w[1]>>
      <3>1. ASSUME Len(w) = 1 PROVE w = one
        <4>1. one \in Seq(Symbols) /\ Len(one) = 1 /\ one[1] = w[1]
          BY <1>5
        <4> HIDE DEF one
        <4> QED
          BY <1>4, <3>1, <4>1, SameSequence
      <3> QED
        BY <1>5, <1>16, <3>1
    <2> QED
      BY <1>2, <1>8, <2>1, <2>2, <2>3
  <1> QED
    BY <1>9, <1>10, <1>11, <1>12, <1>13, <1>14, <1>15, <1>16

\* Where get_token refuses, no lexeme is.
LEMMA RefusedIsNone ==
  ASSUME source \in Seq(Symbols), NEW b \in 1 .. Len(source), NEW j \in 1 .. Len(source),
         NEW type, Refused(b)
  PROVE  ~IsLexeme(b, j, type)
  <1> SUFFICES ASSUME IsLexeme(b, j, type) PROVE FALSE
    OBVIOUS
  <1>1. IsWhite("quote") /\ IsWhite("'") /\ IsWhite("!")
    BY DEF IsWhite
  <1>2. source[b] \in {"quote", "'", "$", "!", ":", "("}
    BY DEF Refused
  <1>3. source[b] \notin Operators \cup Digits
    BY <1>2 DEF Operators, Digits
  <1>4. CASE source[b] = "quote"
    <2>1. PICK q \in b + 2 .. Len(source) :
              source[q] = "\n" /\ \A k \in b + 1 .. q - 1 : source[k] # "quote"
      BY <1>4 DEF Refused
    <2>2. /\ j > b /\ source[j] = "quote"
          /\ \A k \in b + 1 .. j - 1 : source[k] \notin {"quote", "\n"}
      BY <1>1, <1>3, <1>4, LexemesBegin
    <2>3. q # j
      BY <2>1, <2>2
    <2>4. q < j => q \in b + 1 .. j - 1
      OBVIOUS
    <2>5. j < q => j \in b + 1 .. q - 1
      BY <2>2
    <2> QED
      BY <2>1, <2>2, <2>3, <2>4, <2>5
  <1>5. CASE source[b] # "quote"
    BY <1>1, <1>2, <1>3, <1>5, LexemesBegin DEF Refused
  <1> QED
    BY <1>4, <1>5

-----------------------------------------------------------------------------
(* Tokens in a row.                                                        *)

LEMMA NewlinesAdd ==
  ASSUME NEW s, NEW a \in Nat, NEW b \in Nat, NEW c \in Nat, a <= b, b <= c + 1
  PROVE  /\ Newlines(s, a, c) = Newlines(s, a, b - 1) + Newlines(s, b, c)
         /\ Newlines(s, a, c) \in Nat /\ Newlines(s, b, c) \in Nat
         /\ (\A q \in b .. c : At(s, q) # "\n") => Newlines(s, b, c) = 0
  <1> DEFINE In(i, j) == {n \in i .. j : At(s, n) = "\n"}
  <1>1. \A i, j \in Int : IsFiniteSet(In(i, j))
    <2> SUFFICES ASSUME NEW i \in Int, NEW j \in Int PROVE IsFiniteSet(In(i, j))
      OBVIOUS
    <2>1. IsFiniteSet(i .. j)
      BY FS_Interval
    <2>2. In(i, j) \in SUBSET (i .. j)
      OBVIOUS
    <2> HIDE DEF In
    <2> QED
      BY <2>1, <2>2, FS_Subset
  <1>2. In(a, b - 1) \cup In(b, c) = In(a, c) /\ In(a, b - 1) \cap In(b, c) = {}
    OBVIOUS
  <1>3. (\A q \in b .. c : At(s, q) # "\n") => In(b, c) = {}
    OBVIOUS
  <1>4. \A i, j : Newlines(s, i, j) = Cardinality(In(i, j))
    BY DEF Newlines
  <1> HIDE DEF In
  <1>5. /\ IsFiniteSet(In(a, b - 1)) /\ IsFiniteSet(In(b, c)) /\ IsFiniteSet(In(a, c))
    BY <1>1
  <1>6. /\ Cardinality(In(a, b - 1)) \in Nat /\ Cardinality(In(b, c)) \in Nat
        /\ Cardinality(In(a, c)) \in Nat
    BY <1>5, FS_CardinalityType
  <1>7. Cardinality(In(a, c)) = Cardinality(In(a, b - 1)) + Cardinality(In(b, c))
    <2>1. Cardinality(In(a, b - 1) \cup In(b, c)) =
             Cardinality(In(a, b - 1)) + Cardinality(In(b, c)) - Cardinality(In(a, b - 1) \cap In(b, c))
      BY <1>5, FS_Union
    <2>2. Cardinality(In(a, b - 1) \cap In(b, c)) = 0
      BY <1>2, FS_EmptySet
    <2>3. Cardinality(In(a, c)) = Cardinality(In(a, b - 1)) + Cardinality(In(b, c)) - 0
      BY <1>2, <2>1, <2>2
    <2> QED
      BY <1>6, <2>3
  <1> QED
    BY <1>3, <1>4, <1>6, <1>7, FS_EmptySet

Token == [type : TokenType, from : Nat, to : Nat, next : Nat, line : Nat]

LEMMA WithLine ==
  ASSUME NEW type, NEW from, NEW to, NEW next, NEW l, NEW k,
         NEW u, u = [type |-> type, from |-> from, to |-> to, next |-> next, line |-> l]
  PROVE  [u EXCEPT !.line = k] = [type |-> type, from |-> from, to |-> to, next |-> next, line |-> k]
  OBVIOUS

\* A call of get_token from p on: what the scan leaves off at, and the token there.
LEMMA Got ==
  ASSUME source \in Seq(Symbols), NEW p \in 1 .. Len(source) + 2, NEW l \in Nat,
         NEW t, t = GetToken(source, p, l), t.type # "PAST"
  PROVE  /\ p <= Len(source) + 1
         /\ Begin(source, p) \in p .. Len(source) + 1
         /\ BeginsAt(source, p, Begin(source, p))
         /\ Extent(source, Begin(source, p), [t EXCEPT !.line = 0])
         /\ t \in Token
         /\ t.line = l + Newlines(source, p, Begin(source, p) - 1)
         /\ t.type \notin {"ERROR", "EOF"} /\ (\A q \in t.from .. t.to : source[q] # "\n") =>
               IsLexeme(Begin(source, p), t.next - 1, t.type)
         /\ t.type = "ERROR" => Refused(Begin(source, p))
  <1> DEFINE b == Begin(source, p)
             u == TokenAt(source, b)
  <1>1. Len(source) \in Nat
    OBVIOUS
  <1>2. Past.type = "PAST" /\ \A n : [Past EXCEPT !.line = n].type = "PAST"
    BY DEF Past, Lexeme
  <1>3. p <= Len(source) + 1
    <2> SUFFICES ASSUME p > Len(source) + 1 PROVE FALSE
      BY <1>1
    <2>1. t = [Past EXCEPT !.line = l + Newlines(source, p, p - 1)]
      BY <1>1 DEF GetToken
    <2> QED
      BY <1>2, <2>1
  <1>4. BeginsAt(source, p, b)
    BY ScanIs
  <1>5. b \in p .. Len(source) + 2
    BY <1>4 DEF BeginsAt
  <1>6. t = [(IF b > Len(source) + 1 THEN Past ELSE u) EXCEPT !.line = l + Newlines(source, p, b - 1)]
    BY <1>1, <1>3 DEF GetToken
  <1>7. b <= Len(source) + 1 /\ t = [u EXCEPT !.line = l + Newlines(source, p, b - 1)]
    <2> HIDE DEF b, u
    <2> QED
      BY <1>1, <1>2, <1>5, <1>6
  <1>8. ~Skipped(source, b) /\ b \in 1 .. Len(source) + 1
    BY <1>1, <1>4, <1>5, <1>7 DEF BeginsAt
  <1>9. u.type # "PAST"
    <2>1. TokenAt(source, b) = Past \/ \E type, from, to, next : TokenAt(source, b) = Lexeme(type, from, to, next)
      <3> HIDE DEF b, u
      <3>1. \/ b = Len(source) + 1 /\ TokenAt(source, b) = Lexeme("EOF", b, b - 1, b)
            \/ TokenAt(source, b) = Lexeme(source[b], b, b, b + 1)
            \/ TokenAt(source, b) = String(source, b)
            \/ TokenAt(source, b) = Character(source, b)
            \/ TokenAt(source, b) = StringVariable(source, b)
            \/ TokenAt(source, b) = Bang(source, b)
            \/ TokenAt(source, b) = Number(source, b)
            \/ TokenAt(source, b) = Word(source, b)
        BY <1>8, TokenCases
      <3> QED
        BY <3>1 DEF String, Closed, Character, StringVariable, Bang, Number, Word, Error
    <2> HIDE DEF b
    <2> QED
      BY <1>7, <2>1 DEF Past, Lexeme
  <1>10. /\ Extent(source, b, u)
         /\ u.type \notin {"ERROR", "EOF"} /\ (\A q \in u.from .. u.to : source[q] # "\n") =>
               IsLexeme(b, u.next - 1, u.type)
         /\ u.type = "ERROR" => Refused(b)
    BY <1>8, <1>9, TokenParts
  <1>11. Newlines(source, p, b - 1) \in Nat
    <2>1. p \in Nat /\ b - 1 \in Nat /\ p <= p /\ p <= (b - 1) + 1
      BY <1>1, <1>5
    <2> HIDE DEF b
    <2> QED
      BY <2>1, NewlinesAdd
  <1> HIDE DEF b, u
  <1>12. u = [type |-> u.type, from |-> u.from, to |-> u.to, next |-> u.next, line |-> 0]
    BY <1>10 DEF Extent, Lexeme
  <1>13. /\ t = [type |-> u.type, from |-> u.from, to |-> u.to, next |-> u.next,
                 line |-> l + Newlines(source, p, b - 1)]
         /\ [t EXCEPT !.line = 0] = u
    <2>1. [u EXCEPT !.line = l + Newlines(source, p, b - 1)] =
             [type |-> u.type, from |-> u.from, to |-> u.to, next |-> u.next,
              line |-> l + Newlines(source, p, b - 1)]
      BY <1>12, WithLine
    <2>2. t = [type |-> u.type, from |-> u.from, to |-> u.to, next |-> u.next,
               line |-> l + Newlines(source, p, b - 1)]
      BY <1>7, <2>1
    <2>3. [t EXCEPT !.line = 0] = [type |-> u.type, from |-> u.from, to |-> u.to, next |-> u.next, line |-> 0]
      BY <2>2, WithLine
    <2> QED
      BY <1>12, <2>2, <2>3
  <1>14. t \in Token
    BY <1>1, <1>5, <1>10, <1>11, <1>13 DEF Extent, Token
  <1>15. /\ t.type = u.type /\ t.from = u.from /\ t.to = u.to /\ t.next = u.next
         /\ t.line = l + Newlines(source, p, b - 1)
    BY <1>13
  <1> QED
    BY <1>3, <1>4, <1>5, <1>7, <1>10, <1>13, <1>14, <1>15 DEF b

\* Where get_token was called for the n-th token of q, and at which line.
PositionIn(q, n)    == IF n = 1 THEN 1 ELSE q[n - 1].next
LineIn(q, n)        == IF n = 1 THEN 1 ELSE q[n - 1].line
NewlineWithin(s, t) == \E i \in t.from .. t.to : At(s, i) = "\n"

\* The tokens of q are what calls of get_token one after the other return, the
\* lexer is behind the last of them, no error among them is unknown, and as long
\* as no new line is within one of them the line is that of the position.
InOrder(s, q, position, l, err) ==
    /\ q \in Seq(Token)
    /\ \A n \in DOMAIN q : /\ q[n] = GetToken(s, PositionIn(q, n), LineIn(q, n))
                           /\ q[n].type # "PAST"
                           /\ q[n].type = "ERROR" => err
    /\ \A n \in 1 .. Len(q) + 1 : PositionIn(q, n) \in 1 .. Len(s) + 2 /\ LineIn(q, n) \in Nat
    /\ position = PositionIn(q, Len(q) + 1) /\ l = LineIn(q, Len(q) + 1)
    /\ (\A n \in DOMAIN q : ~NewlineWithin(s, q[n])) =>
          \A n \in 1 .. Len(q) + 1 : LineIn(q, n) = 1 + Newlines(s, 1, PositionIn(q, n) - 1)

LEMMA NoneYet ==
  ASSUME NEW s \in Seq(Symbols), NEW err
  PROVE  InOrder(s, <<>>, 1, 1, err)
  <1>1. Newlines(s, 1, 0) = 0
    <2>1. {n \in 1 .. 0 : At(s, n) = "\n"} = {}
      OBVIOUS
    <2> QED
      BY <2>1, FS_EmptySet DEF Newlines
  <1>2. Len(s) \in Nat
    OBVIOUS
  <1> QED
    BY <1>1, <1>2 DEF InOrder, PositionIn, LineIn

\* A further call.
LEMMA OneMore ==
  ASSUME source \in Seq(Symbols), NEW q, NEW p, NEW l, NEW err, InOrder(source, q, p, l, err),
         NEW t, t = GetToken(source, p, l), t.type # "PAST"
  PROVE  InOrder(source, Append(q, t), t.next, t.line, err \/ t.type = "ERROR")
  <1> DEFINE b == Begin(source, p)
             more == Append(q, t)
             e == err \/ t.type = "ERROR"
  <1>1. q \in Seq(Token) /\ Len(source) \in Nat /\ Len(q) \in Nat /\ Len(q) + 1 \in 1 .. Len(q) + 1
    BY DEF InOrder
  <1>2. p \in 1 .. Len(source) + 2 /\ l \in Nat /\ p = PositionIn(q, Len(q) + 1) /\ l = LineIn(q, Len(q) + 1)
    BY <1>1 DEF InOrder
  <1>3. /\ b \in p .. Len(source) + 1
        /\ Extent(source, b, [t EXCEPT !.line = 0])
        /\ t \in Token
        /\ t.line = l + Newlines(source, p, b - 1)
    BY <1>2, Got
  <1>4. /\ t.next \in b .. Len(source) + 2
        /\ \A k \in b .. t.next - 1 : At(source, k) = "\n" => k \in t.from .. t.to
    <2>1. [t EXCEPT !.line = 0].next = t.next /\ [t EXCEPT !.line = 0].from = t.from
            /\ [t EXCEPT !.line = 0].to = t.to
      BY <1>3 DEF Token
    <2> HIDE DEF b
    <2> QED
      BY <1>3, <2>1 DEF Extent
  <1> HIDE DEF b
  <1>5. /\ more \in Seq(Token) /\ Len(more) = Len(q) + 1 /\ DOMAIN more = 1 .. Len(q) + 1
        /\ more[Len(q) + 1] = t
        /\ \A n \in 1 .. Len(q) : more[n] = q[n]
    BY <1>1, <1>3
  <1> HIDE DEF more
  <1>6. \A n \in 1 .. Len(q) + 1 : PositionIn(more, n) = PositionIn(q, n) /\ LineIn(more, n) = LineIn(q, n)
    <2> SUFFICES ASSUME NEW n \in 1 .. Len(q) + 1
                 PROVE  PositionIn(more, n) = PositionIn(q, n) /\ LineIn(more, n) = LineIn(q, n)
      OBVIOUS
    <2>1. CASE n = 1
      BY <2>1 DEF PositionIn, LineIn
    <2>2. CASE n # 1
      <3>1. n - 1 \in 1 .. Len(q)
        BY <1>1, <2>2
      <3> QED
        BY <1>5, <2>2, <3>1 DEF PositionIn, LineIn
    <2> QED
      BY <2>1, <2>2
  <1>7. PositionIn(more, Len(more) + 1) = t.next /\ LineIn(more, Len(more) + 1) = t.line
    <2>1. Len(more) + 1 # 1 /\ (Len(more) + 1) - 1 = Len(q) + 1
      BY <1>1, <1>5
    <2> QED
      BY <1>5, <2>1 DEF PositionIn, LineIn
  <1>8. \A n \in 1 .. Len(more) + 1 : n \in 1 .. Len(q) + 1 \/ n = Len(more) + 1
    BY <1>1, <1>5
  <1>9. \A n \in DOMAIN q : n \in 1 .. Len(q) + 1 /\ n \in 1 .. Len(q)
    BY <1>1
  <1>10. \A n \in DOMAIN more : n \in DOMAIN q \/ n = Len(q) + 1
    BY <1>1, <1>5
  <1>11. \A n \in DOMAIN more : /\ more[n] = GetToken(source, PositionIn(more, n), LineIn(more, n))
                                /\ more[n].type # "PAST"
                                /\ more[n].type = "ERROR" => e
    <2> SUFFICES ASSUME NEW n \in DOMAIN more
                 PROVE  /\ more[n] = GetToken(source, PositionIn(more, n), LineIn(more, n))
                        /\ more[n].type # "PAST"
                        /\ more[n].type = "ERROR" => e
      OBVIOUS
    <2>1. CASE n = Len(q) + 1
      BY <1>1, <1>2, <1>5, <1>6, <2>1
    <2>2. CASE n \in DOMAIN q
      <3>1. more[n] = q[n] /\ PositionIn(more, n) = PositionIn(q, n) /\ LineIn(more, n) = LineIn(q, n)
        BY <1>5, <1>6, <1>9, <2>2
      <3> QED
        BY <2>2, <3>1 DEF InOrder
    <2> QED
      BY <1>10, <2>1, <2>2
  <1>12. t.next \in 1 .. Len(source) + 2 /\ t.line \in Nat
    BY <1>1, <1>2, <1>3, <1>4 DEF Token
  <1>13. \A n \in 1 .. Len(more) + 1 : PositionIn(more, n) \in 1 .. Len(source) + 2 /\ LineIn(more, n) \in Nat
    <2>1. \A n \in 1 .. Len(q) + 1 : PositionIn(q, n) \in 1 .. Len(source) + 2 /\ LineIn(q, n) \in Nat
      BY DEF InOrder
    <2> QED
      BY <1>6, <1>7, <1>8, <1>12, <2>1
  <1>14. ASSUME \A n \in DOMAIN more : ~NewlineWithin(source, more[n])
         PROVE  \A n \in 1 .. Len(more) + 1 :
                    LineIn(more, n) = 1 + Newlines(source, 1, PositionIn(more, n) - 1)
    <2>1. \A n \in DOMAIN q : ~NewlineWithin(source, q[n])
      BY <1>1, <1>5, <1>9, <1>14
    <2>2. \A n \in 1 .. Len(q) + 1 : LineIn(q, n) = 1 + Newlines(source, 1, PositionIn(q, n) - 1)
      BY <2>1 DEF InOrder
    <2>3. l = 1 + Newlines(source, 1, p - 1)
      BY <1>1, <1>2, <2>2
    <2>4. ~NewlineWithin(source, t)
      BY <1>1, <1>5, <1>14
    <2>5. \A k \in b .. t.next - 1 : At(source, k) # "\n"
      BY <1>4, <2>4 DEF NewlineWithin
    <2>6. Newlines(source, 1, t.next - 1) = Newlines(source, 1, p - 1) + Newlines(source, p, b - 1)
      <3>1. b \in Nat /\ p \in Nat /\ t.next \in Nat /\ 1 <= p /\ p <= b /\ b <= t.next
        BY <1>1, <1>2, <1>3, <1>4
      <3>2. /\ Newlines(source, 1, t.next - 1) = Newlines(source, 1, b - 1) + Newlines(source, b, t.next - 1)
            /\ Newlines(source, b, t.next - 1) = 0
        <4>1. 1 \in Nat /\ t.next - 1 \in Nat /\ 1 <= b /\ b <= (t.next - 1) + 1
          BY <3>1
        <4> QED
          BY <2>5, <3>1, <4>1, NewlinesAdd
      <3>3. /\ Newlines(source, 1, b - 1) = Newlines(source, 1, p - 1) + Newlines(source, p, b - 1)
            /\ Newlines(source, 1, b - 1) \in Nat
        <4>1. 1 \in Nat /\ b - 1 \in Nat /\ 1 <= p /\ p <= (b - 1) + 1
          BY <3>1
        <4> QED
          BY <3>1, <4>1, NewlinesAdd
      <3> QED
        BY <3>2, <3>3
    <2>7. Newlines(source, 1, p - 1) \in Nat /\ Newlines(source, p, b - 1) \in Nat
      <3>1. b \in Nat /\ p \in Nat /\ 1 <= p /\ p <= b /\ 1 \in Nat /\ b - 1 \in Nat /\ p - 1 \in Nat
              /\ p <= (b - 1) + 1 /\ 1 <= 1 /\ 1 <= (p - 1) + 1
        BY <1>1, <1>2, <1>3
      <3>2. Newlines(source, p, b - 1) \in Nat
        BY <3>1, NewlinesAdd
      <3>3. Newlines(source, 1, p - 1) \in Nat
        BY <3>1, NewlinesAdd
      <3> QED
        BY <3>2, <3>3
    <2>8. t.line = 1 + Newlines(source, 1, t.next - 1)
      <3>1. t.line = (1 + Newlines(source, 1, p - 1)) + Newlines(source, p, b - 1)
        BY <1>3, <2>3
      <3> QED
        BY <2>6, <2>7, <3>1
    <2> QED
      BY <1>6, <1>7, <1>8, <2>2, <2>8
  <1> QED
    BY <1>5, <1>7, <1>11, <1>13, <1>14 DEF InOrder, more

\* What the lexer's state is in either pass: in the first one nothing has been
\* given to the parser; the second one is over the source, and the tokens seen
\* are those of calls of get_token one after the other.
PassesInv ==
    /\ source \in Seq(Symbols)
    /\ phase = "first"  => given = <<>> /\ wait = FALSE
    /\ phase = "second" => text = source /\ InOrder(source, Seen, current, line, hadError)

LEMMA PassesHolds == Spec => []PassesInv
  <1>1. Init => PassesInv
    BY TextsAssumption DEF Init, PassesInv
  <1>2. PassesInv /\ [Next]_vars => PassesInv'
    <2> SUFFICES ASSUME PassesInv, [Next]_vars PROVE PassesInv'
      OBVIOUS
    <2>1. CASE FirstPass
      <3>1. phase = "first" /\ given' = given /\ wait' = wait
        BY <2>1 DEF FirstPass, Pass, PassInclude, Include, Lost
      <3>2. CASE Pass
        BY <3>1, <3>2 DEF Pass, PassesInv
      <3>3. CASE PassInclude
        <4>1. PICK t : \E name :
                 \/ Lost("past", hadError)
                 \/ Go(name) /\ UNCHANGED <<main, source, text, stale, wait, pending, given, phase>>
                 \/ Lost("crashed", TRUE)
                 \/ SubSeq(text, name.from, name.to) \in DOMAIN Files /\ Include(name)
          BY <3>3 DEF PassInclude
        <4>2. PICK name :
                 \/ Lost("past", hadError)
                 \/ Go(name) /\ UNCHANGED <<main, source, text, stale, wait, pending, given, phase>>
                 \/ Lost("crashed", TRUE)
                 \/ SubSeq(text, name.from, name.to) \in DOMAIN Files /\ Include(name)
          BY <4>1
        <4>3. phase' # "second" /\ (phase' = "first" => phase = "first")
          BY <3>1, <4>2 DEF Lost, Include
        <4>4. source' \in Seq(Symbols)
          <5>1. CASE source' = source
            BY <5>1 DEF PassesInv
          <5>2. CASE SubSeq(text, name.from, name.to) \in DOMAIN Files /\ Include(name)
            <6>1. Files[SubSeq(text, name.from, name.to)] \in Seq(Symbols)
              BY <5>2, TextsAssumption
            <6>2. source' = source \o <<"\n">> \o Files[SubSeq(text, name.from, name.to)]
              BY <5>2 DEF Include, Included
            <6>3. <<"\n">> \in Seq(Symbols) /\ source \in Seq(Symbols)
              BY DEF Symbols, Blanks, PassesInv
            <6> QED
              BY <6>1, <6>2, <6>3
          <5> QED
            BY <4>2, <5>1, <5>2 DEF Lost
        <4> QED
          BY <3>1, <4>3, <4>4 DEF PassesInv
      <3> QED
        BY <2>1, <3>2, <3>3 DEF FirstPass
    <2>2. CASE Reset
      <3>1. /\ phase = "first" /\ phase' = "second" /\ source' = source /\ text' = source /\ given' = given
            /\ wait' = FALSE /\ current' = 1 /\ line' = 1
        BY <2>2 DEF Reset, WaitsAfterReset
      <3>2. Seen' = <<>>
        BY <3>1 DEF Seen, PassesInv
      <3>3. InOrder(source, <<>>, 1, 1, hadError')
        BY NoneYet DEF PassesInv
      <3> QED
        BY <3>1, <3>2, <3>3 DEF PassesInv
    <2>3. CASE ReadPast
      BY <2>3 DEF ReadPast, Lost, PassesInv
    <2>4. ASSUME NEW t, t = GetToken(text, current, line), Ready(t), Go(t),
                 Seen' = Append(Seen, t), UNCHANGED <<source, text, phase>>
          PROVE  PassesInv'
      <3>1. /\ phase = "second" /\ t.type # "PAST" /\ text = source
            /\ InOrder(source, Seen, current, line, hadError)
        BY <2>4 DEF Ready, PassesInv
      <3>2. InOrder(source, Append(Seen, t), t.next, t.line, hadError \/ t.type = "ERROR")
        BY <2>4, <3>1, OneMore DEF PassesInv
      <3>3. current' = t.next /\ line' = t.line /\ hadError' = (hadError \/ t.type = "ERROR")
        BY <2>4 DEF Go, Behind
      <3> QED
        BY <2>4, <3>1, <3>2, <3>3 DEF PassesInv
    <2>5. CASE Lookahead
      <3>1. PICK t : t = GetToken(text, current, line) /\ Ready(t) /\ Go(t) /\ pending' = t
        BY <2>5 DEF Lookahead
      <3>2. ~wait /\ wait' = TRUE /\ UNCHANGED <<source, text, given, phase>>
        BY <2>5 DEF Lookahead
      <3>3. Seen' = Append(Seen, t)
        BY <3>1, <3>2 DEF Seen
      <3> QED
        BY <2>4, <3>1, <3>2, <3>3
    <2>6. CASE TakePending
      <3>1. /\ wait /\ phase = "second" /\ given' = Append(given, pending) /\ wait' = FALSE
            /\ UNCHANGED <<source, text, current, line, hadError, phase>>
        BY <2>6 DEF TakePending, Ready
      <3>2. Seen' = Seen
        BY <3>1 DEF Seen
      <3> QED
        BY <3>1, <3>2 DEF PassesInv
    <2>7. CASE TakeNext
      <3>1. PICK t : t = GetToken(text, current, line) /\ Ready(t) /\ Go(t) /\ given' = Append(given, t)
        BY <2>7 DEF TakeNext
      <3>2. ~wait /\ UNCHANGED <<source, text, wait, phase>>
        BY <2>7 DEF TakeNext
      <3>3. Seen' = Append(Seen, t)
        BY <3>1, <3>2 DEF Seen
      <3> QED
        BY <2>4, <3>1, <3>2, <3>3
    <2>8. CASE UNCHANGED vars
      BY <2>8 DEF vars, PassesInv, Seen
    <2> QED
      BY <2>1, <2>2, <2>3, <2>5, <2>6, <2>7, <2>8 DEF Next
  <1> QED
    BY <1>1, <1>2, PTL DEF Spec

\* What is known of the n-th token seen.
LEMMA SeenParts ==
  ASSUME PassesInv, phase = "second", NEW n \in DOMAIN Seen
  PROVE  /\ From(n) = PositionIn(Seen, n) /\ From(n) \in 1 .. Len(source) + 1
         /\ BeginsAt(source, From(n), Begin(source, From(n)))
         /\ Begin(source, From(n)) \in From(n) .. Len(source) + 1
         /\ Extent(source, Begin(source, From(n)), [Seen[n] EXCEPT !.line = 0])
         /\ Seen[n] \in Token
         /\ Seen[n].line = LineIn(Seen, n) + Newlines(source, From(n), Begin(source, From(n)) - 1)
         /\ Seen[n].type \notin {"ERROR", "EOF"} /\ (\A q \in Seen[n].from .. Seen[n].to : source[q] # "\n") =>
               IsLexeme(Begin(source, From(n)), Seen[n].next - 1, Seen[n].type)
         /\ Seen[n].type = "ERROR" => Refused(Begin(source, From(n))) /\ hadError
  <1>1. InOrder(source, Seen, current, line, hadError) /\ source \in Seq(Symbols)
    BY DEF PassesInv
  <1>2. Seen \in Seq(Token) /\ Len(Seen) \in Nat /\ DOMAIN Seen = 1 .. Len(Seen)
    BY <1>1 DEF InOrder
  <1>3. \A k \in DOMAIN Seen :
          /\ Seen[k] = GetToken(source, PositionIn(Seen, k), LineIn(Seen, k)) /\ Seen[k].type # "PAST"
          /\ Seen[k].type = "ERROR" => hadError
          /\ PositionIn(Seen, k) \in 1 .. Len(source) + 2 /\ LineIn(Seen, k) \in Nat
    <2>1. \A k \in DOMAIN Seen : k \in 1 .. Len(Seen) + 1
      BY <1>2
    <2> QED
      BY <1>1, <2>1 DEF InOrder
  <1>4. ASSUME NEW k \in DOMAIN Seen
        PROVE  /\ Seen[k] \in Token
               /\ Extent(source, Begin(source, PositionIn(Seen, k)), [Seen[k] EXCEPT !.line = 0])
               /\ Ends(Seen[k]) + 1 = Seen[k].next
    <2> DEFINE u == [Seen[k] EXCEPT !.line = 0]
    <2>1. Seen[k] \in Token /\ Extent(source, Begin(source, PositionIn(Seen, k)), u)
      BY <1>1, <1>3, Got
    <2>2. u.type = Seen[k].type /\ u.from = Seen[k].from /\ u.to = Seen[k].to /\ u.next = Seen[k].next
      BY <2>1 DEF Token
    <2>3. Ends(u) + 1 = u.next
      BY <2>1 DEF Extent
    <2> HIDE DEF u
    <2>4. Ends(u) = Ends(Seen[k])
      BY <2>2 DEF Ends, Last1, Quoted
    <2> QED
      BY <2>1, <2>2, <2>3, <2>4 DEF u
  <1>5. From(n) = PositionIn(Seen, n)
    <2>1. CASE n = 1
      BY <2>1 DEF From, PositionIn
    <2>2. CASE n # 1
      <3>1. n - 1 \in DOMAIN Seen
        BY <1>2, <2>2
      <3> QED
        BY <1>4, <2>2, <3>1 DEF From, PositionIn
    <2> QED
      BY <2>1, <2>2
  <1>6. /\ From(n) <= Len(source) + 1
        /\ Begin(source, From(n)) \in From(n) .. Len(source) + 1
        /\ BeginsAt(source, From(n), Begin(source, From(n)))
        /\ Seen[n].line = LineIn(Seen, n) + Newlines(source, From(n), Begin(source, From(n)) - 1)
        /\ Seen[n].type \notin {"ERROR", "EOF"} /\ (\A q \in Seen[n].from .. Seen[n].to : source[q] # "\n") =>
              IsLexeme(Begin(source, From(n)), Seen[n].next - 1, Seen[n].type)
        /\ Seen[n].type = "ERROR" => Refused(Begin(source, From(n)))
    <2> DEFINE p == PositionIn(Seen, n)
    <2>1. /\ p \in 1 .. Len(source) + 2 /\ LineIn(Seen, n) \in Nat
          /\ Seen[n] = GetToken(source, p, LineIn(Seen, n)) /\ Seen[n].type # "PAST"
      BY <1>3
    <2> HIDE DEF p
    <2>2. /\ p <= Len(source) + 1
          /\ Begin(source, p) \in p .. Len(source) + 1
          /\ BeginsAt(source, p, Begin(source, p))
          /\ Seen[n].line = LineIn(Seen, n) + Newlines(source, p, Begin(source, p) - 1)
          /\ Seen[n].type \notin {"ERROR", "EOF"} /\ (\A q \in Seen[n].from .. Seen[n].to : source[q] # "\n") =>
                IsLexeme(Begin(source, p), Seen[n].next - 1, Seen[n].type)
          /\ Seen[n].type = "ERROR" => Refused(Begin(source, p))
      BY <1>1, <2>1, Got
    <2> QED
      BY <1>5, <2>2 DEF p
  <1>7. From(n) \in 1 .. Len(source) + 1
    BY <1>1, <1>3, <1>5, <1>6
  <1> QED
    BY <1>3, <1>4, <1>5, <1>6, <1>7

LEMMA OrderIsLexemes ==
  ASSUME PassesInv
  PROVE  TokensAreTheLexemes
  <1> SUFFICES ASSUME phase = "second", ~NewlineTaken, NEW n \in DOMAIN Seen, Seen[n].type # "ERROR"
               PROVE  /\ From(n) <= First1(Seen[n]) /\ Gap(From(n), First1(Seen[n]) - 1)
                      /\ IF Seen[n].type = "EOF" THEN Seen[n].from = Len(source) + 1
                         ELSE /\ ~InComment(From(n), First1(Seen[n]))
                              /\ IsLexeme(First1(Seen[n]), Ends(Seen[n]), Seen[n].type)
                      /\ Seen[n].line = 1 + Newlines(source, 1, First1(Seen[n]) - 1)
    BY DEF TokensAreTheLexemes
  <1> DEFINE t == Seen[n]
             p == From(n)
             b == Begin(source, p)
             u == [t EXCEPT !.line = 0]
  <1>1. source \in Seq(Symbols) /\ Len(source) \in Nat /\ InOrder(source, Seen, current, line, hadError)
    BY DEF PassesInv
  <1>2. p = PositionIn(Seen, n) /\ p \in 1 .. Len(source) + 1 /\ t \in Token
    BY SeenParts
  <1>3. BeginsAt(source, p, b) /\ b \in p .. Len(source) + 1
    BY SeenParts
  <1>4. Extent(source, b, u)
    BY SeenParts
  <1>5. t.line = LineIn(Seen, n) + Newlines(source, p, b - 1)
    BY SeenParts
  <1>6. t.type # "EOF" /\ (\A q \in t.from .. t.to : source[q] # "\n") => IsLexeme(b, t.next - 1, t.type)
    BY SeenParts
  <1>7. u.type = t.type /\ u.from = t.from /\ u.to = t.to /\ u.next = t.next
    BY <1>2 DEF Token
  <1> HIDE DEF t, p, b, u
  <1>8. /\ First1(u) = First1(t) /\ Ends(u) = Ends(t) /\ Last1(u) = Last1(t)
        /\ t.next = Ends(t) + 1
        /\ t.type = "EOF" => b = Len(source) + 1 /\ t.from = b
        /\ t.type # "EOF" => b <= Len(source) /\ First1(t) = b /\ t.next <= Len(source) + 1
        /\ t.from \in {b, b + 1} /\ t.from \in Nat /\ t.to \in Nat
    BY <1>4, <1>7 DEF Extent, First1, Last1, Ends, Quoted, t
  <1>9. First1(t) = b
    BY <1>8 DEF First1, Quoted
  <1>10. \A k \in DOMAIN Seen : \A i \in Seen[k].from .. Seen[k].to : At(source, i) # "\n"
    BY DEF NewlineTaken, ToSet
  <1>11. Gap(p, b - 1)
    <2> SUFFICES ASSUME NEW k \in p .. b - 1 PROVE source[k] \in Blanks \/ InComment(p, k)
      BY DEF Gap
    <2>1. k <= Len(source)
      BY <1>1, <1>2, <1>3
    <2>2. source[k] \in Blanks \/ Covered(source, p, k)
      BY <1>3, <2>1 DEF BeginsAt
    <2> QED
      BY <2>2 DEF Covered, InComment
  <1>12. ASSUME t.type # "EOF"
         PROVE  ~InComment(p, b) /\ IsLexeme(b, Ends(t), t.type)
    <2>1. ~InComment(p, b)
      <3>1. ~Covered(source, p, b)
        BY <1>3, <1>8, <1>12 DEF BeginsAt
      <3> QED
        BY <3>1 DEF Covered, InComment
    <2>2. \A q \in t.from .. t.to : source[q] # "\n"
      <3> SUFFICES ASSUME NEW q \in t.from .. t.to PROVE source[q] # "\n"
        OBVIOUS
      <3>1. Ends(t) >= t.to
        BY <1>8 DEF Ends, Last1
      <3>2. q \in 1 .. Len(source)
        <4>1. Ends(t) \in Int
          BY <1>8 DEF Ends, Last1
        <4> QED
          BY <1>1, <1>2, <1>3, <1>8, <1>12, <3>1, <4>1
      <3>3. At(source, q) # "\n"
        BY <1>10 DEF t
      <3> QED
        BY <1>1, <3>2, <3>3, Holds
    <2>3. Ends(t) = t.next - 1
      <3>1. Ends(t) \in Int
        BY <1>8 DEF Ends, Last1
      <3> QED
        BY <1>8, <3>1
    <2> QED
      BY <1>6, <1>12, <2>1, <2>2, <2>3
  <1>13. t.line = 1 + Newlines(source, 1, b - 1)
    <2>1. \A k \in DOMAIN Seen : ~NewlineWithin(source, Seen[k])
      BY <1>10 DEF NewlineWithin
    <2>2. n \in 1 .. Len(Seen) + 1
      BY <1>1 DEF InOrder
    <2>3. LineIn(Seen, n) = 1 + Newlines(source, 1, p - 1)
      BY <1>1, <1>2, <2>1, <2>2 DEF InOrder
    <2>4. b \in Nat /\ p \in Nat /\ 1 <= p /\ p <= b /\ 1 \in Nat /\ b - 1 \in Nat /\ p - 1 \in Nat
            /\ p <= (b - 1) + 1 /\ 1 <= 1 /\ 1 <= (p - 1) + 1
      BY <1>1, <1>2, <1>3
    <2>5. /\ Newlines(source, 1, b - 1) = Newlines(source, 1, p - 1) + Newlines(source, p, b - 1)
          /\ Newlines(source, p, b - 1) \in Nat
      <3>1. 1 \in Nat /\ p \in Nat /\ b - 1 \in Nat /\ 1 <= p /\ p <= (b - 1) + 1
        BY <2>4
      <3> QED
        BY ZenonT(30), <3>1, NewlinesAdd
    <2>6. Newlines(source, 1, p - 1) \in Nat
      BY <2>4, NewlinesAdd
    <2>7. t.line = (1 + Newlines(source, 1, p - 1)) + Newlines(source, p, b - 1)
      BY <1>5, <2>3
    <2> QED
      BY <2>5, <2>6, <2>7
  <1>14. p <= b
    BY <1>1, <1>2, <1>3
  <1> QED
    BY <1>8, <1>9, <1>11, <1>12, <1>13, <1>14 DEF t, p

\* What the parser gets are the lexemes of the source in their order, with their
\* lines, for every source, every set of files and whatever the memory that
\* include() frees is used for (get_token, lookahead, init_lexer).
THEOREM LexemesInOrder == Spec => []TokensAreTheLexemes
  <1>1. PassesInv => TokensAreTheLexemes
    BY OrderIsLexemes
  <1> QED
    BY <1>1, PassesHolds, PTL

LEMMA RefusalsAreErrors ==
  ASSUME PassesInv
  PROVE  OnlyTheMalformedIsRefused
  <1> SUFFICES ASSUME phase = "second", NEW n \in DOMAIN Seen, Seen[n].type = "ERROR"
               PROVE  /\ hadError
                      /\ \A i \in From(n) .. Len(source), j \in 1 .. Len(source) :
                            /\ Gap(From(n), i - 1) /\ ~Gap(From(n), i)
                            => \A type \in Types : ~IsLexeme(i, j, type)
    BY DEF OnlyTheMalformedIsRefused
  <1> DEFINE p == From(n)
             b == Begin(source, p)
  <1>1. source \in Seq(Symbols) /\ Len(source) \in Nat
    BY DEF PassesInv
  <1>2. /\ p \in 1 .. Len(source) + 1 /\ BeginsAt(source, p, b) /\ b \in p .. Len(source) + 1
        /\ Refused(b) /\ hadError
    BY SeenParts
  <1> HIDE DEF p, b
  <1> SUFFICES ASSUME NEW i \in p .. Len(source), NEW j \in 1 .. Len(source),
                      Gap(p, i - 1), ~Gap(p, i), NEW type \in Types
               PROVE  ~IsLexeme(i, j, type)
    BY <1>2 DEF p
  <1>3. \A k \in p .. b - 1 : k <= Len(source) => source[k] \in Blanks \/ InComment(p, k)
    BY <1>2 DEF BeginsAt, Covered, InComment
  <1>4. b <= i
    <2> SUFFICES ASSUME i < b PROVE FALSE
      BY <1>1, <1>2
    <2>1. \A k \in p .. i : k \in p .. b - 1 /\ k <= Len(source)
      BY <1>1, <1>2
    <2> QED
      BY <1>3, <2>1 DEF Gap
  <1>5. b \in 1 .. Len(source)
    BY <1>1, <1>2, <1>4
  <1>6. source[b] \notin Blanks /\ ~InComment(p, b)
    BY <1>1, <1>2, <1>5, Holds DEF BeginsAt, Skipped, Covered, InComment
  <1>7. b = i
    <2> SUFFICES ASSUME b < i PROVE FALSE
      BY <1>1, <1>2, <1>4
    <2>1. b \in p .. i - 1
      BY <1>1, <1>2
    <2> QED
      BY <1>6, <2>1 DEF Gap
  <1> QED
    BY <1>1, <1>2, <1>5, <1>7, RefusedIsNone

\* get_token returns an ERROR only where no lexeme begins, and hadError then is
\* set, for every source (the error exits of get_token).
THEOREM RefusesTheMalformed == Spec => []OnlyTheMalformedIsRefused
  <1>1. PassesInv => OnlyTheMalformedIsRefused
    BY RefusalsAreErrors
  <1> QED
    BY <1>1, PassesHolds, PTL

-----------------------------------------------------------------------------
(* The INCLUDEs of the first pass, and the second one over a longer text.  *)

LEMMA PrefixParts ==
  ASSUME NEW s \in Seq(Symbols), NEW t \in Seq(Symbols)
  PROVE  IsPrefix(s, t) <=> Len(s) <= Len(t) /\ \A i \in 1 .. Len(s) : t[i] = s[i]
  <1> DEFINE a == SubSeq(s, 1, Len(s))
             b == SubSeq(t, 1, Len(s))
  <1>1. Len(s) \in Nat /\ Len(t) \in Nat
    OBVIOUS
  <1>2. CASE ~(Len(s) <= Len(t))
    BY <1>2 DEF IsPrefix
  <1>3. CASE Len(s) <= Len(t)
    <2>1. /\ a \in Seq(Symbols) /\ Len(a) = Len(s) /\ \A i \in 1 .. Len(s) : a[i] = s[i]
          /\ b \in Seq(Symbols) /\ Len(b) = Len(s) /\ \A i \in 1 .. Len(s) : b[i] = t[i]
      BY <1>1, <1>3
    <2>2. IsPrefix(s, t) <=> a = b
      BY <1>3 DEF IsPrefix
    <2> HIDE DEF a, b
    <2>3. a = b <=> \A i \in 1 .. Len(s) : a[i] = b[i]
      BY <2>1, SameSequence
    <2> QED
      BY <1>3, <2>1, <2>2, <2>3
  <1> QED
    BY <1>2, <1>3

LEMMA PrefixGrows ==
  ASSUME NEW s \in Seq(Symbols), NEW t \in Seq(Symbols), NEW u \in Seq(Symbols), IsPrefix(s, t)
  PROVE  IsPrefix(s, t \o u) /\ t \o u \in Seq(Symbols)
  <1>1. /\ t \o u \in Seq(Symbols) /\ Len(t \o u) = Len(t) + Len(u)
        /\ \A i \in 1 .. Len(t) : (t \o u)[i] = t[i]
    OBVIOUS
  <1>2. Len(s) <= Len(t) /\ \A i \in 1 .. Len(s) : t[i] = s[i]
    BY PrefixParts
  <1>3. Len(s) <= Len(t \o u) /\ \A i \in 1 .. Len(s) : (t \o u)[i] = s[i]
    BY <1>1, <1>2
  <1> QED
    BY <1>1, <1>3, PrefixParts

LEMMA TakesOnce ==
  ASSUME NEW q, NEW i \in Nat, q[i].type = "INCLUDE", Takes(q, i), Takes(q, i + 1)
  PROVE  FALSE
  <1>1. PICK f \in 1 .. i : /\ (i - f) % 2 = 0
                            /\ \A n \in f .. i - 1 : q[n].type = "INCLUDE"
                            /\ f > 1 => q[f - 1].type # "INCLUDE"
    BY DEF Takes
  <1>2. PICK g \in 1 .. i + 1 : /\ (i + 1 - g) % 2 = 0
                                /\ \A n \in g .. i : q[n].type = "INCLUDE"
                                /\ g > 1 => q[g - 1].type # "INCLUDE"
    BY DEF Takes
  <1>3. g # i + 1
    BY <1>1, <1>2
  <1>4. ~(f < g)
    <2> SUFFICES ASSUME f < g PROVE FALSE
      OBVIOUS
    <2>1. g - 1 \in f .. i - 1
      BY <1>1, <1>2, <1>3
    <2> QED
      BY <1>1, <1>2, <2>1
  <1>5. ~(g < f)
    <2> SUFFICES ASSUME g < f PROVE FALSE
      OBVIOUS
    <2>1. f - 1 \in g .. i
      BY <1>1, <1>2
    <2> QED
      BY <1>1, <1>2, <2>1
  <1>6. f = g
    BY <1>1, <1>2, <1>4, <1>5
  <1>7. (i - f) % 2 = 0 /\ (i + 1 - f) % 2 = 0 /\ i - f \in Nat
    BY <1>1, <1>2, <1>6
  <1> QED
    BY <1>7

\* A sequence of tokens with some more: what it takes and what it includes.
LEMMA TakesAlike ==
  ASSUME NEW q, NEW v, NEW i \in Nat, \A n \in 1 .. i - 1 : q[n] = v[n]
  PROVE  Takes(q, i) <=> Takes(v, i)
  <1>1. ASSUME NEW a, NEW b, \A n \in 1 .. i - 1 : a[n] = b[n], Takes(a, i) PROVE Takes(b, i)
    <2>1. PICK f \in 1 .. i : /\ (i - f) % 2 = 0
                              /\ \A n \in f .. i - 1 : a[n].type = "INCLUDE"
                              /\ f > 1 => a[f - 1].type # "INCLUDE"
      BY <1>1 DEF Takes
    <2>2. \A n \in f .. i - 1 : b[n].type = "INCLUDE"
      BY <1>1, <2>1
    <2>3. f > 1 => b[f - 1].type # "INCLUDE"
      BY <1>1, <2>1
    <2> QED
      BY <2>1, <2>2, <2>3 DEF Takes
  <1> QED
    BY <1>1

\* A token that is no INCLUDE, by itself.
LEMMA PassedOne ==
  ASSUME NEW q \in Seq(Token), Includes(q) = {}, Takes(q, Len(q) + 1),
         NEW t \in Token, t.type # "INCLUDE"
  PROVE  Includes(Append(q, t)) = {} /\ Takes(Append(q, t), Len(q) + 2)
  <1> DEFINE more == Append(q, t)
  <1>1. /\ Len(q) \in Nat /\ Len(more) = Len(q) + 1 /\ more[Len(q) + 1] = t
        /\ \A n \in 1 .. Len(q) : more[n] = q[n]
    OBVIOUS
  <1> HIDE DEF more
  <1>2. Takes(more, Len(q) + 2)
    <2>1. (Len(q) + 2 - (Len(q) + 2)) % 2 = 0
      BY <1>1
    <2>2. more[(Len(q) + 2) - 1].type # "INCLUDE"
      BY <1>1
    <2> DEFINE f == Len(q) + 2
    <2>3. f \in 1 .. Len(q) + 2 /\ \A n \in f .. Len(q) + 2 - 1 : FALSE
      BY <1>1
    <2> QED
      BY <2>1, <2>2, <2>3 DEF Takes
  <1>3. ASSUME NEW i \in Includes(more) PROVE FALSE
    <2>1. i \in 1 .. Len(q) /\ more[i].type = "INCLUDE" /\ more[i + 1].type = "STRING" /\ Takes(more, i)
      BY <1>1, <1>3 DEF Includes
    <2>2. Takes(q, i) /\ q[i].type = "INCLUDE"
      BY <1>1, <2>1, TakesAlike
    <2>3. CASE i = Len(q)
      BY <1>1, <2>2, <2>3, TakesOnce
    <2>4. CASE i # Len(q)
      <3>1. i \in 1 .. Len(q) - 1 /\ i + 1 \in 1 .. Len(q)
        BY <1>1, <2>1, <2>4
      <3> QED
        BY <1>1, <2>1, <2>2, <3>1 DEF Includes
    <2> QED
      BY <2>3, <2>4
  <1> QED
    BY <1>2, <1>3 DEF more

\* The run of INCLUDEs that begins at f decides.
LEMMA TakesFrom ==
  ASSUME NEW q, NEW i, NEW f \in 1 .. i, (i - f) % 2 = 0,
         \A n \in f .. i - 1 : q[n].type = "INCLUDE",
         f > 1 => q[f - 1].type # "INCLUDE"
  PROVE  Takes(q, i)
  BY DEF Takes

\* An INCLUDE and what is behind it: a string that it names, or anything else.
LEMMA PassedTwo ==
  ASSUME NEW q \in Seq(Token), Includes(q) = {}, Takes(q, Len(q) + 1),
         NEW t \in Token, t.type = "INCLUDE", NEW name \in Token
  PROVE  /\ name.type = "STRING"  => Includes(Append(Append(q, t), name)) = {Len(q) + 1}
         /\ name.type # "STRING" => /\ Includes(Append(Append(q, t), name)) = {}
                                    /\ Takes(Append(Append(q, t), name), Len(q) + 3)
  <1> DEFINE more == Append(Append(q, t), name)
  <1>1. /\ Len(q) \in Nat /\ Len(more) = Len(q) + 2 /\ more[Len(q) + 1] = t /\ more[Len(q) + 2] = name
        /\ \A n \in 1 .. Len(q) : more[n] = q[n]
    OBVIOUS
  <1> HIDE DEF more
  <1>2. Takes(more, Len(q) + 1)
    BY <1>1, TakesAlike
  <1>3. ASSUME NEW i \in Includes(more) PROVE i = Len(q) + 1 /\ name.type = "STRING"
    <2>1. /\ i \in 1 .. Len(q) + 1
          /\ more[i].type = "INCLUDE" /\ more[i + 1].type = "STRING" /\ Takes(more, i)
      BY <1>1, <1>3 DEF Includes
    <2>2. i # Len(q)
      BY <1>1, <2>1
    <2>3. CASE i \in 1 .. Len(q) - 1
      <3>1. i + 1 \in 1 .. Len(q) /\ i \in 1 .. Len(q)
        BY <1>1, <2>3
      <3>2. Takes(q, i)
        BY <1>1, <2>1, <3>1, TakesAlike
      <3> QED
        BY <1>1, <2>1, <2>3, <3>1, <3>2 DEF Includes
    <2>4. i = Len(q) + 1
      BY <1>1, <2>1, <2>2, <2>3
    <2> QED
      BY <1>1, <2>1, <2>4
  <1>4. name.type = "STRING" => Len(q) + 1 \in Includes(more)
    <2>1. Len(q) + 1 \in 1 .. Len(more) - 1 /\ (Len(q) + 1) + 1 = Len(q) + 2
      BY <1>1
    <2> QED
      BY <1>1, <1>2, <2>1 DEF Includes
  <1>5. ASSUME name.type # "STRING" PROVE Takes(more, Len(q) + 3)
    <2>1. CASE name.type # "INCLUDE"
      <3> DEFINE f == Len(q) + 3
      <3>1. f \in 1 .. Len(q) + 3 /\ (Len(q) + 3 - f) % 2 = 0 /\ f - 1 = Len(q) + 2
              /\ \A n \in f .. Len(q) + 3 - 1 : FALSE
        BY <1>1
      <3>2. more[f - 1].type # "INCLUDE"
        BY <1>1, <2>1, <3>1
      <3> QED
        BY <3>1, <3>2 DEF Takes
    <2>2. CASE name.type = "INCLUDE"
      <3>1. PICK f \in 1 .. Len(q) + 1 : /\ (Len(q) + 1 - f) % 2 = 0
                                         /\ \A n \in f .. Len(q) + 1 - 1 : more[n].type = "INCLUDE"
                                         /\ f > 1 => more[f - 1].type # "INCLUDE"
        BY SMTT(30), <1>2 DEF Takes
      <3>2. (Len(q) + 3 - f) % 2 = 0 /\ f \in 1 .. Len(q) + 3
        BY <1>1, <3>1
      <3>3. \A n \in f .. Len(q) + 3 - 1 : more[n].type = "INCLUDE"
        BY <1>1, <2>2, <3>1
      <3> QED
        <4>1. f > 1 => more[f - 1].type # "INCLUDE"
          BY <3>1
        <4> QED
          BY <3>2, <3>3, <4>1, TakesFrom
    <2> QED
      BY <2>1, <2>2
  <1> QED
    BY <1>3, <1>4, <1>5 DEF more

\* The text s goes on behind the text m, after a new line.
Longer(m, s) ==
    /\ m \in Seq(Symbols) /\ s \in Seq(Symbols)
    /\ Len(m) < Len(s) /\ s[Len(m) + 1] = "\n"
    /\ \A i \in 1 .. Len(m) : s[i] = m[i]

LEMMA LongerAt ==
  ASSUME NEW m, NEW s, Longer(m, s)
  PROVE  /\ m \in Seq(Symbols) /\ s \in Seq(Symbols) /\ Len(m) \in Nat /\ Len(s) \in Nat /\ Len(m) < Len(s)
         /\ \A i \in 1 .. Len(m) : s[i] = m[i] /\ At(s, i) = At(m, i) /\ At(m, i) = m[i]
         /\ At(s, Len(m) + 1) = "\n" /\ At(m, Len(m) + 1) = "NUL"
         /\ \A i \in 1 .. Len(m) + 1 : IsWhite(At(s, i)) <=> IsWhite(At(m, i))
  <1>1. m \in Seq(Symbols) /\ s \in Seq(Symbols) /\ Len(m) \in Nat /\ Len(s) \in Nat /\ Len(m) < Len(s)
    BY DEF Longer
  <1>2. \A i \in 1 .. Len(m) : s[i] = m[i] /\ At(s, i) = At(m, i) /\ At(m, i) = m[i]
    BY <1>1 DEF Longer, At
  <1>3. At(s, Len(m) + 1) = "\n" /\ At(m, Len(m) + 1) = "NUL"
    BY <1>1 DEF Longer, At
  <1>4. IsWhite("\n") /\ IsWhite("NUL")
    BY DEF IsWhite, Blanks
  <1>5. \A i \in 1 .. Len(m) + 1 : i \in 1 .. Len(m) \/ i = Len(m) + 1
    BY <1>1
  <1> QED
    BY <1>1, <1>2, <1>3, <1>4, <1>5

LEMMA SameNext ==
  ASSUME NEW m, NEW s, Longer(m, s), NEW i \in Nat \ {0}, NEW cs,
         Next1(m, i, cs) <= Len(m) \/ Next1(s, i, cs) <= Len(m)
  PROVE  Next1(m, i, cs) = Next1(s, i, cs)
  <1> DEFINE v == Next1(m, i, cs)
             w == Next1(s, i, cs)
  <1>1. /\ m \in Seq(Symbols) /\ s \in Seq(Symbols) /\ Len(m) \in Nat /\ Len(s) \in Nat /\ Len(m) < Len(s)
        /\ \A j \in 1 .. Len(m) : s[j] = m[j]
    BY LongerAt
  <1>2. /\ v \in Nat
        /\ \/ v = Len(m) + 2 /\ \A j \in i .. Len(m) : m[j] \notin cs
           \/ v \in i .. Len(m) /\ m[v] \in cs /\ \A j \in i .. v - 1 : m[j] \notin cs
    BY <1>1, NextParts
  <1>3. /\ w \in Nat
        /\ \/ w = Len(s) + 2 /\ \A j \in i .. Len(s) : s[j] \notin cs
           \/ w \in i .. Len(s) /\ s[w] \in cs /\ \A j \in i .. w - 1 : s[j] \notin cs
    BY <1>1, NextParts
  <1>4. v <= Len(m) \/ w <= Len(m)
    OBVIOUS
  <1> HIDE DEF v, w
  <1>5. ~(v < w)
    <2> SUFFICES ASSUME v < w PROVE FALSE
      OBVIOUS
    <2>1. v \in i .. Len(m) /\ m[v] \in cs /\ s[v] = m[v]
      BY <1>1, <1>2, <1>3, <1>4
    <2>2. s[v] \notin cs
      BY <1>1, <1>3, <2>1
    <2> QED
      BY <2>1, <2>2
  <1>6. ~(w < v)
    <2> SUFFICES ASSUME w < v PROVE FALSE
      OBVIOUS
    <2>1. w \in i .. Len(m) /\ s[w] \in cs /\ s[w] = m[w]
      BY <1>1, <1>2, <1>3, <1>4
    <2>2. m[w] \notin cs
      BY <1>1, <1>2, <2>1
    <2> QED
      BY <2>1, <2>2
  <1> QED
    BY <1>2, <1>3, <1>5, <1>6 DEF v, w

LEMMA SameBegin ==
  ASSUME NEW m, NEW s, Longer(m, s), NEW p \in 1 .. Len(m) + 1, Begin(m, p) <= Len(m)
  PROVE  Begin(s, p) = Begin(m, p)
  <1> DEFINE b == Begin(m, p)
             c == Begin(s, p)
  <1>1. /\ m \in Seq(Symbols) /\ s \in Seq(Symbols) /\ Len(m) \in Nat /\ Len(s) \in Nat /\ Len(m) < Len(s)
        /\ \A j \in 1 .. Len(m) : s[j] = m[j] /\ At(s, j) = At(m, j) /\ At(m, j) = m[j]
        /\ \A j \in 1 .. Len(m) + 1 : IsWhite(At(s, j)) <=> IsWhite(At(m, j))
    BY LongerAt
  <1>2. BeginsAt(m, p, b) /\ b <= Len(m)
    BY <1>1, ScanIs
  <1>3. BeginsAt(s, p, c)
    BY <1>1, ScanIs
  <1> HIDE DEF b, c
  <1>4. \A n \in p .. Len(m) : Covered(s, p, n) <=> Covered(m, p, n)
    <2> SUFFICES ASSUME NEW n \in p .. Len(m), NEW r \in p .. n
                 PROVE  \/ s[r] = "REM" /\ IsWhite(At(s, r + 1)) /\ "\n" \notin {s[q] : q \in r .. n}
                        <=> m[r] = "REM" /\ IsWhite(At(m, r + 1)) /\ "\n" \notin {m[q] : q \in r .. n}
      BY DEF Covered
    <2>1. s[r] = m[r] /\ (IsWhite(At(s, r + 1)) <=> IsWhite(At(m, r + 1)))
      BY <1>1
    <2>2. \A q \in r .. n : s[q] = m[q]
      BY <1>1
    <2> QED
      BY <2>1, <2>2
  <1>5. \A n \in 1 .. Len(m) : Skipped(s, n) <=> Skipped(m, n)
    BY <1>1 DEF Skipped, IsRem
  <1>6. b \in p .. Len(m) /\ ~Skipped(m, b) /\ ~Covered(m, p, b)
    BY <1>1, <1>2 DEF BeginsAt
  <1>7. c \in p .. Len(s) + 2
    BY <1>3 DEF BeginsAt
  <1>8. ~(b < c)
    <2> SUFFICES ASSUME b < c PROVE FALSE
      OBVIOUS
    <2>1. s[b] \in Blanks \/ Covered(s, p, b)
      BY <1>1, <1>3, <1>6, <1>7 DEF BeginsAt
    <2>2. s[b] = m[b] /\ At(m, b) = m[b]
      BY <1>1, <1>6
    <2> QED
      BY <1>4, <1>6, <2>1, <2>2 DEF Skipped
  <1>9. ~(c < b)
    <2> SUFFICES ASSUME c < b PROVE FALSE
      OBVIOUS
    <2>1. c \in p .. Len(m) /\ c \in p .. b - 1 /\ c \in 1 .. Len(m)
      BY <1>1, <1>6, <1>7
    <2>2. ~Skipped(s, c) /\ ~Covered(s, p, c)
      BY <1>1, <1>3, <2>1 DEF BeginsAt
    <2>3. m[c] \in Blanks \/ Covered(m, p, c)
      BY <1>2, <2>1 DEF BeginsAt
    <2> QED
      BY <1>1, <1>4, <1>5, <2>1, <2>2, <2>3 DEF Skipped
  <1> QED
    BY <1>6, <1>7, <1>8, <1>9 DEF b, c

LEMMA SameEnds ==
  ASSUME NEW m, NEW s, Longer(m, s), NEW b \in 1 .. Len(m)
  PROVE  NumberEnd(s, b) = NumberEnd(m, b) /\ WordEnd(s, b) = WordEnd(m, b)
  <1>1. /\ m \in Seq(Symbols) /\ s \in Seq(Symbols) /\ Len(m) \in Nat /\ Len(s) \in Nat /\ Len(m) < Len(s)
        /\ \A j \in 1 .. Len(m) : At(s, j) = At(m, j)
        /\ At(s, Len(m) + 1) = "\n" /\ At(m, Len(m) + 1) = "NUL"
        /\ \A j \in 1 .. Len(m) + 1 : IsWhite(At(s, j)) <=> IsWhite(At(m, j))
    BY LongerAt
  <1>2. b \in 1 .. Len(m) + 1 /\ b \in 1 .. Len(s) + 1
    BY <1>1
  <1>3. \A j \in 1 .. Len(m) + 1 : At(s, j) \in Digits <=> At(m, j) \in Digits
    <2>1. "\n" \notin Digits /\ "NUL" \notin Digits
      BY DEF Digits
    <2>2. \A j \in 1 .. Len(m) + 1 : j \in 1 .. Len(m) \/ j = Len(m) + 1
      BY <1>1
    <2> QED
      BY <1>1, <2>1, <2>2
  <1>4. ASSUME NEW v \in b .. Len(m) + 1, NEW w \in b .. Len(s) + 1, NEW P, NEW R,
               v \notin P, \A j \in b .. v - 1 : j \in P,
               w \notin R, \A j \in b .. w - 1 : j \in R,
               \A j \in b .. Len(m) + 1 : j \in P <=> j \in R
        PROVE  w = v
    <2>1. ~(v < w)
      <3> SUFFICES ASSUME v < w PROVE FALSE
        OBVIOUS
      <3>1. v \in b .. w - 1
        BY <1>1, <1>4
      <3> QED
        BY <1>4, <3>1
    <2>2. ~(w < v)
      <3> SUFFICES ASSUME w < v PROVE FALSE
        OBVIOUS
      <3>1. w \in b .. v - 1 /\ w \in b .. Len(m) + 1
        BY <1>1, <1>4
      <3> QED
        BY <1>4, <3>1
    <2> QED
      BY <1>1, <2>1, <2>2
  <1>5. NumberEnd(s, b) = NumberEnd(m, b)
    <2> DEFINE P == {j \in Nat : At(m, j) \in Digits}
               R == {j \in Nat : At(s, j) \in Digits}
               v == NumberEnd(m, b)
               w == NumberEnd(s, b)
    <2>1. v \in b .. Len(m) + 1 /\ At(m, v) \notin Digits /\ \A j \in b .. v - 1 : At(m, j) \in Digits
      BY <1>1, <1>2, NumberParts
    <2>2. w \in b .. Len(s) + 1 /\ At(s, w) \notin Digits /\ \A j \in b .. w - 1 : At(s, j) \in Digits
      BY <1>1, <1>2, NumberParts
    <2> HIDE DEF v, w
    <2>3. v \notin P /\ (\A j \in b .. v - 1 : j \in P) /\ w \notin R /\ (\A j \in b .. w - 1 : j \in R)
      BY <1>1, <2>1, <2>2
    <2>4. \A j \in b .. Len(m) + 1 : j \in P <=> j \in R
      BY <1>1, <1>3
    <2> HIDE DEF P, R
    <2>5. w = v
      BY <1>4, <2>1, <2>2, <2>3, <2>4
    <2> QED
      BY <2>5 DEF v, w
  <1>6. WordEnd(s, b) = WordEnd(m, b)
    <2> DEFINE P == {j \in Nat : ~IsWhite(At(m, j))}
               R == {j \in Nat : ~IsWhite(At(s, j))}
               v == WordEnd(m, b)
               w == WordEnd(s, b)
    <2>1. v \in b .. Len(m) + 1 /\ IsWhite(At(m, v)) /\ \A j \in b .. v - 1 : ~IsWhite(At(m, j))
      BY <1>1, <1>2, WordParts
    <2>2. w \in b .. Len(s) + 1 /\ IsWhite(At(s, w)) /\ \A j \in b .. w - 1 : ~IsWhite(At(s, j))
      BY <1>1, <1>2, WordParts
    <2> HIDE DEF v, w
    <2>3. v \notin P /\ (\A j \in b .. v - 1 : j \in P) /\ w \notin R /\ (\A j \in b .. w - 1 : j \in R)
      BY <1>1, <2>1, <2>2
    <2>4. \A j \in b .. Len(m) + 1 : j \in P <=> j \in R
      BY <1>1
    <2> HIDE DEF P, R
    <2>5. w = v
      BY <1>4, <2>1, <2>2, <2>3, <2>4
    <2> QED
      BY <2>5 DEF v, w
  <1> QED
    BY <1>5, <1>6

LEMMA SameAt ==
  ASSUME NEW m, NEW s, Longer(m, s), NEW b \in 1 .. Len(m), ~Skipped(m, b),
         TokenAt(m, b).type # "PAST"
  PROVE  TokenAt(s, b) = TokenAt(m, b)
  <1>1. /\ m \in Seq(Symbols) /\ s \in Seq(Symbols) /\ Len(m) \in Nat /\ Len(s) \in Nat /\ Len(m) < Len(s)
        /\ \A j \in 1 .. Len(m) : s[j] = m[j] /\ At(s, j) = At(m, j) /\ At(m, j) = m[j]
        /\ At(s, Len(m) + 1) = "\n" /\ At(m, Len(m) + 1) = "NUL"
        /\ \A j \in 1 .. Len(m) + 1 : IsWhite(At(s, j)) <=> IsWhite(At(m, j))
    BY LongerAt
  <1>2. s[b] = m[b] /\ At(s, b) = m[b] /\ At(m, b) = m[b]
    BY <1>1
  <1>3. ~Skipped(s, b)
    BY <1>1 DEF Skipped, IsRem
  <1>4. b \in 1 .. Len(m) + 1 /\ b \in 1 .. Len(s) + 1 /\ b # Len(m) + 1 /\ b # Len(s) + 1
    BY <1>1
  <1>5. \/ m[b] \in Operators /\ TokenAt(m, b) = Lexeme(m[b], b, b, b + 1)
        \/ m[b] = "quote" /\ TokenAt(m, b) = String(m, b)
        \/ m[b] = "'" /\ TokenAt(m, b) = Character(m, b)
        \/ m[b] = "$" /\ TokenAt(m, b) = StringVariable(m, b)
        \/ m[b] = "!" /\ TokenAt(m, b) = Bang(m, b)
        \/ m[b] \in Digits /\ TokenAt(m, b) = Number(m, b)
        \/ m[b] \in Letters \cup Runs \cup {":", "("} /\ TokenAt(m, b) = Word(m, b)
    BY <1>1, <1>4, TokenCases
  <1>6. \/ m[b] \in Operators /\ TokenAt(s, b) = Lexeme(m[b], b, b, b + 1)
        \/ m[b] = "quote" /\ TokenAt(s, b) = String(s, b)
        \/ m[b] = "'" /\ TokenAt(s, b) = Character(s, b)
        \/ m[b] = "$" /\ TokenAt(s, b) = StringVariable(s, b)
        \/ m[b] = "!" /\ TokenAt(s, b) = Bang(s, b)
        \/ m[b] \in Digits /\ TokenAt(s, b) = Number(s, b)
        \/ m[b] \in Letters \cup Runs \cup {":", "("} /\ TokenAt(s, b) = Word(s, b)
    BY <1>1, <1>2, <1>3, <1>4, TokenCases
  <1>7. CASE m[b] \in Operators
    BY <1>5, <1>6, <1>7 DEF Operators, Digits, Letters, Runs
  <1>8. CASE m[b] = "quote"
    <2> DEFINE endm == Next1(m, b + 1, {"quote"})
               ends == Next1(s, b + 1, {"quote"})
               nlm  == Next1(m, b + 2, {"\n"})
               nls  == Next1(s, b + 2, {"\n"})
    <2>1. TokenAt(m, b) = String(m, b) /\ TokenAt(s, b) = String(s, b)
      BY <1>5, <1>6, <1>8 DEF Operators, Digits, Letters, Runs
    <2>2. /\ String(m, b) = IF nlm < endm THEN Error(b + 1, nlm)
                            ELSE IF endm > Len(m) THEN Past ELSE Lexeme("STRING", b + 1, endm - 1, endm + 1)
          /\ String(s, b) = IF nls < ends THEN Error(b + 1, nls)
                            ELSE IF ends > Len(s) THEN Past ELSE Lexeme("STRING", b + 1, ends - 1, ends + 1)
      BY DEF String, Closed
    <2>3. /\ endm \in Nat /\ ends \in Nat /\ nlm \in Nat /\ nls \in Nat
          /\ (endm <= Len(m) \/ endm = Len(m) + 2) /\ (nlm <= Len(m) \/ nlm = Len(m) + 2)
      BY <1>1, NextParts
    <2>4. endm <= Len(m) \/ ends <= Len(m) => endm = ends
      BY <1>4, SameNext
    <2>5. nlm <= Len(m) \/ nls <= Len(m) => nlm = nls
      BY <1>4, SameNext
    <2>6. Past.type = "PAST"
      BY DEF Past, Lexeme
    <2> HIDE DEF endm, ends, nlm, nls
    <2>7. CASE nlm < endm
      <3>1. nlm <= Len(m) /\ nls = nlm
        BY <1>1, <2>3, <2>5, <2>7
      <3>2. nls < ends
        BY <1>1, <2>3, <2>4, <2>7, <3>1
      <3> QED
        BY <2>1, <2>2, <2>7, <3>1, <3>2
    <2>8. CASE ~(nlm < endm)
      <3>1. endm <= Len(m)
        BY <1>1, <2>1, <2>2, <2>3, <2>6, <2>8
      <3>2. ends = endm /\ ~(nls < ends)
        BY <1>1, <2>3, <2>4, <2>5, <2>8, <3>1
      <3> QED
        BY <1>1, <2>1, <2>2, <2>3, <2>8, <3>1, <3>2
    <2> QED
      BY <2>7, <2>8
  <1>9. CASE m[b] = "'"
    <2>1. TokenAt(m, b) = Character(m, b) /\ TokenAt(s, b) = Character(s, b)
      BY <1>5, <1>6, <1>9 DEF Operators, Digits, Letters, Runs
    <2>2. b # Len(m)
      BY <2>1 DEF Character, Past, Lexeme
    <2>3. At(s, b + 2) = "'" <=> At(m, b + 2) = "'"
      <3>1. b + 2 \in 1 .. Len(m) \/ b + 2 = Len(m) + 1
        BY <1>1, <2>2
      <3> QED
        BY <1>1, <3>1
    <2> QED
      BY <1>4, <1>1, <2>1, <2>2, <2>3 DEF Character
  <1>10. CASE m[b] = "$"
    <2>1. TokenAt(m, b) = StringVariable(m, b) /\ TokenAt(s, b) = StringVariable(s, b)
      BY <1>5, <1>6, <1>10 DEF Operators, Digits, Letters, Runs
    <2>2. b + 1 \in 1 .. Len(m) \/ b + 1 = Len(m) + 1
      BY <1>1
    <2> QED
      BY <1>1, <2>1, <2>2 DEF StringVariable
  <1>11. CASE m[b] = "!"
    <2>1. TokenAt(m, b) = Bang(m, b) /\ TokenAt(s, b) = Bang(s, b)
      BY <1>5, <1>6, <1>11 DEF Operators, Digits, Letters, Runs
    <2>2. b + 1 \in 1 .. Len(m) \/ b + 1 = Len(m) + 1
      BY <1>1
    <2> QED
      BY <1>1, <2>1, <2>2 DEF Bang
  <1>12. CASE m[b] \in Digits
    <2>1. TokenAt(m, b) = Number(m, b) /\ TokenAt(s, b) = Number(s, b)
      BY <1>5, <1>6, <1>12 DEF Operators, Digits, Letters, Runs
    <2> QED
      BY <2>1, SameEnds DEF Number
  <1>13. CASE m[b] \in Letters \cup Runs \cup {":", "("}
    <2>1. TokenAt(m, b) = Word(m, b) /\ TokenAt(s, b) = Word(s, b)
      BY <1>5, <1>6, <1>13 DEF Operators, Digits, Letters, Runs
    <2>2. WordEnd(s, b) = WordEnd(m, b)
      BY SameEnds
    <2>3. WordEnd(m, b) - 1 \in 1 .. Len(m)
      <3>1. WordEnd(m, b) \in b .. Len(m) + 1 /\ IsWhite(At(m, WordEnd(m, b)))
        BY <1>1, <1>4, WordParts
      <3>2. ~IsWhite(m[b])
        BY <1>13 DEF IsWhite, Letters, Runs, Blanks, Operators
      <3> QED
        BY <1>1, <1>2, <3>1, <3>2
    <2>4. s[WordEnd(m, b) - 1] = m[WordEnd(m, b) - 1]
      BY <1>1, <2>3
    <2> QED
      BY <1>2, <2>1, <2>2, <2>4 DEF Word
  <1> QED
    BY <1>5, <1>7, <1>8, <1>9, <1>10, <1>11, <1>12, <1>13

LEMMA SameGet ==
  ASSUME NEW m, NEW s, Longer(m, s), NEW p \in 1 .. Len(m) + 2, NEW l,
         GetToken(m, p, l).type \notin {"PAST", "EOF"}
  PROVE  GetToken(s, p, l) = GetToken(m, p, l)
  <1> DEFINE b == Begin(m, p)
  <1>1. /\ m \in Seq(Symbols) /\ s \in Seq(Symbols) /\ Len(m) \in Nat /\ Len(s) \in Nat /\ Len(m) < Len(s)
        /\ \A j \in 1 .. Len(m) : s[j] = m[j] /\ At(s, j) = At(m, j)
    BY LongerAt
  <1>2. Past = [type |-> "PAST", from |-> 0, to |-> 0, next |-> 0, line |-> 0]
    BY DEF Past, Lexeme
  <1>3. \A k : [Past EXCEPT !.line = k].type = "PAST"
    BY <1>2
  <1>4. p <= Len(m) + 1
    <2> SUFFICES ASSUME p > Len(m) + 1 PROVE FALSE
      BY <1>1
    <2>1. GetToken(m, p, l) = [Past EXCEPT !.line = l + Newlines(m, p, p - 1)]
      BY <1>1 DEF GetToken
    <2> QED
      BY <1>3, <2>1
  <1>5. BeginsAt(m, p, b)
    BY <1>1, ScanIs
  <1> HIDE DEF b
  <1>6. b \in p .. Len(m) + 2
    BY <1>5 DEF BeginsAt
  <1>7. GetToken(m, p, l) = [(IF b > Len(m) + 1 THEN Past ELSE TokenAt(m, b))
                                EXCEPT !.line = l + Newlines(m, p, b - 1)]
    BY <1>1, <1>4 DEF GetToken, b
  <1>8. b <= Len(m) + 1 /\ GetToken(m, p, l) = [TokenAt(m, b) EXCEPT !.line = l + Newlines(m, p, b - 1)]
    BY <1>1, <1>3, <1>6, <1>7
  <1>9. ~Skipped(m, b) /\ b \in 1 .. Len(m) + 1
    BY <1>1, <1>5, <1>6, <1>8 DEF BeginsAt
  <1>10. b # Len(m) + 1
    <2> SUFFICES ASSUME b = Len(m) + 1 PROVE FALSE
      OBVIOUS
    <2>1. TokenAt(m, b) = Lexeme("EOF", b, b - 1, b)
      BY <1>1, <1>9, TokenCases
    <2>2. [Lexeme("EOF", b, b - 1, b) EXCEPT !.line = l + Newlines(m, p, b - 1)].type = "EOF"
      BY DEF Lexeme
    <2> QED
      BY <1>8, <2>1, <2>2
  <1>11. b \in 1 .. Len(m)
    BY <1>1, <1>9, <1>10
  <1>12. TokenAt(m, b).type # "PAST"
    <2>1. \E type, from, to, next : TokenAt(m, b) = Lexeme(type, from, to, next)
      <3>1. \/ b = Len(m) + 1 /\ TokenAt(m, b) = Lexeme("EOF", b, b - 1, b)
            \/ TokenAt(m, b) = Lexeme(m[b], b, b, b + 1)
            \/ TokenAt(m, b) = String(m, b)
            \/ TokenAt(m, b) = Character(m, b)
            \/ TokenAt(m, b) = StringVariable(m, b)
            \/ TokenAt(m, b) = Bang(m, b)
            \/ TokenAt(m, b) = Number(m, b)
            \/ TokenAt(m, b) = Word(m, b)
        BY <1>1, <1>9, TokenCases
      <3> QED
        BY <3>1 DEF String, Closed, Character, StringVariable, Bang, Number, Word, Error, Past
    <2> QED
      BY <1>8, <2>1 DEF Lexeme
  <1>13. TokenAt(s, b) = TokenAt(m, b)
    BY <1>9, <1>11, <1>12, SameAt
  <1>14. Begin(s, p) = b
    BY <1>1, <1>4, <1>11, SameBegin DEF b
  <1>15. Newlines(s, p, b - 1) = Newlines(m, p, b - 1)
    <2>1. \A n \in p .. b - 1 : At(s, n) = At(m, n)
      BY <1>1, <1>11
    <2>2. {n \in p .. b - 1 : At(s, n) = "\n"} = {n \in p .. b - 1 : At(m, n) = "\n"}
      BY <2>1
    <2> QED
      BY <2>2 DEF Newlines
  <1>16. ~(p > Len(s) + 1) /\ ~(b > Len(s) + 1)
    BY <1>1, <1>4, <1>11
  <1>17. GetToken(s, p, l) = [TokenAt(s, b) EXCEPT !.line = l + Newlines(s, p, b - 1)]
    BY <1>14, <1>16 DEF GetToken
  <1> QED
    BY <1>8, <1>13, <1>15, <1>17

\* Both passes see the same tokens, as far as those of the first one reach.
LEMMA SameTokens ==
  ASSUME NEW m \in Seq(Symbols), NEW s \in Seq(Symbols),
         NEW q, NEW p, NEW l, NEW err, InOrder(m, q, p, l, err),
         NEW v, NEW pp, NEW ll, NEW ee, InOrder(s, v, pp, ll, ee),
         s = m \/ (Longer(m, s) /\ \A n \in DOMAIN q : q[n].type # "EOF")
  PROVE  \A n \in 1 .. Len(q) : n <= Len(v) => v[n] = q[n]
  <1> DEFINE bad == {n \in 1 .. Len(q) : n <= Len(v) /\ v[n] # q[n]}
  <1>1. /\ q \in Seq(Token) /\ v \in Seq(Token) /\ Len(q) \in Nat /\ Len(v) \in Nat
        /\ DOMAIN q = 1 .. Len(q) /\ DOMAIN v = 1 .. Len(v)
    BY DEF InOrder
  <1>2. bad = {}
    <2> SUFFICES ASSUME bad # {} PROVE FALSE
      OBVIOUS
    <2>1. PICK k \in bad : \A n \in bad : k <= n
      <3>1. bad \in SUBSET Nat
        BY <1>1
      <3> HIDE DEF bad
      <3> QED
        BY <3>1, LeastElement
    <2>2. k \in 1 .. Len(q) /\ k \in 1 .. Len(v) /\ v[k] # q[k]
      BY <1>1, <2>1
    <2>3. PositionIn(v, k) = PositionIn(q, k) /\ LineIn(v, k) = LineIn(q, k)
      <3>1. CASE k = 1
        BY <3>1 DEF PositionIn, LineIn
      <3>2. CASE k # 1
        <4>1. k - 1 \in 1 .. Len(q) /\ k - 1 <= Len(v) /\ ~(k <= k - 1)
          BY <1>1, <2>2, <3>2
        <4>2. k - 1 \notin bad
          <5> HIDE DEF bad
          <5> QED
            BY <2>1, <4>1
        <4>3. v[k - 1] = q[k - 1]
          BY <4>1, <4>2
        <4> QED
          BY <3>2, <4>3 DEF PositionIn, LineIn
      <3> QED
        BY <3>1, <3>2
    <2>4. q[k] = GetToken(m, PositionIn(q, k), LineIn(q, k)) /\ q[k].type # "PAST"
      BY <1>1, <2>2 DEF InOrder
    <2>5. v[k] = GetToken(s, PositionIn(q, k), LineIn(q, k))
      BY <1>1, <2>2, <2>3 DEF InOrder
    <2>6. PositionIn(q, k) \in 1 .. Len(m) + 2
      <3>1. k \in 1 .. Len(q) + 1
        BY <1>1, <2>2
      <3> QED
        BY <3>1 DEF InOrder
    <2>7. CASE s = m
      BY <2>2, <2>4, <2>5, <2>7
    <2>8. CASE Longer(m, s) /\ \A n \in DOMAIN q : q[n].type # "EOF"
      <3>1. GetToken(m, PositionIn(q, k), LineIn(q, k)).type \notin {"PAST", "EOF"}
        BY <1>1, <2>2, <2>4, <2>8
      <3>2. GetToken(s, PositionIn(q, k), LineIn(q, k)) = GetToken(m, PositionIn(q, k), LineIn(q, k))
        BY <2>6, <2>8, <3>1, SameGet
      <3> QED
        BY <2>2, <2>4, <2>5, <3>2
    <2> QED
      BY <2>7, <2>8
  <1> QED
    BY <1>2

\* Behind the end of the source get_token finds the end again.
LEMMA EofAgain ==
  ASSUME source \in Seq(Symbols), NEW p \in 1 .. Len(source) + 2, NEW l \in Nat,
         NEW t, t = GetToken(source, p, l), t.type = "EOF"
  PROVE  GetToken(source, t.next, t.line).type = "EOF"
  <1> DEFINE e == Len(source) + 1
  <1>1. Len(source) \in Nat /\ e \in 1 .. Len(source) + 2 /\ e \in 1 .. Len(source) + 1
    OBVIOUS
  <1>2. t.next = e
    <2>1. t \in Token /\ Extent(source, Begin(source, p), [t EXCEPT !.line = 0])
      BY Got
    <2>2. [t EXCEPT !.line = 0].type = t.type /\ [t EXCEPT !.line = 0].next = t.next
      BY <2>1 DEF Token
    <2> QED
      BY <2>1, <2>2 DEF Extent
  <1>3. At(source, e) = "NUL"
    BY <1>1, Holds
  <1>4. ~Skipped(source, e)
    BY <1>3 DEF Skipped, IsRem, Blanks
  <1>5. Begin(source, e) = e
    BY <1>1, <1>4, BeginIs
  <1>6. TokenAt(source, e) = Lexeme("EOF", e, e - 1, e)
    BY <1>1, <1>4, TokenCases
  <1>7. ~(e > Len(source) + 1)
    BY <1>1
  <1> HIDE DEF e
  <1>8. GetToken(source, e, t.line) = [Lexeme("EOF", e, e - 1, e) EXCEPT !.line = t.line + Newlines(source, e, e - 1)]
    BY <1>5, <1>6, <1>7 DEF GetToken
  <1>9. GetToken(source, e, t.line).type = "EOF"
    BY <1>8 DEF Lexeme
  <1> QED
    BY <1>2, <1>9

LEMMA BehindEof ==
  ASSUME source \in Seq(Symbols), NEW v, NEW p, NEW l, NEW err, InOrder(source, v, p, l, err),
         NEW k \in 1 .. Len(v), v[k].type = "EOF"
  PROVE  \A n \in k .. Len(v) : v[n].type = "EOF"
  <1> DEFINE bad == {n \in k .. Len(v) : v[n].type # "EOF"}
  <1>1. v \in Seq(Token) /\ Len(v) \in Nat /\ DOMAIN v = 1 .. Len(v) /\ k \in Nat
    BY DEF InOrder
  <1>2. bad = {}
    <2> SUFFICES ASSUME bad # {} PROVE FALSE
      OBVIOUS
    <2>1. PICK i \in bad : \A n \in bad : i <= n
      <3>1. bad \in SUBSET Nat
        BY <1>1
      <3> HIDE DEF bad
      <3> QED
        BY <3>1, LeastElement
    <2>2. i \in k .. Len(v) /\ v[i].type # "EOF"
      BY <2>1
    <2>3. i - 1 \in k .. Len(v) /\ i - 1 \in 1 .. Len(v) /\ i \in 1 .. Len(v) /\ i # 1 /\ ~(i <= i - 1)
      BY <1>1, <2>2
    <2>4. v[i - 1].type = "EOF"
      <3>1. i - 1 \notin bad
        <4> HIDE DEF bad
        <4> QED
          BY <2>1, <2>3
      <3> QED
        BY <2>3, <3>1
    <2>5. /\ v[i - 1] = GetToken(source, PositionIn(v, i - 1), LineIn(v, i - 1))
          /\ v[i] = GetToken(source, PositionIn(v, i), LineIn(v, i))
      BY <1>1, <2>3 DEF InOrder
    <2>6. PositionIn(v, i - 1) \in 1 .. Len(source) + 2 /\ LineIn(v, i - 1) \in Nat
      <3>1. i - 1 \in 1 .. Len(v) + 1
        BY <1>1, <2>3
      <3> QED
        BY <3>1 DEF InOrder
    <2>7. PositionIn(v, i) = v[i - 1].next /\ LineIn(v, i) = v[i - 1].line
      BY <2>3 DEF PositionIn, LineIn
    <2> QED
      BY <2>2, <2>4, <2>5, <2>6, <2>7, EofAgain
  <1> QED
    BY <1>2

\* The tokens q of main's text end with the first INCLUDE that is taken and its
\* file, and the source goes on with that file behind main's text.
FirstRead(q) ==
    /\ \E p, l, err : InOrder(main, q, p, l, err)
    /\ \A n \in DOMAIN q : q[n].type # "EOF"
    /\ Len(q) > 1 /\ Includes(q) = {Len(q) - 1}
    /\ q[Len(q)].from > 0 /\ q[Len(q)].to <= Len(main)
    /\ Files[SubSeq(main, q[Len(q)].from, q[Len(q)].to)] \in Seq(Symbols)
    /\ IsPrefix(main \o <<"\n">> \o Files[SubSeq(main, q[Len(q)].from, q[Len(q)].to)], source)

\* The first pass has read main's text as far as q, without an INCLUDE, or has
\* read the file of the first one; a pass that ends without one has seen the end.
FilesInv ==
    /\ main \in Seq(Symbols)
    /\ phase = "first" =>
          \/ /\ source = main /\ text = main
             /\ \E q : /\ InOrder(main, q, current, line, hadError)
                       /\ Includes(q) = {} /\ Takes(q, Len(q) + 1)
                       /\ \A n \in DOMAIN q :
                             q[n].type = "EOF" => GetToken(main, current, line).type = "EOF"
          \/ \E q : FirstRead(q)
    /\ phase = "second" =>
          \/ /\ source = main
             /\ \E q, p, l, err : /\ InOrder(main, q, p, l, err) /\ Includes(q) = {}
                                  /\ GetToken(main, p, l).type = "EOF"
          \/ \E q : FirstRead(q)

LEMMA FirstReadStays ==
  ASSUME PassesInv, FilesInv, NEW q, FirstRead(q), main' = main,
         source' = source \/ \E u \in Seq(Symbols) : source' = source \o u
  PROVE  FirstRead(q)'
  <1> DEFINE file == Files[SubSeq(main, q[Len(q)].from, q[Len(q)].to)]
             whole == main \o <<"\n">> \o file
  <1>1. source \in Seq(Symbols) /\ main \in Seq(Symbols) /\ file \in Seq(Symbols) /\ <<"\n">> \in Seq(Symbols)
    BY DEF PassesInv, FilesInv, FirstRead, Symbols, Blanks
  <1>2. whole \in Seq(Symbols)
    BY <1>1
  <1>3. IsPrefix(whole, source)
    BY DEF FirstRead
  <1> HIDE DEF whole
  <1>4. IsPrefix(whole, source')
    BY <1>1, <1>2, <1>3, PrefixGrows
  <1>5. IsPrefix(main \o <<"\n">> \o file, source')
    BY <1>4 DEF whole
  <1> QED
    BY <1>5 DEF FirstRead

\* One token more behind q, while the source is main's text.
LEMMA MoreOfMain ==
  ASSUME PassesInv, source = main, NEW q, NEW p, NEW l, NEW err, InOrder(main, q, p, l, err),
         NEW t, t = GetToken(main, p, l), t.type # "PAST"
  PROVE  /\ InOrder(main, Append(q, t), t.next, t.line, err \/ t.type = "ERROR")
         /\ q \in Seq(Token) /\ t \in Token
         /\ p \in 1 .. Len(main) + 2 /\ l \in Nat
  <1>1. source \in Seq(Symbols)
    BY DEF PassesInv
  <1>2. q \in Seq(Token) /\ Len(q) \in Nat /\ Len(q) + 1 \in 1 .. Len(q) + 1
    BY DEF InOrder
  <1>3. p \in 1 .. Len(source) + 2 /\ l \in Nat
    BY <1>2 DEF InOrder
  <1>4. t \in Token
    BY <1>1, <1>3, Got
  <1> QED
    BY <1>1, <1>2, <1>3, <1>4, OneMore

LEMMA FilesStep ==
  ASSUME PassesInv, FilesInv, [Next]_vars
  PROVE  FilesInv'
  <1> USE DEF NotEof
  <1>1. CASE FirstPass
    <2>1. phase = "first" /\ main' = main /\ main \in Seq(Symbols)
      BY <1>1 DEF FirstPass, Pass, PassInclude, Include, Lost, FilesInv
    <2>2. CASE \E q : FirstRead(q)
      <3>1. PICK q : FirstRead(q)
        BY <2>2
      <3>2. source' = source \/ \E u \in Seq(Symbols) : source' = source \o u
        <4>1. CASE Pass
          BY <4>1 DEF Pass
        <4>2. CASE PassInclude
          <5>1. CASE source' = source
            BY <5>1
          <5>2. CASE \E t, name : SubSeq(text, name.from, name.to) \in DOMAIN Files /\ Include(name)
            <6>1. PICK name : SubSeq(text, name.from, name.to) \in DOMAIN Files /\ Include(name)
              BY <5>2
            <6> DEFINE file == Files[SubSeq(text, name.from, name.to)]
            <6>2. file \in Seq(Symbols) /\ source \in Seq(Symbols) /\ <<"\n">> \in Seq(Symbols)
              BY <6>1, TextsAssumption DEF PassesInv, Symbols, Blanks
            <6>3. source' = source \o <<"\n">> \o file
              BY <6>1 DEF Include, Included
            <6> HIDE DEF file
            <6>4. source' = source \o (<<"\n">> \o file) /\ <<"\n">> \o file \in Seq(Symbols)
              BY <6>2, <6>3
            <6> QED
              BY <6>4
          <5> QED
            BY <4>2, <5>1, <5>2 DEF PassInclude, Lost
        <4> QED
          BY <1>1, <4>1, <4>2 DEF FirstPass
      <3>3. FirstRead(q)'
        BY <2>1, <3>1, <3>2, FirstReadStays
      <3> QED
        BY <2>1, <3>3 DEF FilesInv
    <2>3. CASE ~ \E q : FirstRead(q)
      <3>1. source = main /\ text = main
        BY <2>1, <2>3 DEF FilesInv
      <3>2. PICK q : /\ InOrder(main, q, current, line, hadError)
                     /\ Includes(q) = {} /\ Takes(q, Len(q) + 1)
                     /\ \A n \in DOMAIN q :
                           q[n].type = "EOF" => GetToken(main, current, line).type = "EOF"
        BY <2>1, <2>3 DEF FilesInv
      <3> DEFINE t == GetToken(main, current, line)
      <3>3. ASSUME t.type \notin {"EOF", "PAST"}
            PROVE  /\ InOrder(main, Append(q, t), t.next, t.line, hadError \/ t.type = "ERROR")
                   /\ q \in Seq(Token) /\ t \in Token /\ Len(q) \in Nat
                   /\ Len(Append(q, t)) = Len(q) + 1
                   /\ DOMAIN Append(q, t) = 1 .. Len(q) + 1
                   /\ Append(q, t)[Len(q) + 1] = t
                   /\ \A n \in 1 .. Len(q) + 1 : Append(q, t)[n].type # "EOF"
        <4> HIDE DEF t
        <4>1. /\ InOrder(main, Append(q, t), t.next, t.line, hadError \/ t.type = "ERROR")
              /\ q \in Seq(Token) /\ t \in Token
          BY <3>1, <3>2, <3>3, MoreOfMain DEF t
        <4>2. \A n \in DOMAIN q : q[n].type # "EOF"
          BY <3>2, <3>3 DEF t
        <4>3. /\ Len(q) \in Nat /\ DOMAIN q = 1 .. Len(q)
              /\ Len(Append(q, t)) = Len(q) + 1
              /\ DOMAIN Append(q, t) = 1 .. Len(q) + 1
              /\ Append(q, t)[Len(q) + 1] = t
              /\ \A n \in 1 .. Len(q) : Append(q, t)[n] = q[n]
          BY <4>1
        <4>4. \A n \in 1 .. Len(q) + 1 : n \in 1 .. Len(q) \/ n = Len(q) + 1
          BY <4>3
        <4> QED
          BY <3>3, <4>1, <4>2, <4>3, <4>4
      <3> HIDE DEF t
      <3>4. CASE Pass
        <4>1. NotEof(t) /\ t.type # "INCLUDE" /\ Go(t) /\ UNCHANGED <<main, source, text, phase>>
          BY <3>1, <3>4 DEF Pass, t
        <4>2. current' = t.next /\ line' = t.line /\ hadError' = (hadError \/ t.type = "ERROR")
          BY <4>1 DEF Go, Behind
        <4>3. Includes(Append(q, t)) = {} /\ Takes(Append(q, t), Len(q) + 2)
          BY <3>2, <3>3, <4>1, PassedOne
        <4>4. Len(Append(q, t)) + 1 = Len(q) + 2
          BY <3>3, <4>1
        <4> DEFINE r == Append(q, t)
        <4>5. /\ InOrder(main, r, current', line', hadError')
              /\ Includes(r) = {} /\ Takes(r, Len(r) + 1)
              /\ \A n \in DOMAIN r : r[n].type # "EOF"
          BY <3>3, <4>1, <4>2, <4>3, <4>4
        <4> HIDE DEF r
        <4> QED
          BY <2>1, <3>1, <4>1, <4>5 DEF FilesInv
      <3>5. CASE PassInclude
        <4> DEFINE name == GetToken(main, t.next, t.line)
                   r    == Append(q, t)
                   u    == Append(r, name)
                   file == SubSeq(main, name.from, name.to)
        <4>1. /\ t.type = "INCLUDE"
              /\ \/ name.type = "PAST" /\ Lost("past", hadError)
                 \/ /\ name.type \notin {"STRING", "PAST"}
                    /\ Go(name)
                    /\ UNCHANGED <<main, source, text, stale, wait, pending, given, phase>>
                 \/ name.type = "STRING" /\ Lost("crashed", TRUE)
                 \/ name.type = "STRING" /\ file \in DOMAIN Files /\ Include(name)
          BY <3>1, <3>5 DEF PassInclude, t
        <4>2. CASE Lost("past", hadError) \/ Lost("crashed", TRUE)
          BY <2>1, <4>2 DEF Lost, FilesInv
        <4>3. /\ InOrder(main, r, t.next, t.line, hadError \/ t.type = "ERROR")
              /\ q \in Seq(Token) /\ t \in Token /\ Len(q) \in Nat
              /\ Len(r) = Len(q) + 1 /\ DOMAIN r = 1 .. Len(q) + 1
              /\ \A n \in 1 .. Len(q) + 1 : r[n].type # "EOF"
          BY <3>3, <4>1
        <4> HIDE DEF r, name
        <4>4. ASSUME name.type # "PAST"
              PROVE  /\ InOrder(main, u, name.next, name.line, (hadError \/ t.type = "ERROR") \/ name.type = "ERROR")
                     /\ r \in Seq(Token) /\ name \in Token
                     /\ t.next \in 1 .. Len(main) + 2 /\ t.line \in Nat
                     /\ Len(u) = Len(q) + 2 /\ DOMAIN u = 1 .. Len(q) + 2 /\ u[Len(q) + 2] = name
                     /\ \A n \in 1 .. Len(q) + 1 : u[n].type # "EOF"
          <5>1. /\ InOrder(main, u, name.next, name.line, (hadError \/ t.type = "ERROR") \/ name.type = "ERROR")
                /\ r \in Seq(Token) /\ name \in Token
                /\ t.next \in 1 .. Len(main) + 2 /\ t.line \in Nat
            <6>1. name = GetToken(main, t.next, t.line)
              BY DEF name
            <6>2. InOrder(main, r, t.next, t.line, hadError \/ t.type = "ERROR")
              BY <4>3
            <6> QED
              BY ZenonT(30), <3>1, <4>4, <6>1, <6>2, MoreOfMain
          <5>2. /\ Len(u) = Len(q) + 2 /\ DOMAIN u = 1 .. Len(q) + 2 /\ u[Len(q) + 2] = name
                /\ \A n \in 1 .. Len(q) + 1 : u[n] = r[n]
            BY <4>3, <5>1
          <5> QED
            BY <4>3, <5>1, <5>2
        <4>5. CASE /\ name.type \notin {"STRING", "PAST"}
                   /\ Go(name)
                   /\ UNCHANGED <<main, source, text, stale, wait, pending, given, phase>>
          <5>1. Includes(u) = {} /\ Takes(u, Len(q) + 3)
            BY <3>2, <4>1, <4>3, <4>4, <4>5, PassedTwo DEF r
          <5>2. /\ current' = name.next /\ line' = name.line
                /\ hadError' = (hadError \/ name.type = "ERROR")
            BY <4>5 DEF Go, Behind
          <5>3. InOrder(main, u, current', line', hadError')
            <6>1. ((hadError \/ t.type = "ERROR") \/ name.type = "ERROR") = (hadError \/ name.type = "ERROR")
              BY <4>1
            <6> QED
              BY <4>4, <4>5, <5>2, <6>1
          <5>4. Len(u) + 1 = Len(q) + 3
            BY <4>3, <4>4, <4>5
          <5>5. name.type = "EOF" => GetToken(main, current', line').type = "EOF"
            BY <3>1, <4>4, <4>5, <5>2, EofAgain DEF name, PassesInv
          <5>6. ASSUME NEW n \in DOMAIN u, u[n].type = "EOF" PROVE GetToken(main, current', line').type = "EOF"
            <6>1. n = Len(q) + 2
              BY <4>3, <4>4, <4>5, <5>6
            <6> QED
              BY <4>4, <4>5, <5>5, <5>6, <6>1
          <5> HIDE DEF u
          <5>7. source' = main' /\ text' = main' /\ phase' = "first" /\ main' = main
            BY <2>1, <3>1, <4>5
          <5> QED
            BY <2>1, <5>1, <5>3, <5>4, <5>6, <5>7 DEF FilesInv
        <4>6. CASE name.type = "STRING" /\ file \in DOMAIN Files /\ Include(name)
          <5>1. Includes(u) = {Len(q) + 1}
            BY <3>2, <4>1, <4>3, <4>4, <4>6, PassedTwo DEF r
          <5>2. source' = main \o <<"\n">> \o Files[file] /\ main' = main /\ phase' = phase
            BY <3>1, <4>6 DEF Include, Included
          <5>3. Files[file] \in Seq(Symbols)
            BY <4>6, TextsAssumption
          <5>4. name.from > 0 /\ name.to <= Len(main)
            <6> DEFINE b == Begin(main, t.next)
                       w == [name EXCEPT !.line = 0]
            <6>1. /\ Extent(main, b, w)
                  /\ b \in t.next .. Len(main) + 1
              BY <3>1, <4>4, <4>6, Got DEF name, PassesInv
            <6>2. w.type = "STRING" /\ w.from = name.from /\ w.to = name.to
              BY <4>4, <4>6 DEF Token
            <6> HIDE DEF b, w
            <6>3. name.from > 0 /\ name.to + 2 <= Len(main) + 1 /\ name.to \in Nat
              BY SMTT(30), <4>4, <4>6, <6>1, <6>2, <2>1 DEF Extent, First1, Ends, Last1, Quoted
            <6> QED
              BY <2>1, <6>3
          <5>5. IsPrefix(main \o <<"\n">> \o Files[file], source')
            BY <5>2 DEF IsPrefix
          <5>6. u[Len(u)] = name /\ Len(u) > 1 /\ Len(u) - 1 = Len(q) + 1
            BY <4>3, <4>4, <4>6
          <5>7. \A n \in DOMAIN u : u[n].type # "EOF"
            <6>1. \A n \in DOMAIN u : n \in 1 .. Len(q) + 1 \/ n = Len(q) + 2
              BY <4>3, <4>4, <4>6
            <6> QED
              BY <4>4, <4>6, <6>1
          <5>8. \E p, l, err : InOrder(main, u, p, l, err)
            BY <4>4, <4>6
          <5> HIDE DEF u
          <5>9. PICK v : v = u
            OBVIOUS
          <5>10. FirstRead(v)'
            <6>1. SubSeq(main, v[Len(v)].from, v[Len(v)].to) = file
              BY <5>6, <5>9
            <6>2. Includes(v) = {Len(v) - 1}
              BY <5>1, <5>6, <5>9
            <6> HIDE DEF file
            <6>3. /\ \E p, l, err : InOrder(main', v, p, l, err)
                  /\ \A n \in DOMAIN v : v[n].type # "EOF"
                  /\ Len(v) > 1 /\ Includes(v) = {Len(v) - 1}
                  /\ v[Len(v)].from > 0 /\ v[Len(v)].to <= Len(main')
                  /\ Files[SubSeq(main', v[Len(v)].from, v[Len(v)].to)] \in Seq(Symbols)
                  /\ IsPrefix(main' \o <<"\n">> \o Files[SubSeq(main', v[Len(v)].from, v[Len(v)].to)], source')
              BY <5>2, <5>3, <5>4, <5>5, <5>6, <5>7, <5>8, <5>9, <6>1, <6>2
            <6> QED
              BY <6>3 DEF FirstRead
          <5> QED
            BY <2>1, <5>2, <5>10 DEF FilesInv
        <4> QED
          BY <4>1, <4>2, <4>5, <4>6
      <3> QED
        BY <1>1, <3>4, <3>5 DEF FirstPass
    <2> QED
      BY <2>2, <2>3
  <1>2. CASE Reset
    <2>1. /\ phase = "first" /\ phase' = "second" /\ UNCHANGED <<main, source>>
          /\ GetToken(text, current, line).type = "EOF" /\ main \in Seq(Symbols)
      BY <1>2 DEF Reset, FilesInv
    <2>2. CASE \E q : FirstRead(q)
      <3>1. PICK q : FirstRead(q)
        BY <2>2
      <3>2. FirstRead(q)'
        BY <2>1, <3>1, FirstReadStays
      <3> QED
        BY <2>1, <3>2 DEF FilesInv
    <2>3. CASE ~ \E q : FirstRead(q)
      BY <2>1, <2>3 DEF FilesInv
    <2> QED
      BY <2>2, <2>3
  <1>3. CASE ReadPast
    BY <1>3 DEF ReadPast, Lost, FilesInv
  <1>4. ASSUME phase = "second", UNCHANGED <<main, source, phase>> PROVE FilesInv'
    <2>1. CASE \E q : FirstRead(q)
      <3>1. PICK q : FirstRead(q)
        BY <2>1
      <3>2. FirstRead(q)'
        BY <1>4, <3>1, FirstReadStays
      <3> QED
        BY <1>4, <3>2 DEF FilesInv
    <2>2. CASE ~ \E q : FirstRead(q)
      BY <1>4, <2>2 DEF FilesInv
    <2> QED
      BY <2>1, <2>2
  <1>5. CASE Lookahead \/ TakePending \/ TakeNext
    BY <1>4, <1>5 DEF Lookahead, TakePending, TakeNext, Ready
  <1>6. CASE UNCHANGED vars
    <2>1. UNCHANGED <<main, source, text, current, line, hadError, phase>>
      BY <1>6 DEF vars
    <2> QED
      BY <2>1 DEF FilesInv, FirstRead
  <1> QED
    BY <1>1, <1>2, <1>3, <1>5, <1>6 DEF Next

LEMMA FilesHolds == Spec => [](PassesInv /\ FilesInv)
  <1>1. Init => FilesInv
    <2> SUFFICES ASSUME Init PROVE FilesInv
      OBVIOUS
    <2>1. /\ main \in Seq(Symbols) /\ source = main /\ text = main /\ phase = "first"
          /\ current = 1 /\ line = 1
      BY TextsAssumption DEF Init
    <2>2. InOrder(main, <<>>, current, line, hadError)
      BY <2>1, NoneYet
    <2>3. Includes(<<>>) = {} /\ Takes(<<>>, Len(<<>>) + 1)
      <3>1. Len(<<>>) = 0
        OBVIOUS
      <3>2. Includes(<<>>) = {}
        BY <3>1 DEF Includes
      <3>3. Takes(<<>>, 1)
        BY DEF Takes
      <3> QED
        BY <3>1, <3>2, <3>3
    <2>4. \A n \in DOMAIN <<>> : FALSE
      OBVIOUS
    <2> QED
      BY <2>1, <2>2, <2>3, <2>4 DEF FilesInv
  <1>2. PassesInv /\ FilesInv /\ [Next]_vars => FilesInv'
    BY FilesStep
  <1> QED
    BY <1>1, <1>2, PassesHolds, PTL DEF Spec

LEMMA SameSlice ==
  ASSUME NEW m \in Seq(Symbols), NEW s \in Seq(Symbols), Len(m) <= Len(s),
         \A i \in 1 .. Len(m) : s[i] = m[i],
         NEW f \in Nat, f > 0, NEW t \in Nat, t <= Len(m)
  PROVE  SubSeq(s, f, t) = SubSeq(m, f, t)
  OBVIOUS

LEMMA FirstIsRead ==
  ASSUME PassesInv, FilesInv
  PROVE  FirstIncludeIsRead
  <1> SUFFICES ASSUME phase = "second"
               PROVE  /\ IsPrefix(main, source)
                      /\ IncludesIn(Len(main) + 1) = {} \/
                           IsPrefix(main \o <<"\n">> \o TextOf(Min(IncludesIn(Len(main) + 1)) + 1), source)
    BY DEF FirstIncludeIsRead
  <1>1. /\ main \in Seq(Symbols) /\ source \in Seq(Symbols) /\ InOrder(source, Seen, current, line, hadError)
        /\ Len(main) \in Nat /\ Len(source) \in Nat /\ <<"\n">> \in Seq(Symbols)
    BY DEF PassesInv, FilesInv, Symbols, Blanks
  <1> DEFINE v == Seen
  <1>2. v \in Seq(Token) /\ Len(v) \in Nat /\ DOMAIN v = 1 .. Len(v)
    BY <1>1 DEF InOrder
  <1>3. InOrder(source, v, current, line, hadError)
    BY <1>1
  <1>4. IncludesIn(Len(main) + 1) = {i \in Includes(v) : v[i + 1].to < Len(main) + 1}
    BY DEF IncludesIn
  <1>5. \A i : TextOf(i) = Files[SubSeq(source, v[i].from, v[i].to)]
    BY DEF TextOf
  <1> HIDE DEF v
  <1>6. ASSUME NEW q, q \in Seq(Token), NEW k \in Includes(v), k + 1 <= Len(q), Len(q) <= Len(v) \/ k + 1 <= Len(v),
               \A n \in 1 .. Len(q) : n <= Len(v) => v[n] = q[n]
        PROVE  k \in Includes(q)
    <2>1. k \in 1 .. Len(v) - 1 /\ v[k].type = "INCLUDE" /\ v[k + 1].type = "STRING" /\ Takes(v, k)
      BY DEF Includes
    <2>2. Len(q) \in Nat /\ k \in 1 .. Len(q) - 1 /\ k + 1 \in 1 .. Len(q) /\ k + 1 <= Len(v) /\ k <= Len(v)
      BY <1>2, <1>6, <2>1
    <2>3. v[k] = q[k] /\ v[k + 1] = q[k + 1] /\ \A n \in 1 .. k - 1 : v[n] = q[n]
      BY <1>2, <1>6, <2>2
    <2>4. Takes(q, k)
      BY <2>1, <2>2, <2>3, TakesAlike
    <2> QED
      BY <2>1, <2>2, <2>3, <2>4 DEF Includes
  <1>7. CASE \E q : FirstRead(q)
    <2>1. PICK q : FirstRead(q)
      BY <1>7
    <2> DEFINE name == SubSeq(main, q[Len(q)].from, q[Len(q)].to)
               whole == main \o <<"\n">> \o Files[name]
    <2>2. PICK p, l, err : InOrder(main, q, p, l, err)
      BY <2>1 DEF FirstRead
    <2>3. q \in Seq(Token) /\ Len(q) \in Nat /\ Len(q) > 1 /\ DOMAIN q = 1 .. Len(q)
      BY <2>1, <2>2 DEF FirstRead, InOrder
    <2>4. whole \in Seq(Symbols) /\ IsPrefix(whole, source)
      BY <1>1, <2>1 DEF FirstRead
    <2>5. /\ Len(whole) \in Nat /\ Len(main) + 1 <= Len(whole)
          /\ \A i \in 1 .. Len(main) : whole[i] = main[i]
          /\ whole[Len(main) + 1] = "\n"
      <3>1. Files[name] \in Seq(Symbols)
        BY <2>1 DEF FirstRead
      <3> DEFINE file == Files[name]
      <3>2. file \in Seq(Symbols)
        BY <3>1
      <3> HIDE DEF file
      <3>3. /\ Len(main \o <<"\n">> \o file) \in Nat /\ Len(main) + 1 <= Len(main \o <<"\n">> \o file)
            /\ \A i \in 1 .. Len(main) : (main \o <<"\n">> \o file)[i] = main[i]
            /\ (main \o <<"\n">> \o file)[Len(main) + 1] = "\n"
        BY <1>1, <3>2
      <3> QED
        BY <3>3 DEF file
    <2> HIDE DEF whole, name
    <2>6. Len(whole) <= Len(source) /\ \A i \in 1 .. Len(whole) : source[i] = whole[i]
      BY <1>1, <2>4, PrefixParts
    <2>7. Longer(main, source)
      <3>1. Len(main) + 1 \in 1 .. Len(whole) /\ \A i \in 1 .. Len(main) : i \in 1 .. Len(whole)
        BY <1>1, <2>5
      <3>2. Len(main) < Len(source)
        BY <1>1, <2>5, <2>6
      <3> QED
        BY <1>1, <2>5, <2>6, <3>1, <3>2 DEF Longer
    <2>8. \A n \in 1 .. Len(q) : n <= Len(v) => v[n] = q[n]
      BY <1>1, <1>3, <2>1, <2>2, <2>7, SameTokens DEF FirstRead
    <2>9. IsPrefix(main, source)
      BY <1>1, <2>7, PrefixParts DEF Longer
    <2> DEFINE S == IncludesIn(Len(main) + 1)
    <2>10. ASSUME NEW k \in S PROVE k >= Len(q) - 1 /\ Len(q) <= Len(v) /\ k \in Nat
      <3>1. k \in Includes(v) /\ k \in 1 .. Len(v) - 1
        BY <1>4, <2>10 DEF Includes
      <3>2. CASE k + 1 <= Len(q)
        <4>1. k \in Includes(q)
          BY <1>2, <1>6, <2>3, <2>8, <3>1, <3>2
        <4>2. k = Len(q) - 1
          BY <2>1, <4>1 DEF FirstRead
        <4> QED
          BY <1>2, <2>3, <3>1, <4>2
      <3>3. CASE ~(k + 1 <= Len(q))
        BY <1>2, <2>3, <3>1, <3>3
      <3> QED
        BY <3>2, <3>3
    <2>11. CASE S = {}
      BY <2>9, <2>11
    <2>12. CASE S # {}
      <3>1. Len(q) <= Len(v)
        BY <2>10, <2>12
      <3> DEFINE i == Len(q) - 1
      <3>2. i \in Includes(q)
        BY <2>1 DEF FirstRead
      <3>3. i \in 1 .. Len(q) - 1 /\ q[i].type = "INCLUDE" /\ q[i + 1].type = "STRING" /\ Takes(q, i)
        BY <3>2 DEF Includes
      <3>4. i \in Nat /\ i + 1 = Len(q) /\ i \in 1 .. Len(v) - 1
        BY <1>2, <2>3, <3>1
      <3>5. v[i] = q[i] /\ v[i + 1] = q[i + 1] /\ \A n \in 1 .. i - 1 : v[n] = q[n]
        <4>1. i \in 1 .. Len(q) /\ i <= Len(v) /\ i + 1 \in 1 .. Len(q) /\ i + 1 <= Len(v)
              /\ \A n \in 1 .. i - 1 : n \in 1 .. Len(q) /\ n <= Len(v)
          BY <1>2, <2>3, <3>1
        <4> QED
          BY <2>8, <4>1
      <3>6. Takes(v, i)
        BY <3>3, <3>4, <3>5, TakesAlike
      <3>7. i \in Includes(v)
        BY <3>3, <3>4, <3>5, <3>6 DEF Includes
      <3>8. q[Len(q)].to \in Nat /\ q[Len(q)].from \in Nat /\ q[Len(q)].to <= Len(main) /\ q[Len(q)].from > 0
        <4>1. q[Len(q)] \in Token
          BY <2>3
        <4> QED
          BY <2>1, <4>1 DEF FirstRead, Token
      <3>9. i \in S
        BY <1>1, <1>4, <3>4, <3>5, <3>7, <3>8
      <3>10. Min(S) = i
        <4>1. S \in SUBSET Nat
          BY <2>10
        <4> HIDE DEF S
        <4>2. Min(S) \in S /\ \A n \in S : Min(S) <= n
          BY <3>9, <4>1, MinIsLeast
        <4>3. Min(S) >= i /\ Min(S) <= i /\ Min(S) \in Nat
          BY <2>10, <3>9, <4>2
        <4> QED
          BY <3>4, <4>3
      <3>11. TextOf(i + 1) = Files[name]
        <4>1. TextOf(i + 1) = Files[SubSeq(source, q[Len(q)].from, q[Len(q)].to)]
          BY <1>5, <3>4, <3>5
        <4>2. SubSeq(source, q[Len(q)].from, q[Len(q)].to) = name
          <5> DEFINE f == q[Len(q)].from
                     t == q[Len(q)].to
          <5>1. /\ f \in Nat /\ f > 0 /\ t \in Nat /\ t <= Len(main)
                /\ Len(main) <= Len(source) /\ \A n \in 1 .. Len(main) : source[n] = main[n]
            BY <1>1, <2>7, <3>8 DEF Longer
          <5> HIDE DEF f, t
          <5>2. SubSeq(source, f, t) = SubSeq(main, f, t)
            BY <1>1, <5>1, SameSlice
          <5> QED
            BY <5>2 DEF name, f, t
        <4> QED
          BY <4>1, <4>2
      <3>12. IsPrefix(main \o <<"\n">> \o TextOf(Min(S) + 1), source)
        BY <2>4, <3>10, <3>11 DEF whole
      <3> QED
        BY <2>9, <3>12
    <2> QED
      BY <2>11, <2>12
  <1>8. CASE ~ \E q : FirstRead(q)
    <2>1. source = main
      BY <1>8 DEF FilesInv
    <2>2. PICK q, p, l, err : /\ InOrder(main, q, p, l, err) /\ Includes(q) = {}
                              /\ GetToken(main, p, l).type = "EOF"
      BY <1>8 DEF FilesInv
    <2>3. q \in Seq(Token) /\ Len(q) \in Nat /\ DOMAIN q = 1 .. Len(q)
      BY <2>2 DEF InOrder
    <2>4. \A n \in 1 .. Len(q) : n <= Len(v) => v[n] = q[n]
      BY <1>1, <1>3, <2>1, <2>2, SameTokens
    <2>5. IsPrefix(main, source)
      BY <2>1 DEF IsPrefix
    <2>6. ASSUME NEW k \in Includes(v) PROVE FALSE
      <3>1. k \in 1 .. Len(v) - 1 /\ v[k].type = "INCLUDE" /\ v[k + 1].type = "STRING"
        BY <2>6 DEF Includes
      <3>2. CASE k + 1 <= Len(q)
        <4>1. k \in Includes(q)
          BY <1>2, <1>6, <2>3, <2>4, <3>1, <3>2
        <4> QED
          BY <2>2, <4>1
      <3>3. CASE ~(k + 1 <= Len(q))
        <4> DEFINE e == Len(q) + 1
        <4>1. e \in 1 .. Len(v) /\ k + 1 \in e .. Len(v)
          BY <1>2, <2>3, <3>1, <3>3
        <4>2. PositionIn(v, e) = PositionIn(q, e) /\ LineIn(v, e) = LineIn(q, e)
          <5>1. CASE e = 1
            BY <5>1 DEF PositionIn, LineIn
          <5>2. CASE e # 1
            <6>1. e - 1 = Len(q) /\ Len(q) \in 1 .. Len(q) /\ Len(q) <= Len(v)
              BY <1>2, <2>3, <4>1, <5>2
            <6>2. v[e - 1] = q[e - 1]
              BY <2>4, <6>1
            <6> QED
              BY <5>2, <6>2 DEF PositionIn, LineIn
          <5> QED
            BY <5>1, <5>2
        <4>3. v[e] = GetToken(main, PositionIn(q, e), LineIn(q, e))
          BY <1>2, <1>3, <2>1, <4>1, <4>2 DEF InOrder
        <4>4. p = PositionIn(q, e) /\ l = LineIn(q, e)
          BY <2>2 DEF InOrder
        <4>5. v[e].type = "EOF"
          BY <2>2, <4>3, <4>4
        <4>6. v[k + 1].type = "EOF"
          <5> HIDE DEF e
          <5> QED
            BY <1>1, <1>3, <4>1, <4>5, BehindEof
        <4> QED
          BY <3>1, <4>6
      <3> QED
        BY <3>2, <3>3
    <2>7. IncludesIn(Len(main) + 1) = {}
      BY <1>4, <2>6
    <2> QED
      BY <2>5, <2>7
  <1> QED
    BY <1>7, <1>8

\* The source that the parser gets begins with main's text, and behind a new line
\* the file of its first INCLUDE comes next, for every source, every set of files
\* and whatever the memory that include() frees is used for (init_lexer, include).
THEOREM IncludesTheFirst == Spec => []FirstIncludeIsRead
  <1>1. PassesInv /\ FilesInv => FirstIncludeIsRead
    BY FirstIsRead
  <1> QED
    BY <1>1, FilesHolds, PTL

-----------------------------------------------------------------------------
(* Types, in whatever memory get_token reads.                              *)

HasType(t) ==
    /\ t = Lexeme(t.type, t.from, t.to, t.next)
    /\ t.type \in TokenType
    /\ t.type # "PAST" => t.next \in Nat \ {0}

LEMMA MakesType ==
  ASSUME NEW type \in TokenType, NEW from, NEW to, NEW next, type # "PAST" => next \in Nat \ {0}
  PROVE  HasType(Lexeme(type, from, to, next))
  BY DEF HasType, Lexeme

LEMMA AtTypes ==
  ASSUME NEW s \in Seq(Symbols), NEW b \in 1 .. Len(s) + 1, ~Skipped(s, b)
  PROVE  HasType(TokenAt(s, b))
  <1> DEFINE t == TokenAt(s, b)
  <1>1. Len(s) \in Nat /\ b \in Nat \ {0}
    OBVIOUS
  <1>2. \A type \in TokenType : \A from, to, next :
           next \in Nat \ {0} => HasType(Lexeme(type, from, to, next))
    BY MakesType
  <1>3. /\ "EOF" \in TokenType /\ "ERROR" \in TokenType /\ "STRING" \in TokenType /\ "CHARACTER" \in TokenType
        /\ "STRING_VARIABLE" \in TokenType /\ "!=" \in TokenType /\ "NUMBER" \in TokenType
        /\ "NUMERIC_VARIABLE" \in TokenType /\ "LABEL" \in TokenType /\ "IDENTIFIER" \in TokenType
        /\ "INCLUDE" \in TokenType /\ "CLS" \in TokenType /\ \A o \in Operators : o \in TokenType
    BY DEF TokenType, Types
  <1>13. HasType(Past)
    <2>1. "PAST" \in TokenType
      BY DEF TokenType
    <2> QED
      BY <2>1, MakesType DEF Past
  <1>4. \/ b = Len(s) + 1 /\ t = Lexeme("EOF", b, b - 1, b)
        \/ /\ b \in 1 .. Len(s)
           /\ \/ s[b] \in Operators /\ t = Lexeme(s[b], b, b, b + 1)
              \/ s[b] = "quote" /\ t = String(s, b)
              \/ s[b] = "'" /\ t = Character(s, b)
              \/ s[b] = "$" /\ t = StringVariable(s, b)
              \/ s[b] = "!" /\ t = Bang(s, b)
              \/ s[b] \in Digits /\ t = Number(s, b)
              \/ s[b] \in Letters \cup Runs \cup {":", "("} /\ t = Word(s, b)
    BY <1>1, TokenCases
  <1> SUFFICES HasType(t)
    OBVIOUS
  <1> HIDE DEF t
  <1>5. b + 1 \in Nat \ {0} /\ b + 2 \in Nat \ {0} /\ b + 3 \in Nat \ {0}
    BY <1>1
  <1>6. CASE t = Lexeme("EOF", b, b - 1, b)
    BY <1>1, <1>2, <1>3, <1>6
  <1>7. CASE s[b] \in Operators /\ t = Lexeme(s[b], b, b, b + 1)
    BY <1>2, <1>3, <1>5, <1>7
  <1>8. CASE t = String(s, b)
    <2> DEFINE end == Next1(s, b + 1, {"quote"})
               newline == Next1(s, b + 2, {"\n"})
    <2>1. newline \in Nat \ {0} /\ end + 1 \in Nat \ {0}
      BY <1>1, <1>5, NextParts
    <2>2. t = IF newline < end THEN Error(b + 1, newline)
              ELSE IF end > Len(s) THEN Past ELSE Lexeme("STRING", b + 1, end - 1, end + 1)
      BY <1>8 DEF String, Closed
    <2> HIDE DEF end, newline
    <2> QED
      BY <1>13, <1>2, <1>3, <2>1, <2>2 DEF Error
  <1>9. CASE t = Character(s, b)
    BY <1>13, <1>2, <1>3, <1>5, <1>9 DEF Character, Error
  <1>10. CASE t = StringVariable(s, b) \/ t = Bang(s, b)
    BY <1>2, <1>3, <1>5, <1>10 DEF StringVariable, Bang, Error
  <1>11. CASE t = Number(s, b)
    <2>1. NumberEnd(s, b) \in Nat \ {0}
      BY <1>1, NumberParts
    <2> QED
      BY <1>2, <1>3, <1>11, <2>1 DEF Number
  <1>12. CASE /\ b \in 1 .. Len(s) /\ s[b] \in Letters \cup Runs \cup {":", "("}
              /\ t = Word(s, b)
    <2> DEFINE end == WordEnd(s, b)
    <2>1. end \in Nat \ {0} /\ IsWhite(At(s, end))
      BY <1>1, WordParts
    <2>2. t = IF s[b] \notin Runs /\ end = b + 1
              THEN IF s[b] \in Letters THEN Lexeme("NUMERIC_VARIABLE", b, b, b + 1) ELSE Error(b, b + 1)
              ELSE IF s[end - 1] = ":" THEN Lexeme("LABEL", b, end - 2, end)
              ELSE IF end = b + 1 /\ s[b] \in DOMAIN Keyword THEN Lexeme(Keyword[s[b]], b, b, end)
              ELSE Lexeme("IDENTIFIER", b, end - 1, end)
      BY <1>12 DEF Word
    <2> HIDE DEF end
    <2>3. end = b + 1 => s[b] # "REM"
      <3>1. At(s, b) = s[b]
        BY <1>12, Holds
      <3> QED
        BY <2>1, <3>1 DEF Skipped, IsRem
    <2>4. end = b + 1 /\ s[b] \in DOMAIN Keyword => Keyword[s[b]] \in {"INCLUDE", "CLS"}
      BY <2>3 DEF Keyword
    <2> QED
      BY <1>2, <1>3, <1>5, <2>1, <2>2, <2>4 DEF Error
  <1> QED
    BY <1>4, <1>6, <1>7, <1>8, <1>9, <1>10, <1>11, <1>12

LEMMA GetTypes ==
  ASSUME NEW s \in Seq(Symbols), NEW p \in Nat \ {0}, NEW l \in Nat \ {0},
         NEW t, t = GetToken(s, p, l)
  PROVE  t.type \in TokenType /\ (t.type # "PAST" => t.next \in Nat \ {0} /\ t.line \in Nat \ {0})
  <1> DEFINE b == IF p > Len(s) + 1 THEN p ELSE Begin(s, p)
             u == IF b > Len(s) + 1 THEN Past ELSE TokenAt(s, b)
  <1>1. Len(s) \in Nat
    OBVIOUS
  <1>2. t = [u EXCEPT !.line = l + Newlines(s, p, b - 1)]
    BY DEF GetToken
  <1>3. HasType(Past)
    BY DEF HasType, Past, Lexeme, TokenType
  <1>4. ~(p > Len(s) + 1) => BeginsAt(s, p, b)
    BY <1>1, ScanIs
  <1>5. b \in Nat /\ p <= b
    BY <1>1, <1>4 DEF BeginsAt
  <1>6. ~(b > Len(s) + 1) => HasType(TokenAt(s, b))
    <2> SUFFICES ASSUME ~(b > Len(s) + 1) PROVE HasType(TokenAt(s, b))
      OBVIOUS
    <2> HIDE DEF b
    <2>1. ~(p > Len(s) + 1)
      BY <1>1, <1>5
    <2>2. ~Skipped(s, b) /\ b \in 1 .. Len(s) + 1
      BY <1>1, <1>4, <1>5, <2>1 DEF BeginsAt
    <2> QED
      BY <2>2, AtTypes
  <1>7. HasType(u)
    BY <1>3, <1>6
  <1>8. Newlines(s, p, b - 1) \in Nat
    <2> HIDE DEF b
    <2>1. CASE b = 0
      BY <1>5, <2>1
    <2>2. CASE b # 0
      <3>1. p \in Nat /\ b - 1 \in Nat /\ p <= p /\ p <= (b - 1) + 1
        BY <1>5, <2>2
      <3> QED
        BY <3>1, NewlinesAdd
    <2> QED
      BY <2>1, <2>2
  <1> HIDE DEF b, u
  <1>9. u = [type |-> u.type, from |-> u.from, to |-> u.to, next |-> u.next, line |-> 0]
    BY <1>7 DEF HasType, Lexeme
  <1>10. t = [type |-> u.type, from |-> u.from, to |-> u.to, next |-> u.next,
              line |-> l + Newlines(s, p, b - 1)]
    <2>1. [u EXCEPT !.line = l + Newlines(s, p, b - 1)] =
             [type |-> u.type, from |-> u.from, to |-> u.to, next |-> u.next, line |-> l + Newlines(s, p, b - 1)]
      BY <1>9, WithLine
    <2> QED
      BY <1>2, <2>1
  <1>11. t.type = u.type /\ t.next = u.next /\ t.line = l + Newlines(s, p, b - 1)
    BY <1>10
  <1> QED
    BY <1>7, <1>8, <1>11 DEF HasType

\* Both memories hold sequences; TypeOK is about their symbols.
TextsInv == source \in Seq(Symbols) /\ text \in Seq(Symbols)

LEMMA TypesStep ==
  ASSUME TextsInv, TypeOK, [Next]_vars
  PROVE  TypeOK' /\ TextsInv'
  <1>1. ASSUME NEW s \in Seq(Symbols) PROVE ToSet(s) \subseteq Symbols
    BY DEF ToSet
  <1>2. /\ source \in Seq(Symbols) /\ text \in Seq(Symbols) /\ current \in Nat \ {0} /\ line \in Nat \ {0}
        /\ wait \in BOOLEAN /\ stale \in BOOLEAN /\ hadError \in BOOLEAN
        /\ pending.type \in TokenType /\ \A t \in ToSet(given) : t.type \in TokenType
        /\ phase \in {"first", "second", "past", "crashed"}
        /\ phase = "second" => ~stale /\ text = source
    BY DEF TextsInv, TypeOK
  <1>3. ASSUME NEW p \in Nat \ {0}, NEW l \in Nat \ {0}, NEW t, t = GetToken(text, p, l), t.type # "PAST", Go(t)
        PROVE  current' \in Nat \ {0} /\ line' \in Nat \ {0} /\ hadError' \in BOOLEAN /\ t.type \in TokenType
    <2>1. t.type \in TokenType /\ t.next \in Nat \ {0} /\ t.line \in Nat \ {0}
      BY <1>2, <1>3, GetTypes
    <2> QED
      BY <1>2, <1>3, <2>1 DEF Go, Behind
  <1>4. CASE UNCHANGED <<source, text, stale, wait, pending, given, phase>> /\
             current' \in Nat \ {0} /\ line' \in Nat \ {0} /\ hadError' \in BOOLEAN
    BY <1>2, <1>4 DEF TypeOK, TextsInv
  <1>5. ASSUME NEW where \in {"past", "crashed"}, NEW err \in BOOLEAN, Lost(where, err)
        PROVE  TypeOK' /\ TextsInv'
    BY <1>2, <1>5 DEF Lost, TypeOK, TextsInv
  <1>6. CASE Pass
    <2>1. PICK t : t = GetToken(text, current, line) /\ t.type # "PAST" /\ Go(t)
      BY <1>6 DEF Pass, NotEof
    <2>2. UNCHANGED <<source, text, stale, wait, pending, given, phase>>
      BY <1>6 DEF Pass
    <2> QED
      BY <1>2, <1>3, <1>4, <2>1, <2>2
  <1>7. CASE phase = "first" /\ PassInclude
    <2>1. PICK t : /\ t = GetToken(text, current, line) /\ t.type = "INCLUDE"
                   /\ \E name \in {GetToken(text, t.next, t.line)} :
                        \/ Lost("past", hadError)
                        \/ /\ name.type # "PAST" /\ Go(name)
                           /\ UNCHANGED <<main, source, text, stale, wait, pending, given, phase>>
                        \/ Lost("crashed", TRUE)
                        \/ /\ name.type = "STRING" /\ SubSeq(text, name.from, name.to) \in DOMAIN Files
                           /\ Include(name)
      BY <1>7 DEF PassInclude
    <2>2. t.next \in Nat \ {0} /\ t.line \in Nat \ {0}
      BY <1>2, <2>1, GetTypes
    <2>3. PICK name : /\ name = GetToken(text, t.next, t.line)
                      /\ \/ Lost("past", hadError)
                         \/ /\ name.type # "PAST" /\ Go(name)
                            /\ UNCHANGED <<main, source, text, stale, wait, pending, given, phase>>
                         \/ Lost("crashed", TRUE)
                         \/ /\ name.type = "STRING" /\ SubSeq(text, name.from, name.to) \in DOMAIN Files
                            /\ Include(name)
      BY <2>1
    <2>4. CASE Lost("past", hadError) \/ Lost("crashed", TRUE)
      BY <1>2, <1>5, <2>4
    <2>5. CASE /\ name.type # "PAST" /\ Go(name)
               /\ UNCHANGED <<main, source, text, stale, wait, pending, given, phase>>
      BY <1>3, <1>4, <2>2, <2>3, <2>5
    <2>6. CASE /\ name.type = "STRING" /\ SubSeq(text, name.from, name.to) \in DOMAIN Files
               /\ Include(name)
      <3>1. current' \in Nat \ {0} /\ line' \in Nat \ {0} /\ hadError' \in BOOLEAN
        BY <1>3, <2>2, <2>3, <2>6 DEF Include
      <3> DEFINE file == Files[SubSeq(text, name.from, name.to)]
      <3>2. file \in Seq(Symbols) /\ <<"\n">> \in Seq(Symbols)
        BY <2>6, TextsAssumption DEF Symbols, Blanks
      <3>3. source' = source \o <<"\n">> \o file
        BY <2>6 DEF Include, Included
      <3>4. text' \in Seq(Symbols)
        BY <1>2, <2>6, TextsAssumption DEF Include
      <3> HIDE DEF file
      <3>5. source' \in Seq(Symbols)
        BY <1>2, <3>2, <3>3
      <3>6. ToSet(source') \subseteq Symbols /\ ToSet(text') \subseteq Symbols
        BY <1>1, <3>4, <3>5
      <3>7. stale' = TRUE /\ wait' = wait /\ pending' = pending /\ given' = given /\ phase' = "first"
        BY <1>7, <2>6 DEF Include
      <3> QED
        BY <1>2, <3>1, <3>4, <3>5, <3>6, <3>7 DEF TypeOK, TextsInv
    <2> QED
      BY <2>3, <2>4, <2>5, <2>6
  <1>8. CASE Reset
    <2>1. PICK t : t = GetToken(text, current, line) /\ pending' = t
      BY <1>8 DEF Reset
    <2>2. pending'.type \in TokenType
      BY <1>2, <2>1, GetTypes
    <2>3. /\ source' = source /\ text' = source /\ stale' = FALSE /\ current' = 1 /\ line' = 1
          /\ wait' = FALSE /\ given' = given /\ hadError' = hadError /\ phase' = "second"
      BY <1>8 DEF Reset, WaitsAfterReset
    <2>4. ToSet(source) \subseteq Symbols
      BY <1>1, <1>2
    <2>5. {wait', stale', hadError'} \subseteq BOOLEAN
      BY <1>2, <2>3
    <2>6. \A u \in {pending'} \cup ToSet(given') : u.type \in TokenType
      BY <1>2, <2>2, <2>3
    <2> QED
      BY <1>2, <2>3, <2>4, <2>5, <2>6 DEF TypeOK, TextsInv
  <1>9. CASE ReadPast
    BY <1>2, <1>5, <1>9 DEF ReadPast
  <1>10. CASE Lookahead
    <2>1. PICK t : t = GetToken(text, current, line) /\ t.type # "PAST" /\ Go(t) /\ pending' = t
      BY <1>10 DEF Lookahead, Ready
    <2>2. /\ current' \in Nat \ {0} /\ line' \in Nat \ {0} /\ hadError' \in BOOLEAN /\ pending'.type \in TokenType
      BY <1>2, <1>3, <2>1
    <2>3. UNCHANGED <<source, text, stale, given, phase>> /\ wait' = TRUE
      BY <1>10 DEF Lookahead
    <2> QED
      BY <1>2, <2>2, <2>3 DEF TypeOK, TextsInv
  <1>11. ASSUME NEW t, t.type \in TokenType, given' = Append(given, t)
         PROVE  \A u \in ToSet(given') : u.type \in TokenType
    <2>1. \A u \in ToSet(Append(given, t)) : u \in ToSet(given) \/ u = t
      BY DEF ToSet
    <2> QED
      BY <1>2, <1>11, <2>1
  <1>12. CASE TakePending
    <2>1. UNCHANGED <<source, text, stale, current, line, pending, hadError, phase>> /\ wait' = FALSE
      BY <1>12 DEF TakePending
    <2>2. \A u \in ToSet(given') : u.type \in TokenType
      BY <1>2, <1>11, <1>12 DEF TakePending
    <2> QED
      BY <1>2, <2>1, <2>2 DEF TypeOK, TextsInv
  <1>13. CASE TakeNext
    <2>1. PICK t : t = GetToken(text, current, line) /\ t.type # "PAST" /\ Go(t) /\ given' = Append(given, t)
      BY <1>13 DEF TakeNext, Ready
    <2>2. /\ current' \in Nat \ {0} /\ line' \in Nat \ {0} /\ hadError' \in BOOLEAN /\ t.type \in TokenType
      BY <1>2, <1>3, <2>1
    <2>3. UNCHANGED <<source, text, stale, wait, pending, phase>>
      BY <1>13 DEF TakeNext
    <2>4. \A u \in ToSet(given') : u.type \in TokenType
      BY <1>11, <2>1, <2>2
    <2> QED
      BY <1>2, <2>2, <2>3, <2>4 DEF TypeOK, TextsInv
  <1>14. CASE UNCHANGED vars
    BY <1>2, <1>14 DEF vars, TypeOK, TextsInv
  <1> QED
    BY <1>6, <1>7, <1>8, <1>9, <1>10, <1>12, <1>13, <1>14 DEF Next, FirstPass

\* The types of the lexer's state, in memory that include() has freed as well
\* (get_token reads whatever is there).
THEOREM LexerTypes == Spec => []TypeOK
  <1>1. Init => TypeOK /\ TextsInv
    <2> SUFFICES ASSUME Init PROVE TypeOK /\ TextsInv
      OBVIOUS
    <2>1. main \in Seq(Symbols) /\ source = main /\ text = main
      BY TextsAssumption DEF Init
    <2>2. ToSet(main) \subseteq Symbols /\ ToSet(<<>>) = {}
      BY <2>1 DEF ToSet
    <2>3. Past.type \in TokenType
      BY DEF Past, Lexeme, TokenType
    <2>4. wait \in BOOLEAN /\ stale \in BOOLEAN /\ hadError \in BOOLEAN
      BY DEF Init
    <2>5. \A t \in {pending} \cup ToSet(given) : t.type \in TokenType
      BY <2>2, <2>3 DEF Init
    <2>6. current = 1 /\ line = 1 /\ phase = "first"
      BY DEF Init
    <2>7. {wait, stale, hadError} \subseteq BOOLEAN
      BY <2>4
    <2> QED
      BY <2>1, <2>2, <2>5, <2>6, <2>7 DEF TypeOK, TextsInv
  <1>2. TypeOK /\ TextsInv /\ [Next]_vars => TypeOK' /\ TextsInv'
    BY TypesStep
  <1> QED
    BY <1>1, <1>2, PTL DEF Spec
=============================================================================
