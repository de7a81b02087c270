-------------------------- MODULE StringTableProofs --------------------------
(***************************************************************************)
(* The string table keeps every literal whole, and the address that the    *)
(* code gets for a literal leads to its text, for any texts and any first  *)
(* capacity.                                                               *)
(***************************************************************************)
EXTENDS StringTable, TLAPS

\* The text and its NUL stand in bytes from off on.
TextAt(bytes, off, text) ==
    /\ off + Len(text) + 1 <= Len(bytes)
    /\ \A j \in 1 .. Len(text) : bytes[off + j] = text[j]
    /\ bytes[off + Len(text) + 1] = NUL

Entries ==
    /\ table \in Seq([offset : Nat, len : Nat])
    /\ capacity \in Nat
    /\ blob \in Seq(Characters \cup {NUL})
    /\ added \in Seq([text : Texts, id : Nat])
    /\ image = <<>> \/ image = blob
    /\ Len(table) <= capacity /\ capacity > 0

\* Every literal has an entry of its own, which leads to its text.
Literals ==
    /\ Len(added) = Len(table)
    /\ \A k \in DOMAIN added :
          /\ added[k].id = k
          /\ table[k].len = Len(added[k].text)
          /\ TextAt(blob, table[k].offset, added[k].text)

\* The entries lie end to end.
Contiguous ==
    \A i \in DOMAIN table :
       table[i].offset + table[i].len + 1 =
          IF i = Len(table) THEN Len(blob) ELSE table[i + 1].offset

StringInv == Entries /\ Literals /\ Contiguous

-----------------------------------------------------------------------------
\* A literal is a sequence of characters without NUL and quote.
LEMMA TextParts ==
  ASSUME NEW text \in Texts
  PROVE  /\ text \in Seq(Characters)
         /\ Len(text) \in Nat
         /\ \A j \in 1 .. Len(text) : text[j] # NUL /\ text[j] # QUOTE
  <1>1. text \in Seq(Range(text)) /\ {QUOTE, NUL} \cap Range(text) = {}
    BY TextsAssumption
  <1>2. Range(text) \subseteq Characters
    BY DEF Characters
  <1>3. Len(text) \in Nat /\ DOMAIN text = 1 .. Len(text)
    BY <1>1
  <1>4. text \in Seq(Characters)
    BY <1>1, <1>2
  <1>5. \A j \in 1 .. Len(text) : text[j] \in Range(text)
    BY <1>3 DEF Range
  <1> QED
    BY <1>1, <1>3, <1>4, <1>5

\* strcmp and the kernel read a text up to its NUL, and no further.
LEMMA ReadsTheText ==
  ASSUME NEW S, NEW bytes \in Seq(S), NEW off \in Nat, NEW text \in Texts,
         TextAt(bytes, off, text)
  PROVE  CString(bytes, off) = text
  <1> DEFINE Ends(i) == /\ i > Len(bytes) \/ bytes[i] = NUL
                        /\ \A j \in off + 1 .. i - 1 : bytes[j] # NUL
             end == off + Len(text) + 1
  <1>1. /\ text \in Seq(Characters) /\ Len(text) \in Nat /\ Len(bytes) \in Nat
        /\ \A j \in 1 .. Len(text) : text[j] # NUL
    BY TextParts
  <1>2. \A j \in off + 1 .. off + Len(text) : bytes[j] = text[j - off] /\ bytes[j] # NUL
    <2> SUFFICES ASSUME NEW j \in off + 1 .. off + Len(text)
                 PROVE  bytes[j] = text[j - off] /\ bytes[j] # NUL
      OBVIOUS
    <2>1. j - off \in 1 .. Len(text) /\ off + (j - off) = j
      BY <1>1
    <2> QED
      BY <1>1, <2>1 DEF TextAt
  <1>3. end \in off + 1 .. Len(bytes) + 1 /\ Ends(end)
    BY <1>1, <1>2 DEF TextAt
  <1>4. \A i \in off + 1 .. Len(bytes) + 1 : Ends(i) => i = end
    <2> SUFFICES ASSUME NEW i \in off + 1 .. Len(bytes) + 1, Ends(i) PROVE i = end
      OBVIOUS
    <2>1. ~ (i < end)
      <3> SUFFICES ASSUME i < end PROVE FALSE
        OBVIOUS
      <3>1. i \in off + 1 .. off + Len(text) /\ i <= Len(bytes)
        BY <1>1, <1>3
      <3> QED
        BY <1>1, <1>2, <3>1
    <2>2. ~ (i > end)
      <3> SUFFICES ASSUME i > end PROVE FALSE
        OBVIOUS
      <3>1. end \in off + 1 .. i - 1
        BY <1>1, <1>3
      <3> QED
        BY <3>1 DEF TextAt
    <2> QED
      BY <1>1, <2>1, <2>2
  <1>5. CString(bytes, off) = SubSeq(bytes, off + 1, end - 1)
    <2>1. (CHOOSE i \in off + 1 .. Len(bytes) + 1 : Ends(i)) = end
      BY <1>3, <1>4
    <2> QED
      BY <2>1 DEF CString
  <1>6. SubSeq(bytes, off + 1, end - 1) = text
    <2> DEFINE s == SubSeq(bytes, off + 1, off + Len(text))
    <2>1. s \in Seq(S) /\ Len(s) = Len(text)
      BY <1>1 DEF TextAt
    <2>2. \A j \in 1 .. Len(text) : s[j] = bytes[off + j]
      BY <1>1 DEF TextAt
    <2>3. \A j \in 1 .. Len(text) : s[j] = text[j]
      BY <2>2 DEF TextAt
    <2>4. s = text
      BY <1>1, <2>1, <2>3
    <2>5. end - 1 = off + Len(text)
      BY <1>1
    <2> QED
      BY <2>4, <2>5
  <1> QED
    BY <1>5, <1>6

\* What is in a sequence over S is in S.
LEMMA ElementOf ==
  ASSUME NEW S, NEW s \in Seq(S)
  PROVE  \A i \in DOMAIN s : s[i] \in S
  OBVIOUS

\* The entry of a literal.
LEMMA EntryParts ==
  ASSUME StringInv, NEW k \in DOMAIN table
  PROVE  /\ k \in DOMAIN added
         /\ table[k].offset \in Nat /\ table[k].len \in Nat
         /\ added[k].text \in Texts /\ added[k].id = k
         /\ table[k].len = Len(added[k].text)
         /\ TextAt(blob, table[k].offset, added[k].text)
  <1>1. k \in 1 .. Len(table) /\ Len(added) = Len(table)
    BY DEF StringInv, Entries, Literals
  <1>2. table \in Seq([offset : Nat, len : Nat]) /\ added \in Seq([text : Texts, id : Nat])
    BY DEF StringInv, Entries
  <1>3. table[k] \in [offset : Nat, len : Nat]
    BY <1>2, ElementOf
  <1>4. k \in DOMAIN added
    BY <1>1, <1>2
  <1>5. added[k] \in [text : Texts, id : Nat]
    BY <1>2, <1>4, ElementOf
  <1> QED
    BY <1>3, <1>4, <1>5 DEF StringInv, Literals

\* No entry equals what follows in the source: that goes on with a quote.
LEMMA NothingMatches ==
  ASSUME StringInv, NEW text \in Texts, NEW rest \in Rests, NEW i \in DOMAIN table
  PROVE  ~Matches(i, text, rest)
  <1> SUFFICES ASSUME Matches(i, text, rest) PROVE FALSE
    OBVIOUS
  <1>1. i \in DOMAIN added /\ table[i].offset \in Nat /\ added[i].text \in Texts
        /\ TextAt(blob, table[i].offset, added[i].text)
    BY EntryParts
  <1>2. CString(blob, table[i].offset) = added[i].text
    BY <1>1, ReadsTheText DEF StringInv, Entries
  <1>3. PICK own : own = added[i].text
    OBVIOUS
  <1>4. own = text \o <<QUOTE>> \o rest /\ own \in Texts
    BY <1>1, <1>2, <1>3 DEF Matches
  <1>5. rest \in Seq(Range(rest)) /\ text \in Seq(Characters) /\ Len(text) \in Nat
    BY TextsAssumption, TextParts
  <1>6. PICK n \in 1 .. Len(own) : own[n] = QUOTE
    <2>1. PICK S : S = Characters \cup {QUOTE} \cup Range(rest)
      OBVIOUS
    <2>2. text \in Seq(S) /\ <<QUOTE>> \in Seq(S) /\ rest \in Seq(S)
      BY <1>5, <2>1
    <2>3. Len(text) + 1 \in 1 .. Len(own) /\ own[Len(text) + 1] = QUOTE
      BY <1>4, <1>5, <2>2
    <2> QED
      BY <2>3
  <1> QED
    BY <1>4, <1>6, TextParts

\* What is stored stays where it is, and the new text stands behind it.
LEMMA StoredParts ==
  ASSUME StringInv, NEW text \in Texts
  PROVE  /\ Stored(text) \in Seq(Characters \cup {NUL})
         /\ Len(Stored(text)) = Len(blob) + Len(text) + 1
         /\ \A j \in 1 .. Len(blob) : Stored(text)[j] = blob[j]
         /\ TextAt(Stored(text), Len(blob), text)
  <1> DEFINE S == Characters \cup {NUL}
  <1>1. blob \in Seq(S) /\ text \in Seq(S) /\ <<NUL>> \in Seq(S)
    BY TextParts DEF StringInv, Entries
  <1>2. Stored(text) = (blob \o text) \o <<NUL>>
    BY DEF Stored
  <1> HIDE DEF S
  <1>3. PICK b : b = blob
    OBVIOUS
  <1>4. b \in Seq(S) /\ Stored(text) = (b \o text) \o <<NUL>>
    BY <1>1, <1>2, <1>3
  <1>5. /\ Stored(text) \in Seq(S)
        /\ Len(Stored(text)) = Len(b) + Len(text) + 1
        /\ \A j \in 1 .. Len(b) : Stored(text)[j] = b[j]
        /\ \A j \in 1 .. Len(text) : Stored(text)[Len(b) + j] = text[j]
        /\ Stored(text)[Len(b) + Len(text) + 1] = NUL
    BY <1>1, <1>4
  <1> QED
    BY <1>3, <1>5 DEF TextAt, S

\* A text that stands in the blob stands in every longer one.
LEMMA TextStays ==
  ASSUME NEW S, NEW old \in Seq(S), NEW T, NEW new \in Seq(T), NEW off \in Nat, NEW text \in Texts,
         Len(old) <= Len(new), \A j \in 1 .. Len(old) : new[j] = old[j],
         TextAt(old, off, text)
  PROVE  TextAt(new, off, text)
  <1>1. Len(text) \in Nat /\ Len(old) \in Nat /\ Len(new) \in Nat
    BY TextParts
  <1>2. off + Len(text) + 1 <= Len(old)
    BY DEF TextAt
  <1>3. \A j \in 1 .. Len(text) : off + j \in 1 .. Len(old)
    BY <1>1, <1>2
  <1>4. off + Len(text) + 1 \in 1 .. Len(old)
    BY <1>1, <1>2
  <1> QED
    BY <1>1, <1>2, <1>3, <1>4 DEF TextAt

\* add_string appends an entry with its text, and finds room for it.
LEMMA AddKeeps ==
  ASSUME StringInv, NEW text \in Texts, NEW rest \in Rests, AddString(text, rest)
  PROVE  StringInv'
  <1> DEFINE n     == Len(table)
             entry == [offset |-> Len(blob), len |-> Len(text)]
             told  == [text |-> text, id |-> n + 1]
  <1>1. /\ table' = Append(table, entry)
        /\ capacity' = Room(n)
        /\ blob' = Stored(text)
        /\ added' = Append(added, told)
        /\ image = <<>> /\ image' = image
    <2>1. {i \in DOMAIN table : Matches(i, text, rest)} = {}
      BY NothingMatches
    <2> QED
      BY <2>1 DEF AddString
  <1>2. /\ table \in Seq([offset : Nat, len : Nat]) /\ added \in Seq([text : Texts, id : Nat])
        /\ n \in Nat /\ Len(added) = n /\ capacity \in Nat /\ n <= capacity /\ capacity > 0
        /\ Len(blob) \in Nat /\ Len(text) \in Nat
    BY TextParts DEF StringInv, Entries, Literals
  <1>3. entry \in [offset : Nat, len : Nat] /\ told \in [text : Texts, id : Nat]
    BY <1>2
  <1> HIDE DEF n, entry, told
  <1>4. /\ table' \in Seq([offset : Nat, len : Nat]) /\ Len(table') = n + 1
        /\ table'[n + 1] = entry /\ \A i \in 1 .. n : table'[i] = table[i]
        /\ DOMAIN table' = 1 .. n + 1 /\ DOMAIN table = 1 .. n
    BY <1>1, <1>2, <1>3 DEF n
  <1>5. /\ added' \in Seq([text : Texts, id : Nat]) /\ Len(added') = n + 1
        /\ added'[n + 1] = told /\ \A i \in 1 .. n : added'[i] = added[i]
        /\ DOMAIN added' = 1 .. n + 1
    BY <1>1, <1>2, <1>3
  <1>6. capacity' \in Nat /\ n + 1 <= capacity' /\ capacity' > 0
    BY <1>1, <1>2 DEF Room
  <1>7. Entries'
    BY <1>1, <1>4, <1>5, <1>6, StoredParts DEF Entries
  <1>8. Literals'
    <2> SUFFICES ASSUME NEW k \in 1 .. n + 1
                 PROVE  /\ added'[k].id = k
                        /\ table'[k].len = Len(added'[k].text)
                        /\ TextAt(blob', table'[k].offset, added'[k].text)
      BY <1>4, <1>5 DEF Literals
    <2>1. CASE k = n + 1
      BY <1>1, <1>4, <1>5, <2>1, StoredParts DEF entry, told
    <2>2. CASE k # n + 1
      <3>1. k \in DOMAIN table /\ table'[k] = table[k] /\ added'[k] = added[k]
        BY <1>2, <1>4, <1>5, <2>2
      <3>2. blob \in Seq(Characters \cup {NUL}) /\ blob' \in Seq(Characters \cup {NUL})
            /\ Len(blob) <= Len(blob') /\ \A j \in 1 .. Len(blob) : blob'[j] = blob[j]
        BY <1>1, <1>2, StoredParts DEF StringInv, Entries
      <3>3. TextAt(blob', table[k].offset, added[k].text)
        BY <3>1, <3>2, EntryParts, TextStays
      <3> QED
        BY <3>1, <3>3, EntryParts
    <2> QED
      BY <2>1, <2>2
  <1>9. Contiguous'
    <2>1. Len(blob') = Len(blob) + Len(text) + 1
      BY <1>1, StoredParts
    <2> SUFFICES ASSUME NEW i \in 1 .. n + 1
                 PROVE  table'[i].offset + table'[i].len + 1 =
                           IF i = n + 1 THEN Len(blob') ELSE table'[i + 1].offset
      BY <1>4 DEF Contiguous
    <2>2. CASE i = n + 1
      <3>1. table'[i] = entry
        BY <1>4, <2>2
      <3> QED
        BY <1>2, <2>1, <2>2, <3>1 DEF entry
    <2>3. CASE i = n /\ i # n + 1
      <3>1. table[i].offset + table[i].len + 1 = Len(blob)
        BY <1>2, <1>4, <2>3 DEF StringInv, Contiguous, n
      <3> QED
        BY <1>2, <1>4, <2>3, <3>1 DEF entry
    <2>4. CASE i # n /\ i # n + 1
      <3>1. i \in DOMAIN table /\ i + 1 \in 1 .. n
        BY <1>2, <1>4, <2>4
      <3>2. table[i].offset + table[i].len + 1 = table[i + 1].offset
        BY <2>4, <3>1 DEF StringInv, Contiguous, n
      <3> QED
        BY <1>4, <2>4, <3>1, <3>2
    <2> QED
      BY <2>2, <2>3, <2>4
  <1> QED
    BY <1>7, <1>8, <1>9 DEF StringInv

\* StringInv holds in every state.
LEMMA StringInvariant == Spec => []StringInv
  <1>1. Init => StringInv
    BY RoomAssumption DEF Init, StringInv, Entries, Literals, Contiguous
  <1>2. StringInv /\ [Next]_vars => StringInv'
    <2> SUFFICES ASSUME StringInv, [Next]_vars PROVE StringInv'
      OBVIOUS
    <2>1. CASE \E text \in Texts, rest \in Rests : AddString(text, rest)
      BY <2>1, AddKeeps
    <2>2. CASE EmitBlob
      BY <2>2 DEF EmitBlob, StringInv, Entries, Literals, Contiguous
    <2>3. CASE UNCHANGED vars
      BY <2>3 DEF vars, StringInv, Entries, Literals, Contiguous
    <2> QED
      BY <2>1, <2>2, <2>3 DEF Next
  <1> QED
    BY <1>1, <1>2, PTL DEF Spec

\* The index of a literal leads to the place of its text.
LEMMA OffsetLeads ==
  ASSUME StringInv, NEW k \in DOMAIN added
  PROVE  /\ GetOffset(added[k].id) \in Nat
         /\ GetOffset(added[k].id) < Len(blob)
         /\ CString(blob, GetOffset(added[k].id)) = added[k].text
  <1>1. k \in DOMAIN table /\ k \in 1 .. Len(table) /\ Len(table) \in Nat
    BY DEF StringInv, Entries, Literals
  <1>2. GetOffset(added[k].id) = table[k].offset
    <2>1. added[k].id = k /\ ~ (Len(table) + 1 < k)
      BY <1>1, EntryParts
    <2> QED
      BY <2>1 DEF GetOffset
  <1>3. /\ table[k].offset \in Nat /\ added[k].text \in Texts
        /\ TextAt(blob, table[k].offset, added[k].text)
    BY <1>1, EntryParts
  <1>4. CString(blob, table[k].offset) = added[k].text
    BY <1>3, ReadsTheText DEF StringInv, Entries
  <1>5. table[k].offset < Len(blob)
    <2>1. Len(added[k].text) \in Nat /\ Len(blob) \in Nat
      BY <1>3, TextParts DEF StringInv, Entries
    <2> QED
      BY <1>3, <2>1 DEF TextAt
  <1> QED
    BY <1>2, <1>3, <1>4, <1>5

\* Every literal keeps its text under its index, and the entries fill the blob
\* without gap or overlap, whatever was added since and however often the table
\* and the blob were moved (add_string).
THEOREM LiteralsStayWhole == Spec => []StringsIntact
  <1>1. StringInv => StringsIntact
    BY OffsetLeads DEF StringInv, Entries, Contiguous, StringsIntact
  <1> QED
    BY <1>1, StringInvariant, PTL

\* The strings end within the segment.
StringsFit == LOAD + RUNTIMELEN + Len(blob) <= Segment

\* The address that compile_expression gives a literal leads the running program
\* to its text behind the runtime, as long as the strings end in the segment.
THEOREM LiteralsAreFound == Spec => [](StringsFit => AddressesReachText)
  <1>1. ASSUME StringInv, StringsFit, image # <<>>, NEW k \in DOMAIN added
        PROVE  LET off == AddressOf(added[k].id) - (LOAD + RUNTIMELEN) IN
               off \in 0 .. Len(image) - 1 /\ CString(image, off) = added[k].text
    <2>1. PICK off : off = GetOffset(added[k].id)
      OBVIOUS
    <2>2. off \in Nat /\ off < Len(blob) /\ CString(blob, off) = added[k].text /\ image = blob
          /\ Len(blob) \in Nat
      BY <1>1, <2>1, OffsetLeads DEF StringInv, Entries
    <2>3. AddressOf(added[k].id) = LOAD + RUNTIMELEN + off
      <3>1. LOAD + RUNTIMELEN + off \in Nat /\ LOAD + RUNTIMELEN + off < Segment
        BY <1>1, <2>2 DEF StringsFit, LOAD, RUNTIMELEN, Segment
      <3>2. AddressOf(added[k].id) = (LOAD + RUNTIMELEN + off) % Segment
        BY <2>1 DEF AddressOf, Wrap
      <3> QED
        BY <3>1, <3>2 DEF Segment
    <2>4. AddressOf(added[k].id) - (LOAD + RUNTIMELEN) = off
      BY <2>2, <2>3 DEF LOAD, RUNTIMELEN
    <2> QED
      BY <2>2, <2>4
  <1>2. StringInv => (StringsFit => AddressesReachText)
    BY <1>1 DEF AddressesReachText
  <1> QED
    BY <1>2, StringInvariant, PTL
=============================================================================
