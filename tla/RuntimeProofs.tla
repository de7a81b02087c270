---------------------------- MODULE RuntimeProofs ----------------------------
(***************************************************************************)
(* The layout of the runtime, for string tables of any length.             *)
(***************************************************************************)
EXTENDS Runtime, TLAPS

\* The parts in the order in which make_entry emits them; the message of the
\* division handler lies inside ZERODIV.
Order(k) ==
    CASE k = 1  -> "jump"
      [] k = 2  -> "STRADD"
      [] k = 3  -> "ZERODIV"
      [] k = 4  -> "PRINTSTR"
      [] k = 5  -> "INKADDR"
      [] k = 6  -> "RAMSTART"
      [] k = 7  -> "WORKPAGE"
      [] k = 8  -> "ACTIVEPAGE"
      [] k = 9  -> "strings"
      [] k = 10 -> "clear"
      [] k = 11 -> "clear strings"
      [] k = 12 -> "stack"

\* The position of a part in that order.
Position(p) ==
    CASE p = "jump"          -> 1
      [] p = "STRADD"        -> 2
      [] p = "ZERODIV"       -> 3
      [] p = "PRINTSTR"      -> 4
      [] p = "INKADDR"       -> 5
      [] p = "RAMSTART"      -> 6
      [] p = "WORKPAGE"      -> 7
      [] p = "ACTIVEPAGE"    -> 8
      [] p = "strings"       -> 9
      [] p = "clear"         -> 10
      [] p = "clear strings" -> 11
      [] p = "stack"         -> 12

\* The length of the code after k parts.
Offset(k) ==
    CASE k = 0  -> 0
      [] k = 1  -> 3
      [] k = 2  -> 24
      [] k = 3  -> 72
      [] k = 4  -> 152
      [] k = 5  -> 154
      [] k = 6  -> 156
      [] k = 7  -> 158
      [] k = 8  -> 160
      [] k = 9  -> 160 + blobLen
      [] k = 10 -> 172 + blobLen
      [] k = 11 -> 182 + blobLen
      [] k = 12 -> 184 + blobLen

\* The calls and jumps of the runtime, the entry jump first.
Entry  == CallAt(0, LOAD + RUNTIMELEN + blobLen)
Called == {Entry, CallAt(8, 57), CallAt(20, 63), CallAt(28, 3), CallAt(143, 15)}

\* k parts have been emitted, each behind the one before.
Stage(k) ==
    /\ \A i \in 1 .. 12 : Order(i) \in DOMAIN at <=> i <= k
    /\ \A i \in 1 .. k : at[Order(i)] = Offset(i - 1)
    /\ length = Offset(k)
    /\ calls \subseteq Called
    /\ k > 0 => Entry \in calls

RuntimeInv == blobLen \in BlobLengths /\ \E k \in 0 .. 12 : Stage(k)

-----------------------------------------------------------------------------
\* The order, part by part.
LEMMA OrderValues ==
    /\ Order(1) = "jump"
    /\ Order(2) = "STRADD"
    /\ Order(3) = "ZERODIV"
    /\ Order(4) = "PRINTSTR"
    /\ Order(5) = "INKADDR"
    /\ Order(6) = "RAMSTART"
    /\ Order(7) = "WORKPAGE"
    /\ Order(8) = "ACTIVEPAGE"
    /\ Order(9) = "strings"
    /\ Order(10) = "clear"
    /\ Order(11) = "clear strings"
    /\ Order(12) = "stack"
  BY DEF Order

\* The offsets, part by part.
LEMMA OffsetValues ==
    /\ Offset(0) = 0
    /\ Offset(1) = 3
    /\ Offset(2) = 24
    /\ Offset(3) = 72
    /\ Offset(4) = 152
    /\ Offset(5) = 154
    /\ Offset(6) = 156
    /\ Offset(7) = 158
    /\ Offset(8) = 160
    /\ Offset(9) = 160 + blobLen
    /\ Offset(10) = 172 + blobLen
    /\ Offset(11) = 182 + blobLen
    /\ Offset(12) = 184 + blobLen
  BY DEF Offset

\* The positions one by one.
LEMMA Positions ==
    \A i \in 1 .. 12 : i \in {1, 2, 3, 4, 5, 6, 7, 8, 9, 10, 11, 12}
  OBVIOUS

\* No part comes twice.
LEMMA OrderInjective == \A i, j \in 1 .. 12 : Order(i) = Order(j) => i = j
<1>1. \A i \in 1 .. 12 : Position(Order(i)) = i
  BY OrderValues, Positions DEF Position
<1> QED
  BY <1>1

\* Nothing has been emitted in the beginning.
LEMMA InitInv == Init => RuntimeInv
<1> SUFFICES ASSUME Init PROVE RuntimeInv
  OBVIOUS
<1>1. DOMAIN at = {} /\ length = 0 /\ calls = {} /\ blobLen \in BlobLengths
  BY DEF Init
<1>2. Stage(0)
  BY <1>1 DEF Stage, Offset
<1> QED
  BY <1>1, <1>2 DEF RuntimeInv

\* One more part behind the others.
LEMMA NextStage ==
    ASSUME blobLen \in BlobLengths, NEW k \in 1 .. 11, NEW n \in 2 .. 12, n = k + 1,
           Stage(k), blobLen' = blobLen,
           \A p : p # "message" => (p \in DOMAIN at' <=> p \in DOMAIN at \/ p = Order(n)),
           \A p \in DOMAIN at : p # "message" => at'[p] = at[p],
           at'[Order(n)] = length,
           length' = Offset(n),
           calls \subseteq calls', calls' \subseteq Called
    PROVE  RuntimeInv'
<1>1. \A i \in 0 .. 12 : Offset(i)' = Offset(i)
  BY DEF Offset
<1>2. \A i \in 1 .. 12 : Order(i) # "message"
  BY OrderValues, Positions
<1>3. \A i \in 1 .. 12 : Order(i) \in DOMAIN at' <=> i <= n
  <2> SUFFICES ASSUME NEW i \in 1 .. 12
               PROVE  Order(i) \in DOMAIN at' <=> i <= n
    OBVIOUS
  <2>1. Order(i) \in DOMAIN at' <=> Order(i) \in DOMAIN at \/ Order(i) = Order(n)
    BY <1>2
  <2>2. Order(i) = Order(n) <=> i = n
    BY OrderInjective
  <2> QED BY <2>1, <2>2 DEF Stage
<1>4. \A i \in 1 .. n : at'[Order(i)] = Offset(i - 1)
  <2> SUFFICES ASSUME NEW i \in 1 .. n
               PROVE  at'[Order(i)] = Offset(i - 1)
    OBVIOUS
  <2>1. CASE i = n
    BY <2>1 DEF Stage
  <2>2. CASE i # n
    <3>1. i \in 1 .. k /\ i \in 1 .. 12
      BY <2>2
    <3>2. Order(i) \in DOMAIN at /\ at[Order(i)] = Offset(i - 1)
      BY <3>1 DEF Stage
    <3> QED BY <3>1, <3>2, <1>2
  <2> QED BY <2>1, <2>2
<1>5. Called' = Called /\ Entry' = Entry
  BY DEF Called, Entry, CallAt, EmitRel
<1>6. Stage(n)'
  <2>1. \A i \in 1 .. n : i - 1 \in 0 .. 12
    OBVIOUS
  <2>2. \A i \in 1 .. n : at'[Order(i)] = Offset(i - 1)'
    BY <1>1, <1>4, <2>1
  <2>3. length' = Offset(n)'
    BY <1>1
  <2> QED BY <1>3, <2>2, <2>3, <1>5 DEF Stage
<1> QED
  BY <1>6 DEF RuntimeInv

\* What Begins tells: which part comes next, and where.
LEMMA BeginsNext ==
    ASSUME RuntimeInv, NEW k \in 1 .. 11, NEW n \in 2 .. 12, n = k + 1,
           Begins(Order(n), Order(k))
    PROVE  /\ Stage(k)
           /\ blobLen' = blobLen
           /\ \A p : p \in DOMAIN at' <=> p \in DOMAIN at \/ p = Order(n)
           /\ \A p \in DOMAIN at : at'[p] = at[p]
           /\ at'[Order(n)] = length
<1>1. PICK stage \in 0 .. 12 : Stage(stage)
  BY DEF RuntimeInv
<1>2. stage = k
  BY <1>1 DEF Begins, Stage
<1> QED
  BY <1>1, <1>2 DEF Begins

\* A part behind k others keeps the invariant.
LEMMA BeginsKeeps ==
    ASSUME RuntimeInv, NEW k \in 1 .. 11, NEW n \in 2 .. 12, n = k + 1,
           Begins(Order(n), Order(k)),
           length' = Offset(n), 
           calls \subseteq calls', calls' \subseteq calls \cup Called
    PROVE  RuntimeInv'
<1>1. Stage(k)
  BY BeginsNext
<1>2. calls \subseteq calls' /\ calls' \subseteq Called
  BY <1>1 DEF Stage
<1> QED
  BY <1>1, <1>2, BeginsNext, NextStage DEF RuntimeInv

-----------------------------------------------------------------------------
\* The entry jump is the first part.
LEMMA EntryJumpKeeps == ASSUME RuntimeInv, EntryJump PROVE RuntimeInv'
<1>1. DOMAIN at' = {"jump"} /\ at'["jump"] = 0 /\ length' = 3 /\ blobLen' = blobLen
  BY DEF EntryJump
<1>2. calls' = {Entry} /\ Entry' = Entry /\ Called' = Called
  BY DEF EntryJump, Entry, Called, CallAt, EmitRel
<1>3. \A i \in 1 .. 12 : Order(i) = "jump" <=> i = 1
  BY OrderValues, Positions
<1>4. Stage(1)'
  <2>1. \A i \in 1 .. 1 : at'[Order(i)] = Offset(i - 1)'
    <3> SUFFICES ASSUME NEW i \in 1 .. 1 PROVE at'[Order(i)] = Offset(i - 1)'
      OBVIOUS
    <3>1. i = 1 /\ i - 1 = 0
      OBVIOUS
    <3>2. Offset(i - 1)' = 0
      BY <3>1 DEF Offset
    <3>3. Order(i) = "jump"
      BY <3>1, OrderValues
    <3> QED BY <1>1, <3>2, <3>3
  <2>2. \A i \in 1 .. 12 : Order(i) \in DOMAIN at' <=> i <= 1
    BY <1>1, <1>3
  <2> QED BY <1>1, <1>2, <2>1, <2>2 DEF Stage, Offset, Called
<1> QED
  BY <1>1, <1>4 DEF RuntimeInv

\* A handler or a block without calls.
LEMMA QuietKeeps ==
    ASSUME RuntimeInv, NEW k \in 1 .. 11, NEW n \in 2 .. 12, n = k + 1,
           Begins(Order(n), Order(k)),
           length' = Offset(n), calls' = calls
    PROVE  RuntimeInv'
  BY BeginsKeeps

\* The handler that joins strings: 21 bytes and two calls.
LEMMA AddStringsKeeps == ASSUME RuntimeInv, AddStrings PROVE RuntimeInv'
<1>1. Begins(Order(2), Order(1))
  BY OrderValues DEF AddStrings
<1>2. length = 3
  BY <1>1, BeginsNext DEF Stage, Offset
<1>3. length' = Offset(2)
  BY <1>2 DEF AddStrings, Offset
<1>4. calls \subseteq calls' /\ calls' \subseteq calls \cup Called
  BY <1>2 DEF AddStrings, Called
<1> QED
  BY <1>1, <1>3, <1>4, BeginsKeeps

\* The handler of division by zero: 48 bytes, with the message in them.
LEMMA ZeroDivideKeeps == ASSUME RuntimeInv, ZeroDivideHandler PROVE RuntimeInv'
<1>1. PICK n \in 0 .. 12 : Stage(n)
  BY DEF RuntimeInv
<1>2. n = 2
  <2>1. Order(2) \in DOMAIN at /\ Order(3) \notin DOMAIN at
    BY OrderValues DEF ZeroDivideHandler
  <2> QED BY <1>1, <2>1 DEF Stage
<1>3. length = 24 /\ blobLen' = blobLen
  BY <1>1, <1>2 DEF Stage, Offset, ZeroDivideHandler
<1>4. length' = Offset(3)
  BY <1>3 DEF ZeroDivideHandler, Offset, ExitLength
<1>5. calls' = calls \cup {CallAt(28, 3)}
  BY <1>3 DEF ZeroDivideHandler
<1>6. calls \subseteq calls' /\ calls' \subseteq Called
  BY <1>1, <1>5 DEF Stage, Called
<1>7. /\ \A p : p \in DOMAIN at' <=> p \in DOMAIN at \/ p = "ZERODIV" \/ p = "message"
      /\ at'["ZERODIV"] = length
      /\ \A p \in DOMAIN at : p # "message" => at'[p] = at[p]
  <2>1. "ZERODIV" \notin DOMAIN at
    BY DEF ZeroDivideHandler
  <2> QED BY <2>1 DEF ZeroDivideHandler
<1>8. /\ Stage(2)
      /\ \A p : p # "message" => (p \in DOMAIN at' <=> p \in DOMAIN at \/ p = Order(3))
      /\ at'[Order(3)] = length
  BY <1>1, <1>2, <1>7, OrderValues
<1>9. blobLen \in BlobLengths
  BY DEF RuntimeInv
<1> QED
  BY <1>3, <1>4, <1>6, <1>7, <1>8, <1>9, NextStage

\* The printing handler: 80 bytes and one call.
LEMMA PrintStringKeeps == ASSUME RuntimeInv, PrintStringHandler PROVE RuntimeInv'
<1>1. Begins(Order(4), Order(3))
  BY OrderValues DEF PrintStringHandler
<1>2. length = 72
  BY <1>1, BeginsNext DEF Stage, Offset
<1>3. length' = Offset(4)
  BY <1>2 DEF PrintStringHandler, Offset
<1>4. calls \subseteq calls' /\ calls' \subseteq calls \cup Called
  BY <1>2 DEF PrintStringHandler, Called
<1> QED
  BY <1>1, <1>3, <1>4, BeginsKeeps

\* Each word of state: two bytes.
LEMMA StateWordKeeps ==
    ASSUME RuntimeInv, NEW k \in 4 .. 7, NEW n \in 5 .. 8, n = k + 1,
           StateWord(Order(n), Order(k))
    PROVE  RuntimeInv'
<1>1. Begins(Order(n), Order(k)) /\ calls' = calls
  BY DEF StateWord
<1>2. Stage(k)
  BY <1>1, BeginsNext
<1>3. length' = Offset(n)
  BY <1>2 DEF StateWord, Stage, Offset
<1> QED
  BY <1>1, <1>3, QuietKeeps

\* The strings, whatever their length.
LEMMA BlobKeeps == ASSUME RuntimeInv, Blob PROVE RuntimeInv'
<1>1. Begins(Order(9), Order(8)) /\ calls' = calls
  BY OrderValues DEF Blob
<1>2. length = 160
  BY <1>1, BeginsNext DEF Stage, Offset
<1>3. length' = Offset(9)
  BY <1>2 DEF Blob, Offset
<1> QED
  BY <1>1, <1>3, QuietKeeps

\* The code that clears the numbers: 12 bytes.
LEMMA ClearNumbersKeeps == ASSUME RuntimeInv, ClearNumbers PROVE RuntimeInv'
<1>1. Begins(Order(10), Order(9)) /\ calls' = calls
  BY OrderValues DEF ClearNumbers
<1>2. length = 160 + blobLen /\ blobLen \in Nat
  BY <1>1, BeginsNext, BlobAssumption, OffsetValues DEF Stage, RuntimeInv
<1>3. length' = Offset(10)
  <2>1. Offset(10) = 172 + blobLen
    BY DEF Offset
  <2>2. length' = 172 + blobLen
    BY <1>2 DEF ClearNumbers
  <2> QED BY <2>1, <2>2
<1> QED
  BY <1>1, <1>3, QuietKeeps

\* The code that clears the strings: 10 bytes.
LEMMA ClearStringsKeeps == ASSUME RuntimeInv, ClearStrings PROVE RuntimeInv'
<1>1. Begins(Order(11), Order(10)) /\ calls' = calls
  BY OrderValues DEF ClearStrings
<1>2. length = 172 + blobLen /\ blobLen \in Nat
  BY <1>1, BeginsNext, BlobAssumption, OffsetValues DEF Stage, RuntimeInv
<1>3. length' = Offset(11)
  <2>1. Offset(11) = 182 + blobLen
    BY DEF Offset
  <2>2. length' = length + 10
    BY DEF ClearStrings
  <2> QED BY <2>1, <2>2, <1>2
<1> QED
  BY <1>1, <1>3, QuietKeeps

\* The last part.
LEMMA SetupStackKeeps == ASSUME RuntimeInv, SetupStack PROVE RuntimeInv'
<1>1. Begins(Order(12), Order(11)) /\ calls' = calls
  BY OrderValues DEF SetupStack
<1>2. length = 182 + blobLen /\ blobLen \in Nat
  BY <1>1, BeginsNext, BlobAssumption, OffsetValues DEF Stage, RuntimeInv
<1>3. length' = Offset(12)
  <2>1. Offset(12) = 184 + blobLen
    BY DEF Offset
  <2>2. length' = length + 2
    BY DEF SetupStack
  <2> QED BY <2>1, <2>2, <1>2
<1> QED
  BY <1>1, <1>3, QuietKeeps

\* Running the entry code changes none of it.
LEMMA UnchangedKeeps ==
    ASSUME RuntimeInv, UNCHANGED <<blobLen, length, at, calls>> PROVE RuntimeInv'
<1>1. \A k \in 0 .. 12 : Stage(k) => Stage(k)'
  <2>1. \A k : Offset(k)' = Offset(k)
    BY DEF Offset
  <2>2. Called' = Called /\ Entry' = Entry
    BY DEF Called, Entry, CallAt, EmitRel
  <2> QED BY <2>1, <2>2 DEF Stage
<1> QED
  BY <1>1 DEF RuntimeInv

\* Every step keeps the invariant.
LEMMA StepKeeps == RuntimeInv /\ [Next]_vars => RuntimeInv'
<1> SUFFICES ASSUME RuntimeInv, [Next]_vars PROVE RuntimeInv'
  OBVIOUS
<1>1. CASE EntryJump
  BY <1>1, EntryJumpKeeps
<1>2. CASE AddStrings
  BY <1>2, AddStringsKeeps
<1>3. CASE ZeroDivideHandler
  BY <1>3, ZeroDivideKeeps
<1>4. CASE PrintStringHandler
  BY <1>4, PrintStringKeeps
<1>5. CASE StateWord("INKADDR", "PRINTSTR")
  <2>1. StateWord(Order(5), Order(4))
    BY <1>5, OrderValues
  <2> QED BY <2>1, StateWordKeeps
<1>6. CASE StateWord("RAMSTART", "INKADDR")
  <2>1. StateWord(Order(6), Order(5))
    BY <1>6, OrderValues
  <2> QED BY <2>1, StateWordKeeps
<1>7. CASE StateWord("WORKPAGE", "RAMSTART")
  <2>1. StateWord(Order(7), Order(6))
    BY <1>7, OrderValues
  <2> QED BY <2>1, StateWordKeeps
<1>8. CASE StateWord("ACTIVEPAGE", "WORKPAGE")
  <2>1. StateWord(Order(8), Order(7))
    BY <1>8, OrderValues
  <2> QED BY <2>1, StateWordKeeps
<1>9. CASE Blob
  BY <1>9, BlobKeeps
<1>10. CASE ClearNumbers
  BY <1>10, ClearNumbersKeeps
<1>11. CASE ClearStrings
  BY <1>11, ClearStringsKeeps
<1>12. CASE SetupStack
  BY <1>12, SetupStackKeeps
<1>13. CASE RunEntry
  BY <1>13, UnchangedKeeps DEF RunEntry
<1>14. CASE UNCHANGED vars
  BY <1>14, UnchangedKeeps DEF vars
<1> QED
  BY <1>1, <1>2, <1>3, <1>4, <1>5, <1>6, <1>7, <1>8, <1>9, <1>10, <1>11, <1>12, <1>13, <1>14 DEF Next

\* The invariant holds in every state.
LEMMA InvHolds == Spec => []RuntimeInv
  BY InitInv, StepKeeps, PTL DEF Spec

-----------------------------------------------------------------------------
\* Every part of the runtime is at its address in codegen.h, whatever strings
\* the program has.
THEOREM RuntimeStaysInPlace == Spec => []RuntimeInPlace
<1>1. RuntimeInv => RuntimeInPlace
  <2> SUFFICES ASSUME RuntimeInv, NEW p \in DOMAIN Declared \cap DOMAIN at
               PROVE  LOAD + at[p] = Declared[p]
    BY DEF RuntimeInPlace
  <2>1. PICK k \in 0 .. 12 : Stage(k)
    BY DEF RuntimeInv
  <2>2. \A i \in 1 .. 12 : Order(i) \in DOMAIN at => at[Order(i)] = Offset(i - 1)
    BY <2>1 DEF Stage
  <2>3. CASE p = "STRADD"
    <3>1. p = Order(2) /\ Offset(1) = 3
      BY <2>3 DEF Order, Offset
    <3>2. at[p] = Offset(2 - 1)
      BY <2>2, <3>1
    <3>3. at[p] = 3
      BY <3>1, <3>2
    <3> QED BY <2>3, <3>3 DEF Declared, LOAD, STRADD
  <2>4. CASE p = "ZERODIV"
    <3>1. p = Order(3) /\ Offset(2) = 24
      BY <2>4 DEF Order, Offset
    <3>2. at[p] = Offset(3 - 1)
      BY <2>2, <3>1
    <3>3. at[p] = 24
      BY <3>1, <3>2
    <3> QED BY <2>4, <3>3 DEF Declared, LOAD, ZERODIV
  <2>5. CASE p = "PRINTSTR"
    <3>1. p = Order(4) /\ Offset(3) = 72
      BY <2>5 DEF Order, Offset
    <3>2. at[p] = Offset(4 - 1)
      BY <2>2, <3>1
    <3>3. at[p] = 72
      BY <3>1, <3>2
    <3> QED BY <2>5, <3>3 DEF Declared, LOAD, PRINTSTR
  <2>6. CASE p = "INKADDR"
    <3>1. p = Order(5) /\ Offset(4) = 152
      BY <2>6 DEF Order, Offset
    <3>2. at[p] = Offset(5 - 1)
      BY <2>2, <3>1
    <3>3. at[p] = 152
      BY <3>1, <3>2
    <3> QED BY <2>6, <3>3 DEF Declared, LOAD, INKADDR
  <2>7. CASE p = "RAMSTART"
    <3>1. p = Order(6) /\ Offset(5) = 154
      BY <2>7 DEF Order, Offset
    <3>2. at[p] = Offset(6 - 1)
      BY <2>2, <3>1
    <3>3. at[p] = 154
      BY <3>1, <3>2
    <3> QED BY <2>7, <3>3 DEF Declared, LOAD, RAMSTART
  <2>8. CASE p = "WORKPAGE"
    <3>1. p = Order(7) /\ Offset(6) = 156
      BY <2>8 DEF Order, Offset
    <3>2. at[p] = Offset(7 - 1)
      BY <2>2, <3>1
    <3>3. at[p] = 156
      BY <3>1, <3>2
    <3> QED BY <2>8, <3>3 DEF Declared, LOAD, WORKPAGE
  <2>9. CASE p = "ACTIVEPAGE"
    <3>1. p = Order(8) /\ Offset(7) = 158
      BY <2>9 DEF Order, Offset
    <3>2. at[p] = Offset(8 - 1)
      BY <2>2, <3>1
    <3>3. at[p] = 158
      BY <3>1, <3>2
    <3> QED BY <2>9, <3>3 DEF Declared, LOAD, ACTIVEPAGE
  <2>10. CASE p = "strings"
    <3>1. p = Order(9) /\ Offset(8) = 160
      BY <2>10 DEF Order, Offset
    <3>2. at[p] = Offset(9 - 1)
      BY <2>2, <3>1
    <3>3. at[p] = 160
      BY <3>1, <3>2
    <3> QED BY <2>10, <3>3 DEF Declared, LOAD, RUNTIMELEN
  <2> QED
    BY <2>3, <2>4, <2>5, <2>6, <2>7, <2>8, <2>9, <2>10 DEF Declared
<1> QED BY <1>1, InvHolds, PTL

-----------------------------------------------------------------------------
\* The string table leaves room for its end to be an address.
Addressable == \A n \in BlobLengths : LOAD + RUNTIMELEN + n < Segment

\* Calls of handlers of MikeOS go below LOAD and wrap; the entry jump goes
\* beyond the strings.
LEMMA CallLands ==
    ASSUME NEW off \in 0 .. 200, NEW target \in Word16
    PROVE  LET c == CallAt(off, target)
           IN  Wrap(LOAD + Land(c.site, c.rel)) = c.target
<1> DEFINE rel  == (target - (off + 32771)) % 65536
           land == (off + 3 + rel) % 65536
<1>1. target \in Int /\ 0 <= target /\ target < 65536 /\ off \in Int /\ 0 <= off /\ off <= 200
  BY DEF Word16, Segment
<1>2. (32768 + land) % 65536 = target
  <2>1. CASE target >= off + 32771
    <3>1. rel = target - (off + 32771)
      BY <1>1, <2>1
    <3>2. land = target - 32768
      BY <1>1, <2>1, <3>1
    <3> QED BY <1>1, <3>2
  <2>2. CASE target < off + 32771
    <3>1. rel = target - (off + 32771) + 65536
      BY <1>1, <2>2
    <3>2. off + 3 + rel = target + 32768
      BY <1>1, <3>1
    <3>3. land = (target + 32768) % 65536
      BY <3>2
    <3>4. CASE target >= 32768
      BY <1>1, <3>3, <3>4
    <3>5. CASE target < 32768
      BY <1>1, <3>3, <3>5
    <3> QED BY <1>1, <3>4, <3>5
  <2> QED BY <1>1, <2>1, <2>2
<1>3. EmitRel(target, off) = rel
  BY <1>1 DEF EmitRel, Wrap, Segment, LOAD
<1>4. Land(off + 1, rel) = land
  <2>1. off + 1 + 2 + rel = off + 3 + rel
    BY <1>1
  <2> QED BY <2>1 DEF Land, Wrap, Segment
<1> HIDE DEF rel, land
<1> QED
  BY <1>2, <1>3, <1>4 DEF CallAt, Wrap, Segment, LOAD

\* A natural below another one is in the range that ends before it.
LEMMA Below ==
    ASSUME NEW n \in Nat, NEW x \in Nat, x < n PROVE x \in 0 .. n - 1
  OBVIOUS

\* Numbers below the segment size are words.
LEMMA BelowSegment == \A x \in Nat : x < Segment => x \in Word16
<1>1. Segment \in Nat
  BY DEF Segment
<1> QED
  BY <1>1, Below DEF Word16

\* Each call is at a small offset and goes to a word.
LEMMA CalledCalls ==
    ASSUME Addressable, RuntimeInv, NEW c \in Called
    PROVE  \E off \in 0 .. 200, target \in Word16 : c = CallAt(off, target)
<1>1. LOAD + RUNTIMELEN + blobLen \in Word16
  <2>1. blobLen \in BlobLengths /\ blobLen \in Nat
    BY BlobAssumption DEF RuntimeInv
  <2>2. LOAD + RUNTIMELEN + blobLen < Segment
    BY <2>1 DEF Addressable
  <2>3. LOAD + RUNTIMELEN + blobLen \in Nat
    BY <2>1 DEF LOAD, RUNTIMELEN
  <2> QED BY <2>2, <2>3, BelowSegment
<1>2. {3, 15, 57, 63} \subseteq Word16 /\ {0, 8, 20, 28, 143} \subseteq 0 .. 200
  BY DEF Word16, Segment
<1> QED
  BY <1>1, <1>2 DEF Called, Entry

\* The calls of the runtime and its entry jump land where they are meant to,
\* whatever strings the program has, as long as the strings end in the segment.
THEOREM RuntimeCallsLand ==
    ASSUME Addressable PROVE Spec => []CallsReachTarget
<1>1. RuntimeInv => CallsReachTarget
  <2> SUFFICES ASSUME RuntimeInv, NEW c \in calls
               PROVE  Wrap(LOAD + Land(c.site, c.rel)) = c.target
    BY DEF CallsReachTarget
  <2>1. c \in Called
    BY DEF RuntimeInv, Stage
  <2>2. PICK off \in 0 .. 200, target \in Word16 : c = CallAt(off, target)
    BY <2>1, CalledCalls
  <2> QED BY <2>2, CallLands
<1> QED BY <1>1, InvHolds, PTL

\* The entry jump is the only call at the beginning of the code.
LEMMA TargetIsEntry ==
    ASSUME RuntimeInv, "jump" \in DOMAIN at PROVE Target = Entry
<1>1. PICK k \in 0 .. 12 : Stage(k)
  BY DEF RuntimeInv
<1>2. k > 0
  <2>1. "jump" = Order(1)
    BY OrderValues
  <2>2. Order(1) \in DOMAIN at <=> 1 <= k
    BY <1>1 DEF Stage
  <2> QED BY <2>1, <2>2
<1>3. Entry \in calls /\ Entry.site = 1
  BY <1>1, <1>2 DEF Stage, Entry, CallAt
<1>4. \A c \in calls : c.site = 1 => c = Entry
  BY <1>1 DEF Stage, Called, CallAt
<1> QED
  BY <1>3, <1>4 DEF Target

\* The disassembler goes on at the first instruction behind the strings.
THEOREM RuntimeIsSkipped ==
    ASSUME Addressable PROVE Spec => []ProgramIsShown
<1>1. RuntimeInv => ProgramIsShown
  <2> SUFFICES ASSUME RuntimeInv, "clear" \in DOMAIN at PROVE ShownFrom = at["clear"]
    BY DEF ProgramIsShown
  <2>1. PICK k \in 0 .. 12 : Stage(k)
    BY DEF RuntimeInv
  <2>2. k >= 10
    <3>1. "clear" = Order(10)
      BY OrderValues
    <3>2. Order(10) \in DOMAIN at <=> 10 <= k
      BY <2>1 DEF Stage
    <3> QED BY <3>1, <3>2
  <2>3. "jump" \in DOMAIN at /\ at["clear"] = Offset(9)
    <3>1. "jump" = Order(1) /\ "clear" = Order(10)
      BY OrderValues
    <3>2. Order(1) \in DOMAIN at /\ at[Order(10)] = Offset(10 - 1)
      BY <2>1, <2>2 DEF Stage
    <3> QED BY <3>1, <3>2
  <2>4. blobLen \in Nat /\ LOAD + RUNTIMELEN + blobLen < Segment
    BY BlobAssumption DEF RuntimeInv, Addressable
  <2>5. Target.rel = 157 + blobLen
    BY <2>3, <2>4, TargetIsEntry DEF Entry, CallAt, EmitRel, Wrap, Segment, LOAD, RUNTIMELEN
  <2>6. ShownFrom = 160 + blobLen
    BY <2>4, <2>5 DEF ShownFrom, RUNTIMELEN
  <2>7. Offset(9) = 160 + blobLen
    BY DEF Offset
  <2> QED BY <2>3, <2>6, <2>7
<1> QED BY <1>1, InvHolds, PTL
=============================================================================
