------------------------- MODULE PluginInstallProofs -------------------------
(***************************************************************************)
(* Theorems of PluginInstall for any plugins, sections, texts and bounds.  *)
(*                                                                         *)
(* OldOrNew is not inductive: that the backup may be put back over what    *)
(* was just activated rests on the backup being the user's version from    *)
(* the first rename on, and that the backup may be removed on the new      *)
(* version being the user's by then (Held).                                *)
(*                                                                         *)
(* Of config.txt: a line that is put at the end of its section leaves an   *)
(* orderly text orderly (PlacedIsOrderly), and until the first fault a     *)
(* whole text is somewhere whenever the other is being replaced (RowsInv). *)
(***************************************************************************)
EXTENDS PluginInstall, SequenceTheorems, WellFoundedInduction, TLAPS

-----------------------------------------------------------------------------
(* The plugin's files *)

FilesType ==
    /\ dest \in [Plugin -> Content] /\ new \in [Plugin -> Content] /\ bak \in [Plugin -> Content]
    /\ owned \in [Plugin -> Content]
    /\ p \in Plugin /\ ver \in 1 .. MaxInstalls + 1

\* Where the old version is at each place of the worker.
Held ==
    /\ pc \in {"check", "copy", "aside"} => replacing = (dest[p] # None)
    /\ pc \in {"copy", "aside"} => bak[p] = None
    /\ pc \in {"aside", "activate"} => new[p] = ver
    /\ pc \in {"activate", "back", "edit", "remove", "swap", "direct", "undo", "restore"} =>
         (owned[p] # None => bak[p] = owned[p])
    /\ pc \in {"edit", "remove", "swap", "direct", "undo", "tidy"} => dest[p] = ver
    /\ pc = "tidy" => owned[p] = ver

NeverTorn == \A q \in Plugin : dest[q] # Torn /\ bak[q] # Torn

FilesInv == FilesType /\ OldOrNew /\ NeverTorn /\ Held

LEMMA Contents == /\ None \in Content /\ Torn \in Content /\ None # Torn
                  /\ \A v \in 1 .. MaxInstalls + 1 : v \in Content /\ v # Torn /\ v # None
  BY BoundAssumption DEF None, Torn, Content

LEMMA FilesInit == Init => FilesInv
  BY Contents, BoundAssumption
     DEF Init, FilesInv, FilesType, OldOrNew, NeverTorn, Held, None, Torn, Content

LEMMA FilesStep ==
  ASSUME FilesInv, [Next]_vars
  PROVE  FilesInv'
  <1> USE Contents DEF FilesInv, FilesType, OldOrNew, NeverTorn, Held, files, story
  <1>1. ASSUME NEW q \in Plugin, Request(q) PROVE FilesInv'
    BY <1>1, BoundAssumption DEF Request
  <1>2. ASSUME NEW q \in Plugin, Disable(q) PROVE FilesInv'
    BY <1>2 DEF Disable
  <1>3. CASE Check
    BY <1>3 DEF Check, MayGoOn, Fail
  <1>4. CASE Copy
    BY <1>4 DEF Copy, Fail, DropStage
  <1>5. CASE Aside
    BY <1>5 DEF Aside, Fail, DropStage
  <1>6. CASE Activate
    BY <1>6 DEF Activate
  <1>7. CASE Back
    BY <1>7 DEF Back, Fail, DropStage
  <1>8. CASE Registered
    BY <1>8 DEF Registered, Edited
  <1>9. CASE EditFails
    BY <1>9 DEF EditFails
  <1>10. CASE WriteTmp
    BY <1>10 DEF WriteTmp
  <1>11. CASE RemoveConfig
    BY <1>11 DEF RemoveConfig
  <1>12. CASE Swap
    BY <1>12 DEF Swap, Edited
  <1>13. CASE Direct
    BY <1>13 DEF Direct, Edited
  <1>14. CASE Undo
    BY <1>14 DEF Undo, Fail
  <1>15. CASE Restore
    BY <1>15 DEF Restore, Fail
  <1>16. CASE Tidy
    BY <1>16 DEF Tidy
  <1>17. CASE PowerCut
    BY <1>17 DEF PowerCut
  <1>18. CASE UNCHANGED vars
    BY <1>18 DEF vars
  <1>19. QED
    BY <1>1, <1>2, <1>3, <1>4, <1>5, <1>6, <1>7, <1>8, <1>9, <1>10, <1>11, <1>12,
       <1>13, <1>14, <1>15, <1>16, <1>17, <1>18 DEF Next

\* The user's plugin survives every failed operation and every power cut, for any
\* number of them (install_controller.cpp, the plugin branch of workerMain).
THEOREM PluginKept == Spec => []OldOrNew
  <1>1. Init => FilesInv
    BY FilesInit
  <1>2. FilesInv /\ [Next]_vars => FilesInv'
    BY FilesStep
  <1>3. FilesInv => OldOrNew
    BY DEF FilesInv
  <1>4. QED
    BY <1>1, <1>2, <1>3, PTL DEF Spec

-----------------------------------------------------------------------------
(* The texts: where a line is put *)

LEMMA LeastNatural ==
  ASSUME NEW T \in SUBSET Nat, T # {}
  PROVE  \E x \in T : \A y \in T : x <= y
  <1>1. PICK x \in T : \A y \in T : ~(<<y, x>> \in OpToRel(<, Nat))
    BY WFMin, NatLessThanWellFounded, Zenon
  <1>2. \A y \in T : ~(y < x)
    BY <1>1 DEF OpToRel
  <1>3. QED
    BY <1>2

LineOf(q) == <<"line", q>>
HeaderOf(q) == <<"header", SectionOf[q]>>

LEMMA RowFacts ==
  ASSUME NEW q \in Plugin
  PROVE  /\ LineOf(q) \in Row /\ ~IsHeader(LineOf(q)) /\ \A r \in Plugin : LineOf(r) = LineOf(q) => r = q
         /\ SectionOf[q] # NoSection => HeaderOf(q) \in Row
         /\ IsHeader(HeaderOf(q)) /\ \A r \in Plugin : HeaderOf(q) # LineOf(r)
  BY SectionAssumption DEF LineOf, HeaderOf, Row, IsHeader

\* s is what rows become when a row is put at place n.
Placed(rows, n, row, s) ==
  /\ s \in Seq(Row) /\ Len(s) = Len(rows) + 1
  /\ s[n] = row
  /\ \A k \in 1 .. n - 1 : s[k] = rows[k]
  /\ \A k \in n .. Len(rows) : s[k + 1] = rows[k]

LEMMA AppendPlaces ==
  ASSUME NEW rows \in Seq(Row), NEW row \in Row
  PROVE  Placed(rows, Len(rows) + 1, row, Append(rows, row))
  BY AppendProperties, LenProperties DEF Placed

LEMMA InsertPlaces ==
  ASSUME NEW rows \in Seq(Row), NEW row \in Row, NEW n \in 1 .. Len(rows)
  PROVE  Placed(rows, n, row, InsertAt(rows, n, row))
  <1> DEFINE a == SubSeq(rows, 1, n - 1)
             b == SubSeq(rows, n, Len(rows))
  <1>0. Len(rows) \in Nat /\ \A i \in 1 .. Len(rows) : rows[i] \in Row
    BY LenProperties, ElementOfSeq
  <1>1. a \in Seq(Row) /\ Len(a) = n - 1 /\ \A i \in 1 .. n - 1 : a[i] = rows[i]
    BY <1>0, SubSeqProperties
  <1>2. b \in Seq(Row) /\ Len(b) = Len(rows) - n + 1 /\ \A i \in 1 .. Len(rows) - n + 1 : b[i] = rows[n + i - 1]
    BY <1>0, SubSeqProperties
  <1>3. <<row>> \in Seq(Row) /\ Len(<<row>>) = 1 /\ <<row>>[1] = row
    OBVIOUS
  <1> HIDE DEF a, b
  <1> DEFINE c == a \o <<row>>
  <1>4. /\ c \in Seq(Row) /\ Len(c) = n
        /\ \A i \in 1 .. n : c[i] = IF i <= n - 1 THEN a[i] ELSE <<row>>[i - (n - 1)]
    BY <1>0, <1>1, <1>3, ConcatProperties
  <1>5. c[n] = row /\ \A i \in 1 .. n - 1 : c[i] = rows[i]
    BY <1>0, <1>1, <1>3, <1>4
  <1> HIDE DEF c
  <1>6. /\ c \o b \in Seq(Row) /\ Len(c \o b) = Len(rows) + 1
        /\ \A i \in 1 .. Len(rows) + 1 : (c \o b)[i] = IF i <= n THEN c[i] ELSE b[i - n]
    <2>1. /\ c \o b \in Seq(Row) /\ Len(c \o b) = Len(c) + Len(b)
          /\ \A i \in 1 .. Len(c) + Len(b) : (c \o b)[i] = IF i <= Len(c) THEN c[i] ELSE b[i - Len(c)]
      BY <1>2, <1>4, ConcatProperties
    <2>2. Len(c) = n /\ Len(c) + Len(b) = Len(rows) + 1
      BY <1>0, <1>2, <1>4
    <2>3. QED
      BY <2>1, <2>2
  <1>7. InsertAt(rows, n, row) = c \o b
    BY DEF InsertAt, a, b, c
  <1>8. \A k \in n .. Len(rows) : (c \o b)[k + 1] = rows[k]
    BY <1>0, <1>2, <1>6
  <1>9. (c \o b)[n] = row /\ \A k \in 1 .. n - 1 : (c \o b)[k] = rows[k]
    <2>1. \A k \in 1 .. n : (c \o b)[k] = c[k]
      BY <1>0, <1>6
    <2>2. n \in 1 .. n /\ \A k \in 1 .. n - 1 : k \in 1 .. n
      BY <1>0
    <2>3. QED
      BY <1>5, <2>1, <2>2
  <1>10. QED
    BY <1>6, <1>7, <1>8, <1>9 DEF Placed

LEMMA PlacedKeeps ==
  ASSUME NEW rows \in Seq(Row), NEW row, NEW n \in 1 .. Len(rows) + 1, NEW s, Placed(rows, n, row, s)
  PROVE  ToSet(rows) \subseteq ToSet(s)
  <1>1. Len(rows) \in Nat /\ DOMAIN rows = 1 .. Len(rows) /\ DOMAIN s = 1 .. Len(rows) + 1
    BY LenProperties DEF Placed
  <1>2. ASSUME NEW i \in 1 .. Len(rows) PROVE \E j \in 1 .. Len(rows) + 1 : s[j] = rows[i]
    <2>1. CASE i < n
      BY <1>1, <2>1 DEF Placed
    <2>2. CASE i >= n
      <3>1. i + 1 \in 1 .. Len(rows) + 1 /\ s[i + 1] = rows[i]
        BY <1>1, <2>2 DEF Placed
      <3>2. QED
        BY <3>1
    <2>3. QED
      BY <1>1, <2>1, <2>2
  <1>3. QED
    BY <1>1, <1>2 DEF ToSet

\* A line that was nowhere may be put below the header of its section, before any
\* other header.
LEMMA PlacedIsOrderly ==
  ASSUME NEW rows \in Seq(Row), Orderly(rows), NEW q \in Plugin,
         \A i \in DOMAIN rows : rows[i] # LineOf(q),
         NEW n \in 1 .. Len(rows) + 1, NEW s, Placed(rows, n, LineOf(q), s),
         n <= Len(rows) => IsHeader(rows[n]),
         NEW h \in 1 .. n - 1, rows[h] = HeaderOf(q), \A k \in h + 1 .. n - 1 : ~IsHeader(rows[k])
  PROVE  Orderly(s)
  <1>0. Len(rows) \in Nat /\ DOMAIN rows = 1 .. Len(rows) /\ DOMAIN s = 1 .. Len(rows) + 1
    BY LenProperties DEF Placed
  <1> DEFINE old(i) == IF i < n THEN i ELSE i - 1
  <1>1. \A i \in DOMAIN s : i # n => old(i) \in DOMAIN rows /\ s[i] = rows[old(i)]
    <2> SUFFICES ASSUME NEW i \in DOMAIN s, i # n PROVE old(i) \in DOMAIN rows /\ s[i] = rows[old(i)]
      OBVIOUS
    <2>1. CASE i < n
      BY <1>0, <2>1 DEF Placed
    <2>2. CASE i > n
      <3>1. i - 1 \in n .. Len(rows) /\ (i - 1) + 1 = i
        BY <1>0, <2>2
      <3>2. QED
        BY <1>0, <2>2, <3>1 DEF Placed
    <2>3. QED
      BY <1>0, <2>1, <2>2
  <1> SUFFICES ASSUME NEW i \in DOMAIN s, NEW j \in DOMAIN s, NEW r \in Plugin, s[i] = LineOf(r)
               PROVE  /\ s[j] = LineOf(r) => i = j
                      /\ \E g \in 1 .. i - 1 : s[g] = HeaderOf(r) /\ \A k \in g + 1 .. i : ~IsHeader(s[k])
    BY DEF Orderly, LineOf, HeaderOf
  <1>2. s[n] = LineOf(q)
    BY DEF Placed
  <1>3. s[j] = LineOf(r) => i = j
    <2>1. CASE i = n \/ j = n
      <3>1. s[j] = LineOf(r) => r = q
        BY <1>2, <2>1, RowFacts
      <3>2. QED
        BY <1>1, <2>1, <3>1
    <2>2. CASE i # n /\ j # n
      <3>1. s[j] = LineOf(r) => old(i) = old(j)
        BY <1>1, <2>2 DEF Orderly, LineOf
      <3>2. QED
        BY <1>0, <2>2, <3>1
    <2>3. QED
      BY <2>1, <2>2
  <1>4. \E g \in 1 .. i - 1 : s[g] = HeaderOf(r) /\ \A k \in g + 1 .. i : ~IsHeader(s[k])
    <2>1. CASE i = n
      <3>1. r = q
        BY <1>2, <2>1, RowFacts
      <3>2. s[h] = HeaderOf(q)
        BY <1>0 DEF Placed
      <3>3. \A k \in h + 1 .. n : ~IsHeader(s[k])
        BY <1>0, <1>2, RowFacts DEF Placed
      <3>4. QED
        BY <2>1, <3>1, <3>2, <3>3
    <2>2. CASE i # n
      <3>1. PICK g \in 1 .. old(i) - 1 : rows[g] = HeaderOf(r) /\ \A k \in g + 1 .. old(i) : ~IsHeader(rows[k])
        BY <1>1, <2>2 DEF Orderly, LineOf, HeaderOf
      <3>2. CASE i < n
        <4>1. g \in 1 .. i - 1 /\ s[g] = HeaderOf(r)
          BY <1>0, <3>1, <3>2 DEF Placed
        <4>2. \A k \in g + 1 .. i : ~IsHeader(s[k])
          BY <1>0, <3>1, <3>2 DEF Placed
        <4>3. QED
          BY <4>1, <4>2
      <3>3. CASE i > n
        <4>1. g >= n
          BY <1>0, <3>1, <3>3
        <4>2. g + 1 \in 1 .. i - 1 /\ s[g + 1] = HeaderOf(r)
          BY <1>0, <3>1, <3>3, <4>1 DEF Placed
        <4>3. \A k \in (g + 1) + 1 .. i : ~IsHeader(s[k])
          <5> SUFFICES ASSUME NEW k \in (g + 1) + 1 .. i PROVE ~IsHeader(s[k])
            OBVIOUS
          <5>1. k # n /\ old(k) = k - 1 /\ k - 1 \in g + 1 .. old(i) /\ k \in DOMAIN s
            BY <1>0, <3>3, <4>1
          <5>2. QED
            BY <1>1, <3>1, <5>1
        <4>4. QED
          BY <4>2, <4>3
      <3>4. QED
        BY <1>0, <2>2, <3>2, <3>3
    <2>3. QED
      BY <2>1, <2>2
  <1>5. QED
    BY <1>3, <1>4

\* appendLineToSection loses no row and keeps the lines in their sections.
LEMMA InsertedFacts ==
  ASSUME NEW rows \in Seq(Row), NEW q \in Plugin, SectionOf[q] # NoSection
  PROVE  /\ Inserted(rows, q) \in Seq(Row)
         /\ ToSet(rows) \subseteq ToSet(Inserted(rows, q))
         /\ Orderly(rows) /\ (\A i \in DOMAIN rows : rows[i] # LineOf(q)) => Orderly(Inserted(rows, q))
  <1> DEFINE start == {i \in DOMAIN rows : rows[i] = <<"header", SectionOf[q]>>}
             first == CHOOSE i \in start : \A j \in start : i <= j
             after == {i \in DOMAIN rows : i > first /\ IsHeader(rows[i])}
             next  == CHOOSE i \in after : \A j \in after : i <= j
             unlisted   == \A i \in DOMAIN rows : rows[i] # LineOf(q)
  <1>0. Len(rows) \in Nat /\ DOMAIN rows = 1 .. Len(rows) /\ LineOf(q) \in Row /\ HeaderOf(q) \in Row
    BY LenProperties, RowFacts
  <1>1. CASE start = {}
    <2> DEFINE one == Append(rows, HeaderOf(q))
               two == Append(one, LineOf(q))
    <2>1. one \in Seq(Row) /\ Len(one) = Len(rows) + 1 /\ Placed(rows, Len(rows) + 1, HeaderOf(q), one)
      BY <1>0, AppendPlaces DEF Placed
    <2>2. two \in Seq(Row) /\ Placed(one, Len(one) + 1, LineOf(q), two)
      BY <1>0, <2>1, AppendPlaces DEF Placed
    <2>3. Inserted(rows, q) = two
      <3>1. Inserted(rows, q) = rows \o <<HeaderOf(q), LineOf(q)>>
        BY <1>1 DEF Inserted, HeaderOf, LineOf
      <3>2. rows \o <<HeaderOf(q), LineOf(q)>> = two
        BY <1>0
      <3>3. QED
        BY <3>1, <3>2
    <2>4. ToSet(rows) \subseteq ToSet(two)
      <3>1. Len(rows) + 1 \in 1 .. Len(rows) + 1 /\ Len(one) + 1 \in 1 .. Len(one) + 1
        BY <1>0, <2>1
      <3> HIDE DEF one, two
      <3>2. ToSet(rows) \subseteq ToSet(one) /\ ToSet(one) \subseteq ToSet(two)
        BY <2>1, <2>2, <3>1, PlacedKeeps
      <3>3. QED
        BY <3>2
    <2>5. ASSUME Orderly(rows), unlisted PROVE Orderly(two)
      <3>1. \A i \in 1 .. Len(rows) : one[i] = rows[i]
        BY <1>0, <2>1 DEF Placed
      <3>2. one[Len(rows) + 1] = HeaderOf(q)
        BY <2>1 DEF Placed
      <3>3. DOMAIN one = 1 .. Len(rows) + 1
        BY <2>1, LenProperties
      <3>4. \A i \in DOMAIN one : one[i] # LineOf(q)
        BY <1>0, <2>5, <3>1, <3>2, <3>3, RowFacts
      <3>5. Orderly(one)
        <4> SUFFICES ASSUME NEW i \in DOMAIN one, NEW j \in DOMAIN one, NEW r \in Plugin, one[i] = LineOf(r)
                     PROVE  /\ one[j] = LineOf(r) => i = j
                            /\ \E g \in 1 .. i - 1 : one[g] = HeaderOf(r) /\ \A k \in g + 1 .. i : ~IsHeader(one[k])
          BY DEF Orderly, LineOf, HeaderOf
        <4>1. i \in 1 .. Len(rows) /\ rows[i] = LineOf(r)
          BY <1>0, <3>1, <3>2, <3>3, RowFacts
        <4>2. one[j] = LineOf(r) => i = j
          <5>1. one[j] = LineOf(r) => j \in 1 .. Len(rows) /\ rows[j] = LineOf(r)
            BY <1>0, <3>1, <3>2, <3>3, RowFacts
          <5>2. QED
            BY <1>0, <2>5, <4>1, <5>1 DEF Orderly, LineOf
        <4>3. PICK g \in 1 .. i - 1 : rows[g] = HeaderOf(r) /\ \A k \in g + 1 .. i : ~IsHeader(rows[k])
          BY <1>0, <2>5, <4>1 DEF Orderly, LineOf, HeaderOf
        <4>4. one[g] = HeaderOf(r) /\ \A k \in g + 1 .. i : ~IsHeader(one[k])
          BY <1>0, <3>1, <4>1, <4>3
        <4>5. QED
          BY <4>2, <4>4
      <3> HIDE DEF one, two
      <3>6. Len(one) + 1 \in 1 .. Len(one) + 1 /\ Len(one) \in 1 .. (Len(one) + 1) - 1 /\ one[Len(one)] = HeaderOf(q)
        BY <1>0, <2>1, <3>2
      <3>7. QED
        BY <1>0, <2>1, <2>2, <3>4, <3>5, <3>6, PlacedIsOrderly
    <2>6. QED
      BY <2>2, <2>3, <2>4, <2>5
  <1>2. CASE start # {}
    <2>1. first \in start /\ first \in 1 .. Len(rows) /\ rows[first] = HeaderOf(q)
      <3>1. start \in SUBSET Nat
        BY <1>0
      <3>2. \E i \in start : \A j \in start : i <= j
        BY <1>2, <3>1, LeastNatural
      <3>3. first \in start
        BY <3>2
      <3>4. QED
        BY <1>0, <3>3 DEF HeaderOf
    <2>0. first \in Nat /\ \A k \in 1 .. Len(rows) : k > first /\ IsHeader(rows[k]) => k \in after
      BY <1>0, <2>1
    <2>2. CASE after = {}
      <3>1. Inserted(rows, q) = Append(rows, LineOf(q))
        BY <1>2, <2>2 DEF Inserted, LineOf
      <3>2. Placed(rows, Len(rows) + 1, LineOf(q), Append(rows, LineOf(q)))
        BY <1>0, AppendPlaces
      <3>3. \A k \in first + 1 .. Len(rows) : ~IsHeader(rows[k])
        <4> HIDE DEF first, after
        <4>1. QED
          BY <1>0, <2>0, <2>2
      <3> HIDE DEF start, first, after, next
      <3>4. ToSet(rows) \subseteq ToSet(Append(rows, LineOf(q)))
        BY <1>0, <3>2, PlacedKeeps
      <3>5. Orderly(rows) /\ unlisted => Orderly(Append(rows, LineOf(q)))
        BY <1>0, <2>1, <3>2, <3>3, PlacedIsOrderly
      <3>6. QED
        BY <3>1, <3>2, <3>4, <3>5 DEF Placed
    <2>3. CASE after # {}
      <3>1. next \in after /\ \A j \in after : next <= j
        <4>1. after \in SUBSET Nat
          BY <1>0
        <4>2. \E i \in after : \A j \in after : i <= j
          BY <2>3, <4>1, LeastNatural
        <4>3. QED
          BY <4>2
      <3>2. next \in 1 .. Len(rows) /\ next > first /\ IsHeader(rows[next])
        BY <1>0, <3>1
      <3>3. \A k \in first + 1 .. next - 1 : ~IsHeader(rows[k])
        <4> HIDE DEF first, after, next
        <4>1. QED
          BY <1>0, <2>0, <3>1, <3>2
      <3>4. Inserted(rows, q) = InsertAt(rows, next, LineOf(q))
        BY <1>2, <2>3 DEF Inserted, LineOf
      <3> HIDE DEF start, first, after, next
      <3>5. Placed(rows, next, LineOf(q), InsertAt(rows, next, LineOf(q)))
        BY <1>0, <3>2, InsertPlaces
      <3>6. ToSet(rows) \subseteq ToSet(InsertAt(rows, next, LineOf(q)))
        BY <1>0, <3>2, <3>5, PlacedKeeps
      <3>7. Orderly(rows) /\ unlisted => Orderly(InsertAt(rows, next, LineOf(q)))
        BY <1>0, <2>1, <3>2, <3>3, <3>5, PlacedIsOrderly
      <3>8. QED
        BY <3>4, <3>5, <3>6, <3>7 DEF Placed
    <2>4. QED
      BY <2>2, <2>3
  <1>3. QED
    BY <1>1, <1>2

\* A text cut short is still orderly, and no row moves.
LEMMA CutFacts ==
  ASSUME NEW rows \in Seq(Row), NEW text \in Cut(rows)
  PROVE  /\ text.there /\ text \in Text
         /\ Orderly(rows) => Orderly(text.rows)
  <1>1. PICK n \in 0 .. Len(rows) : text = [there |-> TRUE, rows |-> SubSeq(rows, 1, n)]
    BY DEF Cut
  <1>2. Len(rows) \in Nat /\ DOMAIN rows = 1 .. Len(rows) /\ \A i \in 1 .. Len(rows) : rows[i] \in Row
    BY LenProperties, ElementOfSeq
  <1> DEFINE s == SubSeq(rows, 1, n)
  <1>3. s \in Seq(Row) /\ Len(s) = n /\ \A i \in 1 .. n : s[i] = rows[i]
    BY <1>1, <1>2, SubSeqProperties
  <1>4. DOMAIN s = 1 .. n
    BY <1>3, LenProperties
  <1> HIDE DEF s
  <1>5. ASSUME Orderly(rows) PROVE Orderly(s)
    <2> SUFFICES ASSUME NEW i \in 1 .. n, NEW j \in 1 .. n, NEW q \in Plugin, s[i] = <<"line", q>>
                 PROVE  /\ s[j] = <<"line", q>> => i = j
                        /\ \E h \in 1 .. i - 1 : /\ s[h] = <<"header", SectionOf[q]>>
                                                 /\ \A k \in h + 1 .. i : ~IsHeader(s[k])
      BY <1>4 DEF Orderly
    <2>1. i \in DOMAIN rows /\ j \in DOMAIN rows /\ rows[i] = <<"line", q>> /\ rows[j] = s[j]
      BY <1>1, <1>2, <1>3
    <2>2. rows[j] = <<"line", q>> => i = j
      BY <1>5, <2>1 DEF Orderly
    <2>3. PICK h \in 1 .. i - 1 : rows[h] = <<"header", SectionOf[q]>> /\ \A k \in h + 1 .. i : ~IsHeader(rows[k])
      BY <1>5, <2>1 DEF Orderly
    <2>4. s[h] = rows[h] /\ \A k \in h + 1 .. i : s[k] = rows[k]
      BY <1>2, <1>3
    <2>5. QED
      BY <2>1, <2>2, <2>3, <2>4
  <1>6. QED
    BY <1>1, <1>3, <1>5 DEF s, Text

-----------------------------------------------------------------------------
(* The texts: what is on the card *)

TextsType == conf \in Text /\ tmp \in Text /\ out \in Seq(Row) /\ faults \in Nat /\ p \in Plugin

OrderInv == Orderly(conf.rows) /\ Orderly(tmp.rows) /\ Orderly(out)

\* Up to the first fault there is a whole text wherever the other one is being
\* replaced, and the fallback is taken after a fault only.
RowsInv ==
  faults <= 1 =>
    /\ conf.there => own \subseteq ToSet(conf.rows)
    /\ ~conf.there /\ pc # "direct" => own = {} \/ RowsKept(tmp)
    /\ pc \in {"remove", "swap"} => RowsKept(tmp)
    /\ pc \in {"remove", "swap", "direct"} => own \subseteq ToSet(out)
    /\ pc = "swap" /\ faults = 0 => ~conf.there
    /\ pc = "direct" => faults = 1

TextsInv == TextsType /\ OrderInv /\ RowsInv

LEMMA EmptyFacts == NoText \in Text /\ Orderly(<<>>) /\ Orderly(NoText.rows) /\ ~NoText.there
  <1>1. <<>> \in Seq(Row) /\ DOMAIN <<>> = {}
    BY EmptySeq
  <1>2. QED
    BY <1>1 DEF NoText, Text, Orderly

LEMMA WholeFacts ==
  ASSUME NEW rows \in Seq(Row)
  PROVE  Whole(rows) \in Text /\ Whole(rows).there /\ Whole(rows).rows = rows
  BY DEF Whole, Text

LEMMA TextsInit == Init => TextsInv
  <1> SUFFICES ASSUME Init PROVE TextsInv
    OBVIOUS
  <1>1. conf \in Text /\ Orderly(conf.rows) /\ (~conf.there => conf.rows = <<>>)
    BY ConfigAssumption DEF Init, Text
  <1>2. <<>> \in Seq(Row) /\ ToSet(<<>>) = {}
    BY EmptySeq DEF ToSet
  <1>3. TextsType /\ OrderInv
    BY <1>1, <1>2, EmptyFacts DEF Init, TextsType, OrderInv
  <1>4. RowsInv
    BY <1>1, <1>2 DEF Init, RowsInv
  <1>5. QED
    BY <1>3, <1>4 DEF TextsInv

\* AutoPlugin's edit turns one line into a comment.
LEMMA DisableStep ==
  ASSUME TextsInv, NEW q \in Plugin, Disable(q)
  PROVE  TextsInv'
  <1> DEFINE s == [i \in DOMAIN conf.rows |->
                     IF conf.rows[i] = <<"line", q>> THEN <<"comment", q>> ELSE conf.rows[i]]
  <1>0. /\ conf.rows \in Seq(Row) /\ Len(conf.rows) \in Nat /\ DOMAIN conf.rows = 1 .. Len(conf.rows)
        /\ \A i \in DOMAIN conf.rows : conf.rows[i] \in Row
    BY LenProperties, ElementOfSeq DEF TextsInv, TextsType, Text
  <1>1. s \in Seq(Row)
    <2>1. <<"comment", q>> \in Row
      BY DEF Row
    <2>2. s \in [1 .. Len(conf.rows) -> Row]
      BY <1>0, <2>1
    <2>3. QED
      BY <1>0, <2>2, SeqDef
  <1>2. conf' = Whole(s) /\ conf.there /\ conf'.rows = s /\ conf'.there /\ conf' \in Text
    BY <1>1, WholeFacts DEF Disable, Lists
  <1>3. Orderly(s)
    <2>1. \A i \in DOMAIN s : /\ IsHeader(s[i]) <=> IsHeader(conf.rows[i])
                              /\ IsHeader(conf.rows[i]) => s[i] = conf.rows[i]
                              /\ \A r \in Plugin : s[i] = <<"line", r>> => conf.rows[i] = <<"line", r>>
      BY DEF IsHeader
    <2>2. DOMAIN s = DOMAIN conf.rows /\ \A r : IsHeader(<<"header", r>>)
      BY DEF IsHeader
    <2>3. Orderly(conf.rows)
      BY DEF TextsInv, OrderInv
    <2> HIDE DEF s
    <2> SUFFICES ASSUME NEW i \in DOMAIN s, NEW j \in DOMAIN s, NEW r \in Plugin, s[i] = <<"line", r>>
                 PROVE  /\ s[j] = <<"line", r>> => i = j
                        /\ \E h \in 1 .. i - 1 : /\ s[h] = <<"header", SectionOf[r]>>
                                                 /\ \A k \in h + 1 .. i : ~IsHeader(s[k])
      BY DEF Orderly
    <2>4. s[j] = <<"line", r>> => i = j
      BY <2>1, <2>2, <2>3 DEF Orderly
    <2>5. PICK h \in 1 .. i - 1 : /\ conf.rows[h] = <<"header", SectionOf[r]>>
                                  /\ \A k \in h + 1 .. i : ~IsHeader(conf.rows[k])
      BY <2>1, <2>2, <2>3 DEF Orderly
    <2>6. h \in DOMAIN s /\ \A k \in h + 1 .. i : k \in DOMAIN s
      BY <1>0, <2>2
    <2>7. QED
      BY <2>1, <2>2, <2>4, <2>5, <2>6
  <1>4. ToSet(s) = {IF r = <<"line", q>> THEN <<"comment", q>> ELSE r : r \in ToSet(conf.rows)}
    BY DEF ToSet
  <1>5. <<"line", q>> \in ToSet(conf.rows)
    BY DEF Disable, Lists, ToSet
  <1>6. UNCHANGED <<tmp, out, pc, p, faults>> /\ pc = "off"
        /\ own' = (own \ {<<"line", q>>}) \cup {<<"comment", q>>}
    BY DEF Disable, files
  <1> HIDE DEF s
  <1>7. own \subseteq ToSet(conf.rows) => own' \subseteq ToSet(s)
    BY <1>4, <1>5, <1>6
  <1>8. QED
    BY <1>2, <1>3, <1>6, <1>7 DEF TextsInv, TextsType, OrderInv, RowsInv

\* The steps that leave both texts alone.
LEMMA QuietStep ==
  ASSUME TextsInv, UNCHANGED <<texts, own>>, pc \notin {"remove", "swap", "direct"} \/ pc' = pc,
         pc' \notin {"remove", "swap", "direct"} \/ pc' = pc,
         p' \in Plugin, faults' \in {faults, faults + 1}, pc' = pc => faults' = faults
  PROVE  TextsInv'
  BY DEF TextsInv, TextsType, OrderInv, RowsInv, RowsKept, texts

LEMMA TextsStep ==
  ASSUME TextsInv, [Next]_vars
  PROVE  TextsInv'
  <1> USE DEF Sound, Fault
  <1>0. /\ conf \in Text /\ conf.rows \in Seq(Row) /\ tmp \in Text /\ out \in Seq(Row) /\ faults \in Nat /\ p \in Plugin
        /\ Orderly(conf.rows) /\ Orderly(tmp.rows) /\ Orderly(out)
    BY DEF TextsInv, TextsType, OrderInv, Text
  <1>1. CASE \E q \in Plugin : Request(q)
    BY <1>1, QuietStep DEF Request, story
  <1>2. CASE \E q \in Plugin : Disable(q)
    BY <1>2, DisableStep
  <1>3. CASE Check \/ Copy \/ Aside \/ Activate \/ Back \/ Registered \/ Undo \/ Restore \/ Tidy
    <2>1. pc # pc' /\ p' = p /\ faults' \in {faults, faults + 1} /\ UNCHANGED <<texts, own>>
      BY <1>3 DEF Check, Copy, Aside, Activate, Back, Registered, Undo, Restore, Tidy, Fail, Edited, story
    <2>2. {pc, pc'} \cap {"remove", "swap", "direct"} = {}
      BY <1>3 DEF Check, Copy, Aside, Activate, Back, Registered, Undo, Restore, Tidy, Fail, Edited
    <2>3. QED
      BY <1>0, <2>1, <2>2, QuietStep
  <1>4. SectionOf[p] # NoSection /\ conf.there /\ ~Lists(conf, p) =>
          /\ Inserted(conf.rows, p) \in Seq(Row) /\ Orderly(Inserted(conf.rows, p))
          /\ ToSet(conf.rows) \subseteq ToSet(Inserted(conf.rows, p))
          /\ \A text \in Cut(Inserted(conf.rows, p)) : text \in Text /\ Orderly(text.rows)
    <2> SUFFICES ASSUME SectionOf[p] # NoSection, conf.there, ~Lists(conf, p)
                 PROVE  /\ Inserted(conf.rows, p) \in Seq(Row) /\ Orderly(Inserted(conf.rows, p))
                        /\ ToSet(conf.rows) \subseteq ToSet(Inserted(conf.rows, p))
                        /\ \A text \in Cut(Inserted(conf.rows, p)) : text \in Text /\ Orderly(text.rows)
      OBVIOUS
    <2>1. \A i \in DOMAIN conf.rows : conf.rows[i] # LineOf(p)
      BY DEF Lists, LineOf
    <2>2. /\ Inserted(conf.rows, p) \in Seq(Row) /\ Orderly(Inserted(conf.rows, p))
          /\ ToSet(conf.rows) \subseteq ToSet(Inserted(conf.rows, p))
      BY <1>0, <2>1, InsertedFacts
    <2>3. QED
      BY <2>2, CutFacts
  <1>5. CASE EditFails
    <2>1. UNCHANGED <<conf, out, p, own>> /\ pc = "edit" /\ pc' = "undo"
      BY <1>5 DEF EditFails, story
    <2>2. /\ tmp' \in Text /\ Orderly(tmp'.rows)
          /\ tmp' = tmp \/ conf.there
      BY <1>0, <1>4, <1>5, EmptyFacts DEF EditFails, NeedsLine
    <2>3. faults' \in {faults, faults + 1}
      BY <1>5 DEF EditFails
    <2>4. QED
      BY <1>0, <2>1, <2>2, <2>3 DEF TextsInv, TextsType, OrderInv, RowsInv, RowsKept
  <1>6. CASE WriteTmp
    <2>1. /\ UNCHANGED <<conf, p, own, faults>> /\ pc' = "remove" /\ conf.there
          /\ out' = Inserted(conf.rows, p) /\ tmp' = Whole(out')
          /\ SectionOf[p] # NoSection /\ ~Lists(conf, p)
      BY <1>6 DEF WriteTmp, NeedsLine, story
    <2>2. out' \in Seq(Row) /\ Orderly(out') /\ ToSet(conf.rows) \subseteq ToSet(out')
      BY <1>4, <2>1
    <2>3. tmp' \in Text /\ tmp'.there /\ tmp'.rows = out'
      BY <2>1, <2>2, WholeFacts
    <2>4. QED
      BY <1>0, <2>1, <2>2, <2>3 DEF TextsInv, TextsType, OrderInv, RowsInv, RowsKept
  <1>7. CASE RemoveConfig
    BY <1>0, <1>7, EmptyFacts DEF RemoveConfig, story, TextsInv, TextsType, OrderInv, RowsInv, RowsKept
  <1>8. CASE Swap
    <2>1. UNCHANGED <<out, p, own>> /\ pc = "swap"
      BY <1>8 DEF Swap
    <2>2. CASE ~conf.there /\ pc' = "tidy" /\ Sound /\ conf' = tmp /\ tmp' = NoText
      BY <1>0, <2>1, <2>2, EmptyFacts DEF TextsInv, TextsType, OrderInv, RowsInv, RowsKept
    <2>3. CASE /\ (conf.there /\ Sound) \/ (~conf.there /\ Fault)
               /\ pc' = "direct" /\ conf' = conf /\ tmp' \in {NoText, tmp}
      BY <1>0, <2>1, <2>3, EmptyFacts DEF TextsInv, TextsType, OrderInv, RowsInv, RowsKept
    <2>4. QED
      BY <1>8, <2>2, <2>3 DEF Swap, Edited
  <1>9. CASE Direct
    <2>1. UNCHANGED <<tmp, out, p, own>> /\ pc = "direct"
      BY <1>9 DEF Direct
    <2>2. CASE pc' = "tidy" /\ Sound /\ conf' = Whole(out)
      BY <1>0, <2>1, <2>2, WholeFacts DEF TextsInv, TextsType, OrderInv, RowsInv, RowsKept
    <2>3. CASE pc' = "undo" /\ Fault /\ conf' \in Cut(out) \cup {conf}
      <3>1. conf' \in Text /\ Orderly(conf'.rows)
        BY <1>0, <2>3, CutFacts
      <3>2. faults' \in Nat /\ RowsInv'
        BY <1>0, <2>1, <2>3 DEF TextsInv, RowsInv
      <3>3. QED
        BY <1>0, <2>1, <3>1, <3>2 DEF TextsInv, TextsType, OrderInv
    <2>4. QED
      BY <1>9, <2>2, <2>3 DEF Direct, Edited
  <1>10. CASE PowerCut
    <2>1. UNCHANGED <<out, p, own>> /\ pc' = "off" /\ faults' = faults + 1
      BY <1>10 DEF PowerCut, story
    <2>2. /\ tmp' \in Text /\ Orderly(tmp'.rows)
          /\ tmp' = tmp \/ (pc = "edit" /\ conf.there)
      BY <1>0, <1>4, <1>10, EmptyFacts DEF PowerCut, NeedsLine
    <2>3. /\ conf' \in Text /\ Orderly(conf'.rows)
          /\ conf' = conf \/ pc = "direct"
      BY <1>0, <1>10, CutFacts DEF PowerCut
    <2>4. QED
      BY <1>0, <2>1, <2>2, <2>3 DEF TextsInv, TextsType, OrderInv, RowsInv, RowsKept
  <1>11. CASE UNCHANGED vars
    BY <1>0, <1>11, QuietStep DEF vars, story
  <1>12. QED
    BY <1>1, <1>2, <1>3, <1>5, <1>6, <1>7, <1>8, <1>9, <1>10, <1>11 DEF Next

LEMMA TextsInvariance == Spec => []TextsInv
  <1>1. Init => TextsInv
    BY TextsInit
  <1>2. TextsInv /\ [Next]_vars => TextsInv'
    BY TextsStep
  <1>3. QED
    BY <1>1, <1>2, PTL DEF Spec

\* Whatever fails and wherever a write is cut short, an orderly config.txt stays
\* orderly: one active line for each plugin, below the header of its own section
\* (TaiConfigEditor::appendLineToSection and writeAllAtomic).
THEOREM LinesInPlace == Spec => []InItsSection
  <1>1. TextsInv => InItsSection
    BY DEF TextsInv, OrderInv, InItsSection
  <1>2. QED
    BY <1>1, TextsInvariance, PTL

\* One failure or one power cut, at any step, leaves all rows of the user in
\* config.txt or all in the .psva_tmp beside it (writeAllAtomic).
THEOREM UserRowsKept == Spec => []RowsRecoverable
  <1>1. TextsInv => RowsRecoverable
    BY DEF TextsInv, RowsInv, RowsRecoverable, RowsKept
  <1>2. QED
    BY <1>1, TextsInvariance, PTL
=============================================================================
