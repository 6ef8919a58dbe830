----------------------------- MODULE RsviewProofs -----------------------------
(***************************************************************************)
(* Theorems about RsviewClient: what parseResponseHTML() makes of a page,  *)
(* for pages of any length, any words and any number of columns.           *)
(***************************************************************************)
EXTENDS RsviewClient, FiniteSetTheorems, SequenceTheorems, TLAPS

-----------------------------------------------------------------------------
(* The inductive invariant. *)

\* The cell that opens at i has not been ended.
OpenAt(i) == i \in Opens /\ ~Closed(i)

\* The cell that is open will have an entry by its first text or by its end.
Pending == IF inCell /\ ~textRead THEN 1 ELSE 0

\* On any page: each entry has a start of a cell of its own, and without an entry no
\* cell has been ended or has a text.
CellsCounted ==
  /\ Len(buf) + Pending <= Cardinality(Opens)
  /\ inCell <=> \E i \in Opens : OpenAt(i)
  /\ buf = <<>> => \A i \in Opens : ~Closed(i) /\ TextsOf(i) = {}

\* Cells are closed before the next one opens; the last may be open.
Tidy == \A i, j \in Opens : i < j => \E e \in Ends : i < e /\ e < j

\* On such a page each start of a cell has its entry, in order, but the cell that is
\* open and has no text yet.
CellsRead ==
  Tidy =>
    /\ Len(buf) + Pending = Cardinality(Opens)
    /\ \A i \in Opens : OpenAt(i) => (textRead <=> TextsOf(i) # {})
    /\ \A i \in Opens : (OpenAt(i) /\ ~textRead) \/ HasTexts(buf[Rank(i, Opens)], i)

ParserInv == TypeOK /\ CellsCounted /\ CellsRead /\ AnswerFitsPage

-----------------------------------------------------------------------------
(* Sequences. *)

LEMMA FrontAndLast ==
  ASSUME NEW S, NEW s \in Seq(S), s # <<>>
  PROVE  /\ Len(s) \in Nat \ {0} /\ Front(s) \in Seq(S) /\ Len(Front(s)) = Len(s) - 1
         /\ \A k \in 1..(Len(s) - 1) : Front(s)[k] = s[k]
         /\ Last(s) = s[Len(s)] /\ Last(s) \in S
<1>1. PICK n \in Nat \ {0} : n = Len(s)
  OBVIOUS
<1>2. /\ SubSeq(s, 1, n - 1) \in Seq(S)
      /\ Len(SubSeq(s, 1, n - 1)) = IF 1 <= n - 1 THEN n - 1 - 1 + 1 ELSE 0
      /\ \A k \in 1..(n - 1 - 1 + 1) : SubSeq(s, 1, n - 1)[k] = s[1 + k - 1]
  BY <1>1, SubSeqProperties
<1>3. /\ (IF 1 <= n - 1 THEN n - 1 - 1 + 1 ELSE 0) = n - 1
      /\ n - 1 - 1 + 1 = n - 1
      /\ \A k \in 1..(n - 1) : 1 + k - 1 = k
  OBVIOUS
<1>4. Front(s) = SubSeq(s, 1, n - 1)
  BY <1>1, Zenon DEF Front
<1>5. Last(s) = s[Len(s)] /\ Last(s) \in S
  BY <1>1 DEF Last
<1> QED
  BY <1>1, <1>2, <1>3, <1>4, <1>5, Zenon

LEMMA Appended ==
  ASSUME NEW S, NEW s \in Seq(S), NEW x \in S
  PROVE  /\ Append(s, x) \in Seq(S) /\ Len(Append(s, x)) = Len(s) + 1
         /\ \A k \in 1..Len(s) : Append(s, x)[k] = s[k]
         /\ Append(s, x)[Len(s) + 1] = x /\ Append(s, x) # <<>>
         /\ Last(Append(s, x)) = x
<1>1. /\ Append(s, x) \in Seq(S) /\ Len(Append(s, x)) = Len(s) + 1
      /\ \A k \in 1..Len(s) : Append(s, x)[k] = s[k]
      /\ Append(s, x)[Len(s) + 1] = x
  OBVIOUS
<1>2. Append(s, x) # <<>>
  BY <1>1
<1> QED
  BY <1>1, <1>2 DEF Last

\* The entries after one more cell, or with one text more in the last.
LEMMA CellAppended ==
  ASSUME NEW b \in Seq(Seq(Words)), NEW cell \in Seq(Words), cell # <<>>
  PROVE  /\ Append(b, cell) \in Seq(Seq(Words)) /\ Append(b, cell) # <<>>
         /\ Last(Append(b, cell)) # <<>>
<1>1. Append(b, cell) \in Seq(Seq(Words))
  BY Appended, ZenonT(30)
<1>2. Append(b, cell) # <<>>
  BY Appended, ZenonT(30)
<1>3. Last(Append(b, cell)) = cell
  BY Appended, ZenonT(30)
<1> QED
  BY <1>1, <1>2, <1>3

-----------------------------------------------------------------------------
(* Ranks. *)

LEMMA RankIsPlace ==
  ASSUME NEW S, IsFiniteSet(S), S \subseteq Nat, NEW i \in S
  PROVE  Rank(i, S) \in 1..Cardinality(S)
<1> DEFINE B == {k \in S : k <= i}
<1>1. IsFiniteSet(B) /\ Cardinality(B) <= Cardinality(S)
  BY FS_Subset
<1>2. Cardinality(B) \in Nat /\ Cardinality(S) \in Nat
  BY <1>1, FS_CardinalityType
<1>3. Cardinality(B) # 0
  <2>1. i \in B
    OBVIOUS
  <2> HIDE DEF B
  <2> QED
    BY <1>1, <2>1, FS_EmptySet
<1> HIDE DEF B
<1>4. Cardinality(B) \in 1..Cardinality(S)
  BY <1>1, <1>2, <1>3
<1> QED
  BY <1>4 DEF Rank, B

\* The last one has the last place, and only the last one.
LEMMA RankOfLast ==
  ASSUME NEW S, S \subseteq Nat, NEW m \in S, \A k \in S : k <= m
  PROVE  Rank(m, S) = Cardinality(S)
<1>1. {k \in S : k <= m} = S
  OBVIOUS
<1> QED
  BY <1>1 DEF Rank

LEMMA RankBelow ==
  ASSUME NEW S, IsFiniteSet(S), S \subseteq Nat, NEW i \in S, NEW m \in S, i < m
  PROVE  Rank(i, S) \in 1..(Cardinality(S) - 1)
<1> DEFINE B == {k \in S : k <= i}
<1>1. /\ IsFiniteSet(B) /\ Cardinality(B) <= Cardinality(S)
      /\ Cardinality(S) = Cardinality(B) => S = B
  BY FS_Subset
<1>2. Cardinality(S) # Cardinality(B)
  <2>1. m \notin B
    OBVIOUS
  <2> QED
    BY <1>1, <2>1
<1>3. Cardinality(B) \in 1..Cardinality(S) /\ Cardinality(S) \in Nat
  BY RankIsPlace, FS_CardinalityType DEF Rank
<1>4. Cardinality(B) <= Cardinality(S) - 1
  <2> HIDE DEF B
  <2> QED
    BY <1>1, <1>2, <1>3
<1>5. Cardinality(B) \in 1..(Cardinality(S) - 1)
  <2> HIDE DEF B
  <2> QED
    BY <1>3, <1>4
<1> QED
  BY <1>5 DEF Rank

\* A new position after all others leaves their ranks as they are.
LEMMA RankKept ==
  ASSUME NEW S, S \subseteq Nat, NEW m \in Nat, NEW i \in Nat, i < m
  PROVE  Rank(i, S \cup {m}) = Rank(i, S)
<1>1. {k \in S \cup {m} : k <= i} = {k \in S : k <= i}
  OBVIOUS
<1> QED
  BY <1>1 DEF Rank

LEMMA RankOfNew ==
  ASSUME NEW S, IsFiniteSet(S), S \subseteq Nat, NEW m \in Nat, \A k \in S : k < m
  PROVE  /\ Rank(m, S \cup {m}) = Cardinality(S) + 1
         /\ Cardinality(S \cup {m}) = Cardinality(S) + 1
<1>1. m \notin S
  OBVIOUS
<1>2. Cardinality(S \cup {m}) = Cardinality(S) + 1
  BY <1>1, FS_AddElement
<1>3. \A k \in S \cup {m} : k <= m
  OBVIOUS
<1>4. Rank(m, S \cup {m}) = Cardinality(S \cup {m})
  BY <1>3, RankOfLast
<1> QED
  BY <1>2, <1>4

-----------------------------------------------------------------------------
(* Positions. *)

LEMMA TokensDiffer ==
  /\ Cell # End /\ Td \notin {Cell, End} /\ Tag \notin {Cell, End}
  /\ Blank \notin {Cell, End}
  /\ {Cell, Td, End, Blank, Tag} \cap Words = {}
BY RsviewConfig DEF Cell, Td, End, Blank, Tag

LEMMA PositionsFinite ==
  ASSUME page \in Seq(Tokens)
  PROVE  /\ Opens \subseteq 1..Len(page) /\ Ends \subseteq 1..Len(page)
         /\ Positions(Words) \subseteq 1..Len(page)
         /\ IsFiniteSet(Opens) /\ Cardinality(Opens) \in Nat
         /\ \A i : TextsOf(i) \subseteq 1..Len(page) /\ IsFiniteSet(TextsOf(i))
<1>1. \A T : Positions(T) \subseteq 1..Len(page)
  BY DEF Positions
<1>2. IsFiniteSet(1..Len(page))
  BY FS_Interval
<1>3. IsFiniteSet(Opens) /\ Cardinality(Opens) \in Nat
  BY <1>1, <1>2, FS_Subset, FS_CardinalityType DEF Opens
<1>4. \A i : TextsOf(i) \subseteq 1..Len(page)
  BY <1>1 DEF TextsOf
<1>5. \A i : IsFiniteSet(TextsOf(i))
  BY <1>2, <1>4, FS_Subset
<1> QED
  BY <1>1, <1>3, <1>4, <1>5 DEF Opens, Ends

\* One more token is one more position, of its kind.
LEMMA PositionsGrow ==
  ASSUME page \in Seq(Tokens), NEW t \in Tokens, page' = Append(page, t)
  PROVE  /\ page' \in Seq(Tokens) /\ Len(page') = Len(page) + 1
         /\ \A i \in 1..Len(page) : page'[i] = page[i]
         /\ page'[Len(page) + 1] = t
         /\ Opens' = IF t = Cell THEN Opens \cup {Len(page) + 1} ELSE Opens
         /\ Ends' = IF t = End THEN Ends \cup {Len(page) + 1} ELSE Ends
         /\ Positions(Words)' = IF t \in Words THEN Positions(Words) \cup {Len(page) + 1}
                                ELSE Positions(Words)
<1>1. /\ page' \in Seq(Tokens) /\ Len(page') = Len(page) + 1
      /\ \A i \in 1..Len(page) : page'[i] = page[i]
      /\ page'[Len(page) + 1] = t
  OBVIOUS
<1>2. DOMAIN page' = DOMAIN page \cup {Len(page) + 1} /\ DOMAIN page = 1..Len(page)
  BY <1>1
<1>3. ASSUME NEW T
      PROVE  {i \in DOMAIN page' : page'[i] \in T}
               = IF t \in T THEN {i \in DOMAIN page : page[i] \in T} \cup {Len(page) + 1}
                 ELSE {i \in DOMAIN page : page[i] \in T}
  BY <1>1, <1>2
<1>4. Opens' = IF t = Cell THEN Opens \cup {Len(page) + 1} ELSE Opens
  BY <1>3 DEF Opens, Positions
<1>5. Ends' = IF t = End THEN Ends \cup {Len(page) + 1} ELSE Ends
  BY <1>3 DEF Ends, Positions
<1>6. Positions(Words)' = IF t \in Words THEN Positions(Words) \cup {Len(page) + 1}
                          ELSE Positions(Words)
  BY <1>3 DEF Positions
<1> QED
  BY <1>1, <1>4, <1>5, <1>6

\* What a token changes of the cells that are there: an end closes them all, and a text
\* is one of every cell that is not closed.
LEMMA CellsGrow ==
  ASSUME page \in Seq(Tokens), NEW t \in Tokens, page' = Append(page, t), NEW i \in Opens
  PROVE  /\ Closed(i)' <=> Closed(i) \/ t = End
         /\ TextsOf(i)' = IF t \in Words /\ ~Closed(i) THEN TextsOf(i) \cup {Len(page) + 1}
                          ELSE TextsOf(i)
<1>1. /\ i \in 1..Len(page) /\ Ends \subseteq 1..Len(page)
      /\ Positions(Words) \subseteq 1..Len(page) /\ Len(page) \in Nat
  BY PositionsFinite
<1>2. /\ Ends' = IF t = End THEN Ends \cup {Len(page) + 1} ELSE Ends
      /\ Positions(Words)' = IF t \in Words THEN Positions(Words) \cup {Len(page) + 1}
                             ELSE Positions(Words)
  BY PositionsGrow
<1>3. Closed(i)' <=> Closed(i) \/ t = End
  BY <1>1, <1>2 DEF Closed
<1>4. ASSUME NEW j
      PROVE  j \in TextsOf(i)' <=>
               \/ j \in TextsOf(i)
               \/ t \in Words /\ ~Closed(i) /\ j = Len(page) + 1
  <2>1. CASE t = End
    <3>1. Positions(Words)' = Positions(Words) /\ Ends' = Ends \cup {Len(page) + 1}
          /\ t \notin Words
      BY <1>2, <2>1, TokensDiffer
    <3>2. \A k \in Positions(Words) : k < Len(page) + 1
      BY <1>1
    <3>3. j \in TextsOf(i)' <=> j \in TextsOf(i)
      BY <3>1, <3>2 DEF TextsOf
    <3> QED
      BY <3>1, <3>3
  <2>2. CASE t # End
    <3>1. Ends' = Ends
      BY <1>2, <2>2
    <3>2. CASE t \notin Words
      BY <1>2, <3>1, <3>2 DEF TextsOf
    <3>3. CASE t \in Words
      <4>1. Positions(Words)' = Positions(Words) \cup {Len(page) + 1}
        BY <1>2, <3>3
      <4>2. j \in TextsOf(i)' <=>
              \/ j \in TextsOf(i)
              \/ j = Len(page) + 1 /\ i < j /\ \A e \in Ends : e < i \/ j < e
        BY <3>1, <4>1 DEF TextsOf
      <4>3. j = Len(page) + 1 =>
              (i < j /\ (\A e \in Ends : e < i \/ j < e) <=> \A e \in Ends : e < i)
        BY <1>1
      <4>4. (\A e \in Ends : e < i) <=> ~Closed(i)
        <5>1. i \notin Ends
          BY TokensDiffer DEF Opens, Ends, Positions
        <5> QED
          BY <1>1, <5>1 DEF Closed
      <4> QED
        BY <3>3, <4>2, <4>3, <4>4
    <3> QED
      BY <3>2, <3>3
  <2> QED
    BY <2>1, <2>2
<1> QED
  BY <1>3, <1>4

\* The cell that has just opened is open, and has no text.
LEMMA CellOpens ==
  ASSUME page \in Seq(Tokens), page' = Append(page, Cell), NEW m, m = Len(page) + 1
  PROVE  /\ Opens' = Opens \cup {m} /\ m \notin Opens
         /\ Cardinality(Opens') = Cardinality(Opens) + 1
         /\ ~Closed(m)' /\ TextsOf(m)' = {}
<1>1. Cell \in Tokens
  BY DEF Tokens
<1>2. /\ Opens' = Opens \cup {m} /\ Ends' = Ends
      /\ Positions(Words)' = Positions(Words)
  BY <1>1, PositionsGrow, TokensDiffer
<1>3. /\ Opens \subseteq 1..Len(page) /\ Ends \subseteq 1..Len(page) /\ IsFiniteSet(Opens)
      /\ Positions(Words) \subseteq 1..Len(page) /\ Len(page) \in Nat
  BY PositionsFinite
<1>4. m \notin Opens
  BY <1>3
<1>5. Cardinality(Opens') = Cardinality(Opens) + 1
  BY <1>2, <1>3, <1>4, FS_AddElement
<1>6. ~Closed(m)' /\ TextsOf(m)' = {}
  BY <1>2, <1>3 DEF Closed, TextsOf
<1> QED
  BY <1>2, <1>4, <1>5, <1>6

\* A page that is tidy was tidy before its last token; and when that opens a cell, all
\* others are closed.
LEMMA TidyBefore ==
  ASSUME page \in Seq(Tokens), NEW t \in Tokens, page' = Append(page, t), Tidy'
  PROVE  Tidy /\ (t = Cell => \A i \in Opens : Closed(i))
<1>1. /\ Opens \subseteq 1..Len(page) /\ Ends \subseteq 1..Len(page) /\ Len(page) \in Nat
  BY PositionsFinite
<1>2. /\ Opens' = IF t = Cell THEN Opens \cup {Len(page) + 1} ELSE Opens
      /\ Ends' = IF t = End THEN Ends \cup {Len(page) + 1} ELSE Ends
  BY PositionsGrow
<1>3. ASSUME NEW i \in Opens, NEW j \in Opens, i < j
      PROVE  \E e \in Ends : i < e /\ e < j
  BY <1>1, <1>2, <1>3 DEF Tidy
<1>4. ASSUME t = Cell, NEW i \in Opens
      PROVE  \E e \in Ends : i < e
  BY <1>1, <1>2, <1>4 DEF Tidy
<1> QED
  BY <1>3, <1>4 DEF Tidy, Closed

\* On a tidy page only the last cell may be open.
LEMMA OpenIsLast ==
  ASSUME page \in Seq(Tokens), Tidy, NEW m, OpenAt(m)
  PROVE  /\ m \in Opens /\ \A i \in Opens : i <= m
         /\ \A i \in Opens : OpenAt(i) => i = m
         /\ Rank(m, Opens) = Cardinality(Opens)
         /\ \A i \in Opens : i # m => Rank(i, Opens) \in 1..(Cardinality(Opens) - 1)
<1>1. Opens \subseteq 1..Len(page) /\ Opens \subseteq Nat /\ IsFiniteSet(Opens)
  BY PositionsFinite
<1>2. m \in Opens /\ ~Closed(m)
  BY DEF OpenAt
<1>3. ASSUME NEW i \in Opens PROVE i <= m
  BY <1>1, <1>2 DEF Tidy, Closed
<1>4. ASSUME NEW i \in Opens, OpenAt(i) PROVE i = m
  <2>1. m <= i
    BY <1>1, <1>2, <1>4 DEF Tidy, OpenAt, Closed
  <2> QED
    BY <1>1, <1>2, <1>3, <2>1
<1>5. Rank(m, Opens) = Cardinality(Opens)
  BY <1>1, <1>2, <1>3, RankOfLast
<1>6. ASSUME NEW i \in Opens, i # m
      PROVE  Rank(i, Opens) \in 1..(Cardinality(Opens) - 1)
  <2>1. i < m
    BY <1>1, <1>2, <1>3, <1>6
  <2> QED
    BY <1>1, <1>2, <2>1, RankBelow
<1> QED
  BY <1>2, <1>3, <1>4, <1>5, <1>6

\* An entry that was right is right when its cell gets no text, and with one more text
\* when it gets one.
LEMMA HasTextsKept ==
  ASSUME page \in Seq(Tokens), NEW t \in Tokens, page' = Append(page, t), NEW i \in Opens,
         ~(t \in Words /\ ~Closed(i)), NEW cell, HasTexts(cell, i)
  PROVE  /\ Len(cell) = Cardinality(TextsOf(i)')
         /\ \A j \in TextsOf(i)' : cell[Rank(j, TextsOf(i)')] = page'[j]
<1>1. TextsOf(i)' = TextsOf(i)
  BY CellsGrow
<1>2. \A j \in TextsOf(i) : page'[j] = page[j]
  BY PositionsFinite, PositionsGrow
<1> QED
  BY <1>1, <1>2 DEF HasTexts

LEMMA HasTextsGrows ==
  ASSUME page \in Seq(Tokens), NEW t \in Words, page' = Append(page, t), NEW i \in Opens,
         ~Closed(i), NEW cell \in Seq(Words), HasTexts(cell, i)
  PROVE  /\ Len(Append(cell, t)) = Cardinality(TextsOf(i)')
         /\ \A j \in TextsOf(i)' : Append(cell, t)[Rank(j, TextsOf(i)')] = page'[j]
<1> DEFINE S == TextsOf(i)
           m == Len(page) + 1
<1>1. t \in Tokens
  BY DEF Tokens
<1>2. TextsOf(i)' = S \cup {m}
  BY <1>1, CellsGrow
<1>3. /\ S \subseteq 1..Len(page) /\ S \subseteq Nat /\ IsFiniteSet(S)
      /\ Len(page) \in Nat /\ m \in Nat
  BY PositionsFinite
<1>4. Len(cell) = Cardinality(S) /\ \A j \in S : cell[Rank(j, S)] = page[j]
  BY DEF HasTexts
<1>5. page'[m] = t /\ \A j \in S : page'[j] = page[j]
  BY <1>1, <1>3, PositionsGrow
<1>6. /\ Rank(m, S \cup {m}) = Cardinality(S) + 1
      /\ Cardinality(S \cup {m}) = Cardinality(S) + 1
  <2>1. \A k \in S : k < m
    BY <1>3
  <2> HIDE DEF S, m
  <2> QED
    BY <1>3, <2>1, RankOfNew
<1>7. ASSUME NEW j \in S
      PROVE  Rank(j, S \cup {m}) = Rank(j, S) /\ Rank(j, S) \in 1..Len(cell)
  <2>1. j \in Nat /\ j < m
    BY <1>3
  <2> HIDE DEF S, m
  <2> QED
    BY <1>3, <1>4, <2>1, RankKept, RankIsPlace
<1>8. Len(Append(cell, t)) = Cardinality(S \cup {m})
  BY <1>4, <1>6
<1>9. ASSUME NEW j \in S \cup {m}
      PROVE  Append(cell, t)[Rank(j, S \cup {m})] = page'[j]
  <2> HIDE DEF S, m
  <2>1. CASE j = m
    <3>1. Append(cell, t)[Len(cell) + 1] = t
      OBVIOUS
    <3> QED
      BY <1>4, <1>5, <1>6, <2>1, <3>1
  <2>2. CASE j \in S
    <3>1. \A k \in 1..Len(cell) : Append(cell, t)[k] = cell[k]
      OBVIOUS
    <3> QED
      BY <1>4, <1>5, <1>7, <2>2, <3>1
  <2> QED
    BY <2>1, <2>2
<1> QED
  BY <1>2, <1>8, <1>9

\* The first text of a cell.
LEMMA HasFirstText ==
  ASSUME page \in Seq(Tokens), NEW t \in Words, page' = Append(page, t), NEW i \in Opens,
         ~Closed(i), TextsOf(i) = {}
  PROVE  /\ Len(<<t>>) = Cardinality(TextsOf(i)')
         /\ \A j \in TextsOf(i)' : <<t>>[Rank(j, TextsOf(i)')] = page'[j]
<1>1. <<>> \in Seq(Words) /\ Append(<<>>, t) = <<t>>
  OBVIOUS
<1>2. HasTexts(<<>>, i)
  BY FS_EmptySet DEF HasTexts
<1>3. /\ Len(Append(<<>>, t)) = Cardinality(TextsOf(i)')
      /\ \A j \in TextsOf(i)' : Append(<<>>, t)[Rank(j, TextsOf(i)')] = page'[j]
  BY <1>1, <1>2, HasTextsGrows
<1> QED
  BY <1>1, <1>3, Zenon

-----------------------------------------------------------------------------
(* One token. *)

\* What HasTexts() says of an entry after the step.
HasTextsNext(cell, i) ==
  /\ Len(cell) = Cardinality(TextsOf(i)')
  /\ \A j \in TextsOf(i)' : cell[Rank(j, TextsOf(i)')] = page'[j]

LEMMA CellsReadNext ==
  ASSUME Tidy' =>
           /\ Len(buf') + Pending' = Cardinality(Opens')
           /\ \A i \in Opens' : ~Closed(i)' => (textRead' <=> TextsOf(i)' # {})
           /\ \A i \in Opens' : \/ ~Closed(i)' /\ ~textRead'
                                \/ HasTextsNext(buf'[Rank(i, Opens')], i)
  PROVE  CellsRead'
BY DEF CellsRead, OpenAt, HasTexts, HasTextsNext, Rank

\* A token that starts or ends no cell, and is no text of one.
LEMMA QuietToken ==
  ASSUME TypeOK, CellsCounted, CellsRead, NEW t \in Tokens, page' = Append(page, t),
         UNCHANGED parser, t \notin {Cell, End}, t \in Words => ~inCell
  PROVE  CellsCounted' /\ CellsRead'
<1>0. page \in Seq(Tokens) /\ UNCHANGED <<buf, inCell, textRead>>
  BY DEF TypeOK, parser
<1>1. Opens' = Opens
  BY <1>0, PositionsGrow
<1>2. ASSUME NEW i \in Opens
      PROVE  /\ Closed(i)' <=> Closed(i)
             /\ TextsOf(i)' = TextsOf(i) /\ ~(t \in Words /\ ~Closed(i))
  <2>1. ~(t \in Words /\ ~Closed(i))
    BY DEF CellsCounted, OpenAt
  <2> QED
    BY <1>0, <2>1, CellsGrow
<1>3. CellsCounted'
  <2>1. Len(buf') + Pending' <= Cardinality(Opens')
    BY <1>0, <1>1 DEF CellsCounted, Pending
  <2>2. inCell' <=> \E i \in Opens' : OpenAt(i)'
    BY <1>0, <1>1, <1>2 DEF CellsCounted, OpenAt
  <2>3. buf' = <<>> => \A i \in Opens' : ~Closed(i)' /\ TextsOf(i)' = {}
    BY <1>0, <1>1, <1>2 DEF CellsCounted
  <2> QED
    BY <2>1, <2>2, <2>3 DEF CellsCounted
<1>4. CellsRead'
  <2>1. SUFFICES ASSUME Tidy'
                 PROVE  /\ Len(buf') + Pending' = Cardinality(Opens')
                        /\ \A i \in Opens' : ~Closed(i)' => (textRead' <=> TextsOf(i)' # {})
                        /\ \A i \in Opens' : \/ ~Closed(i)' /\ ~textRead'
                                             \/ HasTextsNext(buf'[Rank(i, Opens')], i)
    BY CellsReadNext
  <2>2. Tidy
    BY <1>0, <2>1, TidyBefore
  <2>3. Len(buf') + Pending' = Cardinality(Opens')
    BY <1>0, <1>1, <2>2 DEF CellsRead, Pending
  <2>4. \A i \in Opens' : ~Closed(i)' => (textRead' <=> TextsOf(i)' # {})
    BY <1>0, <1>1, <1>2, <2>2 DEF CellsRead, OpenAt
  <2>5. ASSUME NEW i \in Opens'
        PROVE  \/ ~Closed(i)' /\ ~textRead'
               \/ HasTextsNext(buf'[Rank(i, Opens')], i)
    <3>1. (~Closed(i) /\ ~textRead) \/ HasTexts(buf[Rank(i, Opens)], i)
      BY <1>1, <2>2 DEF CellsRead, OpenAt
    <3>2. HasTexts(buf[Rank(i, Opens)], i) => HasTextsNext(buf[Rank(i, Opens)], i)
      BY <1>0, <1>1, <1>2, HasTextsKept DEF HasTextsNext
    <3> QED
      BY <1>0, <1>1, <1>2, <3>1, <3>2
  <2> QED
    BY <2>3, <2>4, <2>5
<1> QED
  BY <1>3, <1>4

\* A result cell starts, inside of another or not.
LEMMA CellToken ==
  ASSUME TypeOK, CellsCounted, CellsRead, page' = Append(page, Cell),
         UNCHANGED <<buf, textRead>>, inCell' = TRUE
  PROVE  CellsCounted' /\ CellsRead'
<1> PICK m : m = Len(page) + 1
  OBVIOUS
<1>0. /\ page \in Seq(Tokens) /\ Cell \in Tokens /\ buf \in Seq(Seq(Words))
      /\ textRead \in BOOLEAN /\ inCell \in BOOLEAN /\ (textRead => inCell)
  BY DEF TypeOK, Tokens
<1>1. /\ Opens' = Opens \cup {m} /\ m \notin Opens
      /\ Cardinality(Opens') = Cardinality(Opens) + 1
      /\ ~Closed(m)' /\ TextsOf(m)' = {}
  BY <1>0, CellOpens
<1>2. /\ Cardinality(Opens) \in Nat /\ Opens \subseteq Nat
      /\ \A i \in Opens : i \in Nat /\ i < m
      /\ m \in Nat
  BY <1>0, PositionsFinite
<1>3. ASSUME NEW i \in Opens
      PROVE  /\ Closed(i)' <=> Closed(i)
             /\ TextsOf(i)' = TextsOf(i)
  BY <1>0, CellsGrow, TokensDiffer
<1>4. CellsCounted'
  <2>1. Len(buf') + Pending' <= Cardinality(Opens')
    BY <1>0, <1>1, <1>2 DEF CellsCounted, Pending
  <2>2. inCell' <=> \E i \in Opens' : OpenAt(i)'
    BY <1>1 DEF OpenAt
  <2>3. buf' = <<>> => \A i \in Opens' : ~Closed(i)' /\ TextsOf(i)' = {}
    BY <1>1, <1>3 DEF CellsCounted
  <2> QED
    BY <2>1, <2>2, <2>3 DEF CellsCounted
<1>5. CellsRead'
  <2>1. SUFFICES ASSUME Tidy'
                 PROVE  /\ Len(buf') + Pending' = Cardinality(Opens')
                        /\ \A i \in Opens' : ~Closed(i)' => (textRead' <=> TextsOf(i)' # {})
                        /\ \A i \in Opens' : \/ ~Closed(i)' /\ ~textRead'
                                             \/ HasTextsNext(buf'[Rank(i, Opens')], i)
    BY CellsReadNext
  <2>2. Tidy /\ \A i \in Opens : Closed(i)
    BY <1>0, <2>1, TidyBefore
  <2>3. ~inCell /\ ~textRead
    BY <1>0, <2>2 DEF CellsCounted, OpenAt
  <2>4. Len(buf') + Pending' = Cardinality(Opens')
    BY <1>0, <1>1, <1>2, <2>2, <2>3 DEF CellsRead, Pending
  <2>5. \A i \in Opens' : ~Closed(i)' => (textRead' <=> TextsOf(i)' # {})
    BY <1>1, <1>3, <2>2, <2>3
  <2>6. ASSUME NEW i \in Opens'
        PROVE  \/ ~Closed(i)' /\ ~textRead'
               \/ HasTextsNext(buf'[Rank(i, Opens')], i)
    <3>1. CASE i = m
      BY <1>1, <2>3, <3>1
    <3>2. CASE i \in Opens
      <4>1. HasTexts(buf[Rank(i, Opens)], i)
        BY <2>2, <3>2 DEF CellsRead, OpenAt
      <4>2. HasTextsNext(buf[Rank(i, Opens)], i)
        BY <1>0, <3>2, <4>1, TokensDiffer, HasTextsKept DEF HasTextsNext
      <4>3. Rank(i, Opens') = Rank(i, Opens)
        BY <1>1, <1>2, <3>2, RankKept
      <4> QED
        BY <4>2, <4>3
    <3> QED
      BY <1>1, <3>1, <3>2
  <2> QED
    BY <2>4, <2>5, <2>6
<1> QED
  BY <1>4, <1>5

\* The end of td in a cell: it gets its entry now if it had no text.
LEMMA EndToken ==
  ASSUME TypeOK, CellsCounted, CellsRead, page' = Append(page, End), inCell,
         buf' = IF textRead THEN buf ELSE Append(buf, <<>>),
         inCell' = FALSE, textRead' = FALSE
  PROVE  CellsCounted' /\ CellsRead'
<1>0. /\ page \in Seq(Tokens) /\ End \in Tokens /\ buf \in Seq(Seq(Words))
      /\ textRead \in BOOLEAN /\ (textRead => buf # <<>>)
  BY DEF TypeOK, Tokens
<1>1. Opens' = Opens /\ Cardinality(Opens) \in Nat
  BY <1>0, PositionsGrow, PositionsFinite, TokensDiffer
<1>2. ASSUME NEW i \in Opens
      PROVE  Closed(i)' /\ TextsOf(i)' = TextsOf(i)
  BY <1>0, CellsGrow, TokensDiffer
<1>3. Len(buf') = Len(buf) + Pending /\ Pending' = 0 /\ buf' # <<>>
  BY <1>0 DEF Pending
<1>4. CellsCounted'
  <2>1. Len(buf') + Pending' <= Cardinality(Opens')
    BY <1>0, <1>1, <1>3 DEF CellsCounted, Pending
  <2>2. inCell' <=> \E i \in Opens' : OpenAt(i)'
    BY <1>1, <1>2 DEF OpenAt
  <2> QED
    BY <1>3, <2>1, <2>2 DEF CellsCounted
<1>5. CellsRead'
  <2>1. SUFFICES ASSUME Tidy'
                 PROVE  /\ Len(buf') + Pending' = Cardinality(Opens')
                        /\ \A i \in Opens' : ~Closed(i)' => (textRead' <=> TextsOf(i)' # {})
                        /\ \A i \in Opens' : \/ ~Closed(i)' /\ ~textRead'
                                             \/ HasTextsNext(buf'[Rank(i, Opens')], i)
    BY CellsReadNext
  <2>2. Tidy
    BY <1>0, <2>1, TidyBefore
  <2>3. Len(buf') + Pending' = Cardinality(Opens') /\ Len(buf) + Pending = Cardinality(Opens)
    BY <1>0, <1>1, <1>3, <2>2 DEF CellsRead, Pending
  <2>4. PICK m \in Opens : OpenAt(m)
    BY DEF CellsCounted
  <2>5. /\ \A i \in Opens : OpenAt(i) => i = m
        /\ Rank(m, Opens) = Cardinality(Opens)
        /\ \A i \in Opens : i # m => Rank(i, Opens) \in 1..(Cardinality(Opens) - 1)
    BY <1>0, <2>2, <2>4, OpenIsLast
  <2>6. ASSUME NEW i \in Opens, HasTexts(buf'[Rank(i, Opens)], i)
        PROVE  HasTextsNext(buf'[Rank(i, Opens')], i)
    BY <1>0, <1>1, <2>6, TokensDiffer, HasTextsKept DEF HasTextsNext
  <2>7. ASSUME NEW i \in Opens
        PROVE  HasTexts(buf'[Rank(i, Opens)], i)
    <3>1. CASE textRead
      BY <2>2, <3>1 DEF CellsRead
    <3>2. CASE ~textRead /\ i = m
      <4>1. buf'[Rank(i, Opens)] = <<>>
        BY <1>0, <2>3, <2>5, <3>2 DEF Pending
      <4>2. TextsOf(i) = {}
        BY <2>2, <2>4, <3>2 DEF CellsRead
      <4> QED
        BY <4>1, <4>2, FS_EmptySet DEF HasTexts
    <3>3. CASE ~textRead /\ i # m
      <4>1. HasTexts(buf[Rank(i, Opens)], i)
        BY <2>2, <2>5, <3>3 DEF CellsRead
      <4>2. Rank(i, Opens) \in 1..Len(buf)
        BY <1>0, <2>3, <2>5, <3>3 DEF Pending
      <4>3. buf'[Rank(i, Opens)] = buf[Rank(i, Opens)]
        BY <1>0, <3>3, <4>2
      <4> QED
        BY <4>1, <4>3
    <3> QED
      BY <3>1, <3>2, <3>3
  <2> QED
    BY <1>1, <1>2, <2>3, <2>6, <2>7
<1> QED
  BY <1>4, <1>5

\* The end of td outside of a cell: all cells have been closed before.
LEMMA StrayEnd ==
  ASSUME TypeOK, CellsCounted, CellsRead, page' = Append(page, End), ~inCell,
         UNCHANGED parser
  PROVE  CellsCounted' /\ CellsRead'
<1>0. /\ page \in Seq(Tokens) /\ End \in Tokens
      /\ UNCHANGED <<buf, inCell, textRead>>
  BY DEF TypeOK, Tokens, parser
<1>1. Opens' = Opens
  BY <1>0, PositionsGrow, TokensDiffer
<1>2. ASSUME NEW i \in Opens
      PROVE  Closed(i) /\ Closed(i)' /\ TextsOf(i)' = TextsOf(i)
  BY <1>0, CellsGrow DEF CellsCounted, OpenAt
<1>3. CellsCounted'
  BY <1>0, <1>1, <1>2 DEF CellsCounted, Pending, OpenAt
<1>4. CellsRead'
  <2>1. SUFFICES ASSUME Tidy'
                 PROVE  /\ Len(buf') + Pending' = Cardinality(Opens')
                        /\ \A i \in Opens' : ~Closed(i)' => (textRead' <=> TextsOf(i)' # {})
                        /\ \A i \in Opens' : \/ ~Closed(i)' /\ ~textRead'
                                             \/ HasTextsNext(buf'[Rank(i, Opens')], i)
    BY CellsReadNext
  <2>2. Tidy
    BY <1>0, <2>1, TidyBefore
  <2>3. Len(buf') + Pending' = Cardinality(Opens')
    BY <1>0, <1>1, <2>2 DEF CellsRead, Pending
  <2>4. ASSUME NEW i \in Opens PROVE HasTextsNext(buf[Rank(i, Opens)], i)
    <3>1. HasTexts(buf[Rank(i, Opens)], i)
      BY <1>2, <2>2 DEF CellsRead, OpenAt
    <3> QED
      BY <1>0, <1>2, <3>1, HasTextsKept DEF HasTextsNext
  <2> QED
    BY <1>0, <1>1, <1>2, <2>3, <2>4
<1> QED
  BY <1>3, <1>4

\* A text in a cell: a new entry, or joined to the one the cell has.
LEMMA TextToken ==
  ASSUME TypeOK, CellsCounted, CellsRead, NEW t \in Words, page' = Append(page, t), inCell,
         buf' = IF textRead THEN Append(Front(buf), Append(Last(buf), t))
                ELSE Append(buf, <<t>>),
         inCell' = inCell, textRead' = TRUE
  PROVE  CellsCounted' /\ CellsRead'
<1>0. /\ page \in Seq(Tokens) /\ t \in Tokens /\ buf \in Seq(Seq(Words))
      /\ textRead \in BOOLEAN /\ (textRead => buf # <<>>) /\ t \notin {Cell, End}
  BY TokensDiffer DEF TypeOK, Tokens
<1>1. Opens' = Opens /\ Cardinality(Opens) \in Nat
  BY <1>0, PositionsGrow, PositionsFinite
<1>2. ASSUME NEW i \in Opens
      PROVE  Closed(i)' <=> Closed(i)
  BY <1>0, CellsGrow
<1>3. /\ Len(buf') = Len(buf) + Pending /\ Pending' = 0 /\ Len(buf') # 0
      /\ \A k \in 1..(Len(buf') - 1) : buf'[k] = buf[k]
      /\ buf'[Len(buf')] = IF textRead THEN Append(buf[Len(buf)], t) ELSE <<t>>
      /\ textRead => buf[Len(buf)] \in Seq(Words)
  <2>1. CASE textRead
    <3>1. /\ Len(buf) \in Nat \ {0} /\ Front(buf) \in Seq(Seq(Words))
          /\ Len(Front(buf)) = Len(buf) - 1
          /\ \A k \in 1..(Len(buf) - 1) : Front(buf)[k] = buf[k]
      BY <1>0, <2>1, FrontAndLast
    <3>2. buf' = Append(Front(buf), Append(buf[Len(buf)], t))
      BY <2>1 DEF Last
    <3>3. Pending = 0 /\ Pending' = 0
      BY <2>1 DEF Pending
    <3>4. buf[Len(buf)] \in Seq(Words) /\ Append(buf[Len(buf)], t) \in Seq(Words)
      BY <1>0, <3>1
    <3>5. /\ Len(buf') = Len(Front(buf)) + 1
          /\ \A k \in 1..Len(Front(buf)) : buf'[k] = Front(buf)[k]
          /\ buf'[Len(Front(buf)) + 1] = Append(buf[Len(buf)], t)
      BY <3>1, <3>2, <3>4, Appended
    <3>6. Len(buf') = Len(buf) /\ \A k \in 1..(Len(buf) - 1) : buf'[k] = buf[k]
      BY <3>1, <3>5
    <3> QED
      BY <2>1, <3>1, <3>3, <3>4, <3>5, <3>6
  <2>2. CASE ~textRead
    BY <1>0, <2>2 DEF Pending
  <2> QED
    BY <2>1, <2>2
<1>4. CellsCounted'
  <2>1. Len(buf') + Pending' <= Cardinality(Opens')
    BY <1>0, <1>1, <1>3 DEF CellsCounted, Pending
  <2>2. inCell' <=> \E i \in Opens' : OpenAt(i)'
    BY <1>1, <1>2 DEF OpenAt, CellsCounted
  <2>3. buf' # <<>>
    BY <1>3
  <2> QED
    BY <2>1, <2>2, <2>3 DEF CellsCounted
<1>5. CellsRead'
  <2>1. SUFFICES ASSUME Tidy'
                 PROVE  /\ Len(buf') + Pending' = Cardinality(Opens')
                        /\ \A i \in Opens' : ~Closed(i)' => (textRead' <=> TextsOf(i)' # {})
                        /\ \A i \in Opens' : \/ ~Closed(i)' /\ ~textRead'
                                             \/ HasTextsNext(buf'[Rank(i, Opens')], i)
    BY CellsReadNext
  <2>2. Tidy
    BY <1>0, <2>1, TidyBefore
  <2>3. Len(buf') + Pending' = Cardinality(Opens') /\ Len(buf') = Cardinality(Opens)
    BY <1>0, <1>1, <1>3, <2>2 DEF CellsRead, Pending
  <2>4. PICK m \in Opens : OpenAt(m)
    BY DEF CellsCounted
  <2>5. /\ \A i \in Opens : OpenAt(i) => i = m
        /\ Rank(m, Opens) = Cardinality(Opens)
        /\ \A i \in Opens : i # m => Rank(i, Opens) \in 1..(Cardinality(Opens) - 1)
    BY <1>0, <2>2, <2>4, OpenIsLast
  <2>6. \A i \in Opens' : ~Closed(i)' => (textRead' <=> TextsOf(i)' # {})
    <3>1. \A i \in Opens : ~Closed(i) => TextsOf(i)' # {}
      BY <1>0, CellsGrow
    <3> QED
      BY <1>1, <1>2, <3>1
  <2>7. HasTextsNext(buf'[Rank(m, Opens)], m)
    <3>1. CASE textRead
      <4>1. HasTexts(buf[Rank(m, Opens)], m)
        BY <2>2, <3>1 DEF CellsRead
      <4>2. Rank(m, Opens) = Len(buf) /\ Rank(m, Opens) = Len(buf')
        BY <1>0, <1>3, <2>3, <2>5, <3>1 DEF Pending
      <4>3. buf'[Rank(m, Opens)] = Append(buf[Len(buf)], t) /\ buf[Len(buf)] \in Seq(Words)
        BY <1>3, <3>1, <4>2
      <4>4. ~Closed(m) /\ HasTexts(buf[Len(buf)], m)
        BY <2>4, <4>1, <4>2 DEF OpenAt
      <4>5. HasTextsNext(Append(buf[Len(buf)], t), m)
        BY <1>0, <4>3, <4>4, HasTextsGrows DEF HasTextsNext
      <4> QED
        BY <4>3, <4>5
    <3>2. CASE ~textRead
      <4>1. TextsOf(m) = {}
        BY <2>2, <2>4, <3>2 DEF CellsRead
      <4>2. buf'[Rank(m, Opens)] = <<t>>
        BY <1>3, <2>3, <2>5, <3>2
      <4>3. ~Closed(m)
        BY <2>4 DEF OpenAt
      <4>4. HasTextsNext(<<t>>, m)
        BY <1>0, <4>1, <4>3, HasFirstText DEF HasTextsNext
      <4> QED
        BY <4>2, <4>4
    <3> QED
      BY <1>0, <3>1, <3>2
  <2>8. ASSUME NEW i \in Opens, i # m
        PROVE  HasTextsNext(buf'[Rank(i, Opens)], i)
    <3>1. Closed(i) /\ HasTexts(buf[Rank(i, Opens)], i)
      BY <2>2, <2>5, <2>8 DEF CellsRead, OpenAt
    <3>2. buf'[Rank(i, Opens)] = buf[Rank(i, Opens)]
      BY <1>3, <2>3, <2>5, <2>8
    <3> QED
      BY <1>0, <3>1, <3>2, HasTextsKept DEF HasTextsNext
  <2> QED
    BY <1>1, <2>3, <2>6, <2>7, <2>8
<1> QED
  BY <1>4, <1>5

-----------------------------------------------------------------------------
(* The steps of the client. *)

LEMMA ParserInit ==
  Init => ParserInv
<1> SUFFICES ASSUME Init PROVE ParserInv
  OBVIOUS
<1>1. TypeOK
  <2>1. None \notin Codes
    BY RsviewNone
  <2>2. page \in Seq(Tokens) /\ buf \in Seq(Seq(Words))
    BY DEF Init
  <2> QED
    BY <2>2 DEF Init, TypeOK
<1>2. Opens = {} /\ page = <<>>
  BY DEF Init, Opens, Positions
<1>3. CellsCounted /\ CellsRead
  BY <1>2, FS_EmptySet DEF Init, CellsCounted, CellsRead, Pending
<1>4. AnswerFitsPage
  BY RsviewNone DEF Init, AnswerFitsPage, Codes
<1> QED
  BY <1>1, <1>3, <1>4 DEF ParserInv

LEMMA TypeStep ==
  TypeOK /\ [Next]_vars => TypeOK'
<1> SUFFICES ASSUME TypeOK, [Next]_vars PROVE TypeOK'
  OBVIOUS
<1> USE DEF parser
<1>1. CASE NewClient
  BY <1>1 DEF NewClient, TypeOK
<1>2. CASE Request
  BY <1>2, RsviewNone DEF Request, Return, TypeOK, Codes
<1>3. CASE EndOfPage
  BY <1>3, RsviewNone DEF EndOfPage, Return, TypeOK, Codes
<1>4. ASSUME NEW t \in Tokens, StartTag(t) PROVE TypeOK'
  BY <1>4 DEF StartTag, Consume, TypeOK
<1>5. CASE EndTag
  <2>1. End \in Tokens
    BY DEF Tokens
  <2>2. <<>> \in Seq(Words)
    OBVIOUS
  <2>3. page' \in Seq(Tokens) /\ UNCHANGED <<client, lookup, answer>>
    BY <1>5, <2>1 DEF EndTag, Consume, TypeOK
  <2>4. CASE inCell
    <3>1. inCell' = FALSE /\ textRead' = FALSE /\ buf \in Seq(Seq(Words))
      BY <1>5, <2>4 DEF EndTag, TypeOK
    <3>2. buf' = buf \/ buf' = Append(buf, <<>>)
      BY <1>5, <2>4 DEF EndTag
    <3>3. Append(buf, <<>>) \in Seq(Seq(Words))
      BY <2>2, <3>1, Appended, Zenon
    <3>4. buf' \in Seq(Seq(Words))
      BY <3>1, <3>2, <3>3, Zenon
    <3> QED
      BY <2>3, <3>1, <3>4 DEF TypeOK
  <2>5. CASE ~inCell
    BY <1>5, <2>3, <2>5 DEF EndTag, TypeOK
  <2> QED
    BY <2>4, <2>5
<1>6. ASSUME NEW t \in Tokens, Text(t) PROVE TypeOK'
  <2>1. page' \in Seq(Tokens) /\ UNCHANGED <<client, lookup, answer>>
    BY <1>6 DEF Text, Consume, TypeOK
  <2>2. CASE ~inCell \/ t = Blank
    BY <1>6, <2>1, <2>2 DEF Text, TypeOK
  <2>3. CASE inCell /\ t # Blank
    <3>1. /\ t \in Words /\ textRead' = TRUE /\ inCell' = inCell
          /\ buf' = IF textRead THEN Append(Front(buf), Append(Last(buf), t))
                    ELSE Append(buf, <<t>>)
      BY <1>6, <2>3 DEF Text
    <3>2. buf' \in Seq(Seq(Words)) /\ buf' # <<>> /\ Last(buf') # <<>>
      <4>1. CASE textRead
        <5>1. Front(buf) \in Seq(Seq(Words)) /\ Last(buf) \in Seq(Words)
          BY <4>1, FrontAndLast DEF TypeOK
        <5>2. Append(Last(buf), t) \in Seq(Words) /\ Append(Last(buf), t) # <<>>
          BY <3>1, <5>1, Appended
        <5>3. buf' = Append(Front(buf), Append(Last(buf), t))
          BY <3>1, <4>1
        <5> QED
          BY <5>1, <5>2, <5>3, CellAppended
      <4>2. CASE ~textRead
        <5>1. <<t>> \in Seq(Words) /\ <<t>> # <<>>
          BY <3>1
        <5>2. buf' = Append(buf, <<t>>) /\ buf \in Seq(Seq(Words))
          BY <3>1, <4>2 DEF TypeOK
        <5> QED
          BY <5>1, <5>2, CellAppended
      <4> QED
        BY <4>1, <4>2
    <3> QED
      BY <2>1, <2>3, <3>1, <3>2 DEF TypeOK
  <2> QED
    BY <2>2, <2>3
<1>7. CASE UNCHANGED vars
  BY <1>7 DEF vars, TypeOK
<1> QED
  BY <1>1, <1>2, <1>3, <1>4, <1>5, <1>6, <1>7 DEF Next

\* The client's other steps read no token.
LEMMA NoToken ==
  ASSUME CellsCounted, CellsRead, UNCHANGED <<page, buf, inCell, textRead>>
  PROVE  CellsCounted' /\ CellsRead' /\ Opens' = Opens
         /\ \A i : (Closed(i)' <=> Closed(i)) /\ TextsOf(i)' = TextsOf(i)
<1>1. Opens' = Opens /\ Ends' = Ends /\ Positions(Words)' = Positions(Words)
  BY DEF Opens, Ends, Positions
<1>2. \A i : (Closed(i)' <=> Closed(i)) /\ TextsOf(i)' = TextsOf(i)
  BY <1>1 DEF Closed, TextsOf
<1>3. CellsCounted'
  BY <1>1, <1>2 DEF CellsCounted, Pending, OpenAt
<1>4. CellsRead'
  BY <1>1, <1>2 DEF CellsRead, Pending, OpenAt, Tidy, HasTexts, Rank
<1> QED
  BY <1>1, <1>2, <1>3, <1>4

LEMMA ParserStep ==
  ParserInv /\ [Next]_vars => ParserInv'
<1> SUFFICES ASSUME ParserInv, [Next]_vars PROVE ParserInv'
  OBVIOUS
<1>0. TypeOK /\ CellsCounted /\ CellsRead /\ AnswerFitsPage /\ TypeOK'
  BY TypeStep DEF ParserInv
<1> SUFFICES CellsCounted' /\ CellsRead' /\ AnswerFitsPage'
  BY <1>0 DEF ParserInv
<1> USE DEF parser
<1>1. ASSUME UNCHANGED <<page, parser, answer>>
      PROVE  CellsCounted' /\ CellsRead' /\ AnswerFitsPage'
  BY <1>0, <1>1, NoToken DEF AnswerFitsPage
<1>2. CASE NewClient \/ UNCHANGED vars
  BY <1>1, <1>2 DEF NewClient, vars
<1>3. CASE Request
  <2>1. CellsCounted' /\ CellsRead'
    BY <1>0, <1>3, NoToken DEF Request
  <2>2. UNCHANGED answer \/ answer' = "generic"
    BY <1>3 DEF Request, Return
  <2> QED
    BY <1>1, <1>3, <2>1, <2>2 DEF Request, AnswerFitsPage
<1>4. CASE EndOfPage
  <2>1. /\ CellsCounted' /\ CellsRead' /\ Opens' = Opens
        /\ \A i : (Closed(i)' <=> Closed(i)) /\ TextsOf(i)' = TextsOf(i)
        /\ buf' = buf
    BY <1>0, <1>4, NoToken DEF EndOfPage
  <2>2. answer' = "macNotFound" => buf = <<>>
    BY <1>4 DEF EndOfPage, Return
  <2>3. answer' = "attributes" => Len(buf) = Columns
    BY <1>4 DEF EndOfPage, Return
  <2>4. Len(buf) <= Cardinality(Opens)
    <3>1. Len(buf) \in Nat /\ Cardinality(Opens) \in Nat
      BY <1>0, PositionsFinite DEF TypeOK
    <3> QED
      BY <1>0, <3>1 DEF CellsCounted, Pending
  <2>5. AnswerFitsPage'
    BY <1>0, <2>1, <2>2, <2>3, <2>4, RsviewConfig DEF AnswerFitsPage, CellsCounted
  <2> QED
    BY <2>1, <2>5
<1>5. ASSUME NEW t, Consume(t) PROVE AnswerFitsPage' /\ page' = Append(page, t)
  <2>1. answer' = None
    BY <1>0, <1>5 DEF Consume, TypeOK
  <2> QED
    BY <1>5, <2>1, RsviewNone DEF Consume, AnswerFitsPage, Codes
<1>6. ASSUME NEW t \in Tokens, StartTag(t)
      PROVE  CellsCounted' /\ CellsRead' /\ AnswerFitsPage'
  <2>1. AnswerFitsPage' /\ page' = Append(page, t)
    BY <1>5, <1>6 DEF StartTag
  <2>2. CASE t = Cell
    BY <1>0, <1>6, <2>1, <2>2, CellToken DEF StartTag
  <2>3. CASE t # Cell
    <3>1. t \notin {Cell, End} /\ t \notin Words
      BY <1>6, <2>3, TokensDiffer DEF StartTag
    <3>2. UNCHANGED parser
      BY <1>0, <1>6, <2>3 DEF StartTag, TypeOK
    <3> QED
      BY <1>0, <2>1, <3>1, <3>2, QuietToken
  <2> QED
    BY <2>2, <2>3
<1>7. CASE EndTag
  <2>1. AnswerFitsPage' /\ page' = Append(page, End)
    BY <1>5, <1>7 DEF EndTag
  <2>2. CASE inCell
    BY <1>0, <1>7, <2>1, <2>2, EndToken DEF EndTag
  <2>3. CASE ~inCell
    BY <1>0, <1>7, <2>1, <2>3, StrayEnd DEF EndTag
  <2> QED
    BY <2>2, <2>3
<1>8. ASSUME NEW t \in Tokens, Text(t)
      PROVE  CellsCounted' /\ CellsRead' /\ AnswerFitsPage'
  <2>1. AnswerFitsPage' /\ page' = Append(page, t) /\ t \notin {Cell, End}
    BY <1>5, <1>8, TokensDiffer DEF Text
  <2>2. CASE ~inCell \/ t = Blank
    <3>1. t \in Words => ~inCell
      BY <2>2, TokensDiffer
    <3> QED
      BY <1>0, <1>8, <2>1, <2>2, <3>1, QuietToken DEF Text
  <2>3. CASE inCell /\ t # Blank
    BY <1>0, <1>8, <2>1, <2>3, TextToken DEF Text
  <2> QED
    BY <2>2, <2>3
<1> QED
  BY <1>2, <1>3, <1>4, <1>6, <1>7, <1>8 DEF Next

-----------------------------------------------------------------------------
(* The theorems. *)

\* The invariant holds throughout.
LEMMA ParserAlways ==
  Spec => []ParserInv
BY ParserInit, ParserStep, PTL DEF Spec

\* The client keeps its types; and a text that is joined to an entry finds one there:
\* buf[len(buf)-1] is never read of an empty buffer.
THEOREM ClientTypeCorrect ==
  Spec => []TypeOK
<1>1. ParserInv => TypeOK
  BY DEF ParserInv
<1> QED
  BY <1>1, ParserAlways, PTL

\* Of a page of any length that closes its cells the parser gives the cells of the
\* markup, each with its texts, in order, and an empty one in its place.
THEOREM CellsInOrderCorrect ==
  Spec => []CellsInOrder
<1>1. ParserInv => CellsInOrder
  <2>1. SUFFICES ASSUME ParserInv, WellFormed
                 PROVE  /\ Len(buf) = Cardinality(Opens)
                        /\ \A i \in Opens : HasTexts(buf[Rank(i, Opens)], i)
    BY DEF CellsInOrder
  <2>2. Tidy /\ \A i \in Opens : ~OpenAt(i)
    BY <2>1 DEF WellFormed, Tidy, OpenAt
  <2>3. ~inCell
    BY <2>1, <2>2 DEF ParserInv, CellsCounted
  <2>4. Len(buf) = Cardinality(Opens)
    <3>1. Pending = 0 /\ Len(buf) \in Nat
      BY <2>1, <2>3 DEF Pending, ParserInv, TypeOK
    <3> QED
      BY <2>1, <2>2, <3>1 DEF ParserInv, CellsRead
  <2>5. \A i \in Opens : HasTexts(buf[Rank(i, Opens)], i)
    BY <2>1, <2>2 DEF ParserInv, CellsRead
  <2> QED
    BY <2>4, <2>5
<1> QED
  BY <1>1, ParserAlways, PTL

\* No page, cut off or with cells left open, is accepted with fewer cells than there
\* are columns, nor reported as "not found" when it has shown a closed cell.
THEOREM AnswerFitsPageCorrect ==
  Spec => []AnswerFitsPage
<1>1. ParserInv => AnswerFitsPage
  BY DEF ParserInv
<1> QED
  BY <1>1, ParserAlways, PTL
=============================================================================
