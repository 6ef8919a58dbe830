---------------------------- MODULE RsviewClient ----------------------------
(***************************************************************************)
(* The client of rsview (app/server/rsview.go): the login when the process *)
(* starts, one lookup of a MAC, and parseResponseHTML(), which takes the   *)
(* answer token by token.  A page is a sequence of tokens that the server  *)
(* chooses one at a time; the tokenizer is external (golang.org/x/net).    *)
(***************************************************************************)
EXTENDS Integers, Sequences, FiniteSets, SequencesExt

CONSTANTS
  Columns,    (* len(rsviewTableHuman): 18                                 *)
  Words,      (* what a text token may be, trimmed and in lower case       *)
  MaxTokens,  (* bound: the length of a page                               *)
  None

\* A td whose first attribute is the class of a result cell (Cell), any other td
\* (Td), an end of td, a text of which nothing is left when it is trimmed and its
\* "none" removed (Blank), any other token (Tag; tr among them: counting the result
\* rows has no effect).
Cell == "td.result"  Td == "td"  End == "/td"  Blank == ""  Tag == "tag"
Tokens == {Cell, Td, End, Blank, Tag} \cup Words

ASSUME RsviewConfig ==
  /\ Columns \in Nat \ {0} /\ MaxTokens \in Nat
  /\ Words \cap {Cell, Td, End, Blank, Tag} = {}

VARIABLES
  client,    (* globRsview                                                 *)
  lookup,    (* where getPortAttributes() is                               *)
  page,      (* the tokens so far                                          *)
  buf,       (* the cells: the texts of each, <<>> for "NULL"              *)
  inCell,    (* tdClassResult                                              *)
  textRead,  (* tdTextReaded                                               *)
  answer     (* the error code returned, or "attributes"                   *)

parser == <<buf, inCell, textRead>>
vars   == <<client, lookup, page, parser, answer>>

Codes == {"common", "generic", "macNotFound", "unknownApi"}

ASSUME RsviewNone == None \notin Codes \cup {"attributes"}

\* The last conjunct: buf[len(buf)-1] is there when a text is joined to it.
TypeOK ==
  /\ client \in {"none", "nil", "untested", "ready"}
  /\ lookup \in {"idle", "parsing", "done", "panic"}
  /\ page \in Seq(Tokens) /\ buf \in Seq(Seq(Words))
  /\ inCell \in BOOLEAN /\ textRead \in BOOLEAN
  /\ answer \in Codes \cup {"attributes", None} /\ (answer = None <=> lookup # "done")
  /\ textRead => inCell /\ buf # <<>> /\ Last(buf) # <<>>

Init ==
  /\ client = "none" /\ lookup = "idle"
  /\ page = <<>> /\ buf = <<>> /\ inCell = FALSE /\ textRead = FALSE
  /\ answer = None

-----------------------------------------------------------------------------

\* newRsviewClient(): it is nil when the request or the login has failed; when only
\* the test string is missing it is there.  App.Construct() logs either error.
NewClient ==
  /\ client = "none"
  /\ client' \in {"nil", "untested", "ready"}
  /\ UNCHANGED <<lookup, page, parser, answer>>

Return(a) == lookup' = "done" /\ answer' = a

\* getPortAttributes(): the header of a nil client cannot be read; no answer, or
\* one that is not 200, is an error.
Request ==
  /\ client # "none" /\ lookup = "idle"
  /\ IF client = "nil" THEN lookup' = "panic" /\ UNCHANGED answer
     ELSE \/ lookup' = "parsing" /\ UNCHANGED answer
          \/ Return("generic")
  /\ UNCHANGED <<client, page, parser>>

Consume(t) ==
  /\ lookup = "parsing" /\ Len(page) < MaxTokens
  /\ page' = Append(page, t)
  /\ UNCHANGED <<client, lookup, answer>>

\* A start tag; every td but a result cell leaves what is open as it is.
StartTag(t) ==
  /\ t \in {Cell, Td, Tag}
  /\ Consume(t)
  /\ inCell' = (inCell \/ t = Cell)
  /\ UNCHANGED <<buf, textRead>>

\* Mutant of EndTag: a cell without a text leaves no entry.
EndTagNoNull ==
  /\ Consume(End)
  /\ IF inCell THEN inCell' = FALSE /\ textRead' = FALSE /\ UNCHANGED buf
     ELSE UNCHANGED parser

EndTag ==
  /\ Consume(End)
  /\ IF inCell
     THEN /\ buf' = IF textRead THEN buf ELSE Append(buf, <<>>)
          /\ inCell' = FALSE /\ textRead' = FALSE
     ELSE UNCHANGED parser

\* The first text of a cell is a new entry, the others are joined to the last one.
Text(t) ==
  /\ t \in Words \cup {Blank}
  /\ Consume(t)
  /\ IF ~inCell \/ t = Blank THEN UNCHANGED parser
     ELSE /\ buf' = IF textRead THEN Append(Front(buf), Append(Last(buf), t))
                                ELSE Append(buf, <<t>>)
          /\ textRead' = TRUE
          /\ UNCHANGED inCell

\* Mutant of EndOfPage: the page may be longer than the table.
EndOfPageLong ==
  /\ lookup = "parsing"
  /\ \/ Return(IF buf = <<>> THEN "macNotFound"
               ELSE IF Len(buf) < Columns THEN "unknownApi" ELSE "attributes")
     \/ Return("common")
  /\ UNCHANGED <<client, page, parser>>

\* io.EOF, also of a page that was cut off; or the tokenizer fails.
EndOfPage ==
  /\ lookup = "parsing"
  /\ \/ Return(IF buf = <<>> THEN "macNotFound"
               ELSE IF Len(buf) # Columns THEN "unknownApi" ELSE "attributes")
     \/ Return("common")
  /\ UNCHANGED <<client, page, parser>>

Next == \/ NewClient \/ Request \/ EndTag \/ EndOfPage
        \/ \E t \in Tokens : StartTag(t) \/ Text(t)

Spec == Init /\ [][Next]_vars

-----------------------------------------------------------------------------
(* Properties. *)

Positions(T) == {i \in DOMAIN page : page[i] \in T}
Opens == Positions({Cell})
Ends  == Positions({End})

\* The place of i among the members of S.
Rank(i, S) == Cardinality({k \in S : k <= i})

\* The texts between the start i of a cell and the first end of td after it, or the
\* end of the page.
TextsOf(i) == {j \in Positions(Words) : i < j /\ \A e \in Ends : e < i \/ j < e}

\* Every cell is closed before the next one opens, and before the page ends.
Closed(i)  == \E e \in Ends : i < e
WellFormed == \A i \in Opens : /\ Closed(i)
                               /\ \A j \in Opens : i < j => \E e \in Ends : i < e /\ e < j

\* The cell has the texts that the markup has after i, in order.
HasTexts(cell, i) ==
  /\ Len(cell) = Cardinality(TextsOf(i))
  /\ \A j \in TextsOf(i) : cell[Rank(j, TextsOf(i))] = page[j]

\* What the parser gives for a page that closes its cells is what the markup says,
\* cell by cell and in order, an empty cell holding its place: on that the columns
\* that port.go reads by their number depend.
CellsInOrder ==
  WellFormed => /\ Len(buf) = Cardinality(Opens)
                /\ \A i \in Opens : HasTexts(buf[Rank(i, Opens)], i)

\* A page is accepted with one entry for each column, and never when it shows fewer
\* cells than that: a page that is cut off, or leaves cells open, may lose entries
\* or join two of them, not gain any.  A MAC is reported as not found only when the
\* page has shown no closed result cell.
AnswerFitsPage ==
  /\ answer = "attributes" => Len(buf) = Columns /\ Cardinality(Opens) >= Columns
  /\ answer = "macNotFound" => \A i \in Opens : ~Closed(i) /\ TextsOf(i) = {}
=============================================================================
