------------------------ MODULE TerminalReviewProofs ------------------------
(***************************************************************************)
(* Proofs about TerminalReview, for any documents, places and bounds: the   *)
(* selection is of what is displayed, the source view has its file, drafts  *)
(* and comments are on their lines, a reference that is being opened is     *)
(* asked for, and neither another document nor a late answer takes          *)
(* anything from the review.                                               *)
(*                                                                         *)
(* Every operation of ReviewSession and NameLookups has a lemma, *Step or   *)
(* *Steps, that says what it keeps; the lemmas about the loop's actions put *)
(* them together.                                                          *)
(***************************************************************************)
EXTENDS TerminalReview, SequenceTheorems, FiniteSetTheorems, WellFoundedInduction, TLAPS

-----------------------------------------------------------------------------
(* Numbers, indices, rows.                                                  *)

\* A set of numbers has a least one.
LEMMA LeastNumber ==
  ASSUME NEW T, T \subseteq Nat, T # {}
  PROVE  \E x \in T : \A y \in T : x <= y
<1>1. IsWellFoundedOn(OpToRel(<, Nat), Nat)
  BY NatLessThanWellFounded
<1>2. PICK x \in T : \A y \in T : <<y, x>> \notin OpToRel(<, Nat)
  BY <1>1, WFMin
<1>3. \A y \in T : y \in Nat /\ x \in Nat /\ ~(y < x)
  BY <1>2 DEF OpToRel
<1> QED BY <1>3

LEMMA MinIsIn ==
  ASSUME NEW T, T \subseteq Nat, T # {}
  PROVE  Min(T) \in T /\ \A y \in T : Min(T) <= y
<1>1. \E x \in T : \A y \in T : x <= y
  BY LeastNumber
<1> QED BY <1>1 DEF Min

LEMMA MaxOfTwo ==
  ASSUME NEW m \in Nat, NEW n \in Nat
  PROVE  Max({m, n}) \in {m, n} /\ m <= Max({m, n}) /\ n <= Max({m, n})
<1>1. \E x \in {m, n} : \A y \in {m, n} : x >= y
  OBVIOUS
<1>2. Max({m, n}) \in {m, n} /\ \A y \in {m, n} : Max({m, n}) >= y
  BY <1>1 DEF Max
<1> QED BY <1>2

LEMMA MinOfTwo ==
  ASSUME NEW m \in Nat, NEW n \in Nat
  PROVE  Min({m, n}) \in {m, n} /\ Min({m, n}) <= m /\ Min({m, n}) <= n
BY MinIsIn

\* The index of a path is that of the first file with it, or 0.
LEMMA PathIndexType ==
  ASSUME NEW files \in Seq(Files), NEW path
  PROVE  /\ PathIndex(files, path) \in Nat
         /\ PathIndex(files, path) # 0 =>
              PathIndex(files, path) \in DOMAIN files /\ files[PathIndex(files, path)].path = path
         /\ (\E i \in DOMAIN files : files[i].path = path) <=> PathIndex(files, path) # 0
<1> DEFINE T == {i \in DOMAIN files : files[i].path = path}
<1>0. T \subseteq Nat /\ DOMAIN files \subseteq Nat \ {0}
  OBVIOUS
<1>1. CASE T = {}
  <2>1. PathIndex(files, path) = 0
    BY <1>1 DEF PathIndex
  <2> QED BY <1>1, <2>1
<1>2. CASE T # {}
  <2>1. Min(T) \in T
    BY <1>0, <1>2, MinIsIn
  <2>2. PathIndex(files, path) = Min(T)
    BY <1>2 DEF PathIndex
  <2> QED BY <1>0, <2>1, <2>2
<1> QED BY <1>1, <1>2

\* Only the files before count when they have the path.
LEMMA PathIndexOfTwo ==
  ASSUME NEW files \in Seq(Files), NEW more \in Seq(Files), NEW path
  PROVE  PathIndex(files \o more, path) = 0 <=> PathIndex(files, path) = 0 /\ PathIndex(more, path) = 0
<1>1. files \o more \in Seq(Files) /\ DOMAIN files = 1..Len(files) /\ DOMAIN more = 1..Len(more)
      /\ DOMAIN (files \o more) = 1..Len(files) + Len(more)
  OBVIOUS
<1>2. \A i \in DOMAIN files : i \in DOMAIN (files \o more) /\ (files \o more)[i] = files[i]
  OBVIOUS
<1>3. \A i \in DOMAIN more : Len(files) + i \in DOMAIN (files \o more) /\ (files \o more)[Len(files) + i] = more[i]
  OBVIOUS
<1>4. \A i \in DOMAIN (files \o more) \ DOMAIN files :
        i - Len(files) \in DOMAIN more /\ (files \o more)[i] = more[i - Len(files)]
  BY <1>1
<1>5. (\E i \in DOMAIN (files \o more) : (files \o more)[i].path = path)
        => (\E i \in DOMAIN files : files[i].path = path) \/ (\E i \in DOMAIN more : more[i].path = path)
  BY ONLY <1>2, <1>4
<1>6. (\E i \in DOMAIN files : files[i].path = path) \/ (\E i \in DOMAIN more : more[i].path = path)
        => \E i \in DOMAIN (files \o more) : (files \o more)[i].path = path
  BY ONLY <1>2, <1>3
<1>7. /\ (\E i \in DOMAIN files : files[i].path = path) <=> PathIndex(files, path) # 0
      /\ (\E i \in DOMAIN more : more[i].path = path) <=> PathIndex(more, path) # 0
      /\ (\E i \in DOMAIN (files \o more) : (files \o more)[i].path = path) <=> PathIndex(files \o more, path) # 0
  BY <1>1, PathIndexType
<1> QED BY ONLY <1>5, <1>6, <1>7

LEMMA NumberType ==
  ASSUME NEW file \in Files, NEW side, NEW k \in Nat
  PROVE  Number(file, k, side) \in Nat
<1>1. IsFiniteSet(1..k)
  BY FS_Interval
<1>2. IsFiniteSet({i \in 1..k : OnSide(file.hunk[i], side)})
  BY <1>1, FS_Subset
<1> QED BY <1>2, FS_CardinalityType DEF Number

LEMMA CountTypes ==
  ASSUME NEW file \in Files, NEW side
  PROVE  InHunk(file, side) \in Nat /\ LineCount(file, side) \in Nat
BY NumberType DEF InHunk, LineCount, Files

LEMMA AnchorType ==
  ASSUME NEW file \in Files, NEW k \in DOMAIN file.hunk, NEW side \in {Old, New}
  PROVE  AnchorOf(file, k, side) \in LineAnchors /\ AnchorOf(file, k, side).path = file.path
<1> DEFINE first == Max({1, k - ContextRadius})
           last == Min({k + ContextRadius, Len(file.hunk)})
<1>0. file.hunk \in Seq(Lines) /\ file.path \in STRING /\ k \in Nat /\ k >= 1 /\ k <= Len(file.hunk) /\ Len(file.hunk) \in Nat
  BY DEF Files
<1>1. file.hunk[k] \in Lines
  BY <1>0
<1>2. NumberOn(file, k, Old) \in Nat /\ NumberOn(file, k, New) \in Nat
  BY <1>0, NumberType DEF NumberOn
<1>3. first \in Int /\ first >= 1
  <2>1. \E x \in {1, k - 2} : \A y \in {1, k - 2} : x >= y
    BY <1>0
  <2>2. Max({1, k - 2}) \in {1, k - 2} /\ \A y \in {1, k - 2} : Max({1, k - 2}) >= y
    BY <2>1 DEF Max
  <2> QED BY <1>0, <2>2 DEF ContextRadius
<1>4. last \in Nat /\ last <= Len(file.hunk)
  <2>1. k + 2 \in Nat /\ Len(file.hunk) \in Nat
    BY ONLY <1>0
  <2>2. Min({k + 2, Len(file.hunk)}) \in Nat /\ Min({k + 2, Len(file.hunk)}) <= Len(file.hunk)
    BY ONLY <2>1, MinOfTwo
  <2> QED BY <2>2 DEF ContextRadius
<1>5. SubSeq(file.hunk, first, last) \in Seq(Lines)
  <2> HIDE DEF first, last
  <2> QED BY <1>0, <1>3, <1>4
<1>6. Texts(SubSeq(file.hunk, first, last)) \in Seq(STRING)
  <2> DEFINE lines == SubSeq(file.hunk, first, last)
  <2>1. lines \in Seq(Lines)
    BY <1>5
  <2> HIDE DEF lines
  <2>2. \A i \in 1..Len(lines) : lines[i].text \in STRING
    <3>1. \A i \in 1..Len(lines) : lines[i] \in Lines
      BY <2>1
    <3> QED BY <3>1 DEF Lines
  <2>3. DOMAIN lines = 1..Len(lines) /\ Len(lines) \in Nat
    BY <2>1
  <2>4. [i \in DOMAIN lines |-> lines[i].text] \in Seq(STRING)
    BY <2>2, <2>3
  <2> QED BY <2>4 DEF Texts, lines
<1> HIDE DEF first, last
<1>7. AnchorOf(file, k, side) =
        [path |-> file.path, side |-> side, old |-> NumberOn(file, k, Old), new |-> NumberOn(file, k, New),
         kind |-> file.hunk[k].kind, text |-> file.hunk[k].text, near |-> Texts(SubSeq(file.hunk, first, last))]
  BY DEF AnchorOf, first, last
<1> QED BY <1>0, <1>1, <1>2, <1>6, <1>7 DEF LineAnchors, Lines

-----------------------------------------------------------------------------
(* Sessions.                                                                *)

SessionFields ==
  {"document", "row", "file", "source_view", "reference", "expansions", "full_files", "collapsed_files",
   "pending_source_restore", "diff_return", "back", "forward", "draft", "comments", "next_id"}

\* There is no reference, one that is asked for, or one that is open with the whole file.
ReferenceOK(reference) ==
  \/ reference = None
  \/ /\ DOMAIN reference = {"state", "target", "error"} /\ reference.state = "Pending"
     /\ reference.target \in Locations /\ reference.error \in BOOLEAN
  \/ \E file \in Files : file.hunk = <<>> /\ reference = Open(file)

\* What every operation keeps of a session, whatever row is selected: the source view has its file, which
\* is the one selected, an open reference is in view and not in the document, folds are of its files.
Framed(s) ==
  /\ DOMAIN s = SessionFields
  /\ s.document \in Documents \cup {NoDocument}
  /\ s.file \in Nat \ {0}
  /\ ReferenceOK(s.reference)
  /\ \A path \in s.full_files \cup s.collapsed_files : IndexIn(s.document, path) # 0
  /\ s.back \in Seq(Locations) /\ s.forward \in Seq(Locations)
  /\ IsOpen(s) => s.source_view = s.reference.file.path /\ IndexIn(s.document, s.source_view) = 0
  /\ s.source_view # None => s.file \in DOMAIN Displayed(s) /\ Displayed(s)[s.file].path = s.source_view

\* The selected row is displayed, in the source view for the file in view.
RowShown(s) ==
  /\ Displayed(s) = <<>> => s.row = None
  /\ Displayed(s) # <<>> => s.row \in Rows(s)
  /\ s.row # None /\ s.source_view # None => s.row.path = s.source_view

Good(s) == Framed(s) /\ RowShown(s)

\* Two sessions that display the same.
SameView(s, t) ==
  /\ t.document = s.document /\ Displayed(t) = Displayed(s)
  /\ t.source_view = s.source_view /\ t.collapsed_files = s.collapsed_files
  /\ t.expansions = s.expansions /\ t.full_files = s.full_files

LEMMA ReferenceTypes ==
  ASSUME NEW s, ReferenceOK(s.reference)
  PROVE  /\ IsOpen(s) => /\ s.reference.file \in Files /\ s.reference.file.hunk = <<>>
                         /\ ReferencePath(s) = s.reference.file.path /\ ~IsPending(s)
         /\ IsPending(s) => /\ s.reference.target \in Locations /\ s.reference.error \in BOOLEAN
                            /\ ReferencePath(s) = s.reference.target.path /\ ~IsOpen(s)
         /\ s.reference # None => IsOpen(s) \/ IsPending(s)
         /\ s.reference # None => ReferencePath(s) \in STRING
<1>1. CASE s.reference = None
  BY <1>1 DEF IsOpen, IsPending
<1>2. ASSUME s.reference # None, s.reference.state = "Pending", s.reference.target \in Locations
      PROVE  IsPending(s) /\ ~IsOpen(s) /\ ReferencePath(s) = s.reference.target.path
             /\ s.reference.target.path \in STRING
  BY <1>2 DEF IsPending, IsOpen, ReferencePath, Locations
<1>3. ASSUME s.reference # None, NEW file \in Files, file.hunk = <<>>, s.reference = Open(file)
      PROVE  ~IsPending(s) /\ IsOpen(s) /\ s.reference.file = file /\ ReferencePath(s) = file.path /\ file.path \in STRING
  BY <1>3 DEF Open, IsPending, IsOpen, ReferencePath, Files
<1> QED BY <1>1, <1>2, <1>3 DEF ReferenceOK

LEMMA DocumentTypes ==
  ASSUME NEW d \in Documents \cup {NoDocument}
  PROVE  d.files \in Seq(Files) /\ (\A i \in DOMAIN d.files : d.files[i].path \in STRING /\ d.files[i].path # None)
<1>1. d.files \in Seq(Files)
  BY ConstantsAssumption
<1>2. \A i \in DOMAIN d.files : d.files[i] \in Files
  BY <1>1
<1> QED BY <1>1, <1>2, NoneAssumption DEF Files

LEMMA DisplayedTypes ==
  ASSUME NEW s, s.document \in Documents \cup {NoDocument}, ReferenceOK(s.reference)
  PROVE  /\ Displayed(s) \in Seq(Files)
         /\ DOMAIN Displayed(s) = 1..Len(Displayed(s)) /\ Len(Displayed(s)) \in Nat
         /\ \A i \in DOMAIN Displayed(s) : Displayed(s)[i] \in Files /\ Displayed(s)[i].path \in STRING
         /\ \A i \in DOMAIN s.document.files : i \in DOMAIN Displayed(s) /\ Displayed(s)[i] = s.document.files[i]
         /\ ~IsOpen(s) => Displayed(s) = s.document.files
         /\ IsOpen(s) => /\ Len(Displayed(s)) = Len(s.document.files) + 1
                         /\ Displayed(s)[Len(s.document.files) + 1] = s.reference.file
<1>1. s.document.files \in Seq(Files)
  BY DocumentTypes
<1>2. CASE IsOpen(s)
  <2>1. s.reference.file \in Files
    BY <1>2, ReferenceTypes
  <2>2. Displayed(s) = s.document.files \o <<s.reference.file>>
    BY <1>2 DEF Displayed
  <2> DEFINE files == s.document.files
             file == s.reference.file
             all == files \o <<file>>
  <2>3. files \in Seq(Files) /\ file \in Files
    BY <1>1, <2>1
  <2> HIDE DEF files, file
  <2>4. /\ all \in Seq(Files) /\ Len(all) = Len(files) + 1 /\ all[Len(files) + 1] = file
        /\ DOMAIN all = 1..Len(all) /\ Len(all) \in Nat
        /\ \A i \in DOMAIN all : all[i] \in Files
        /\ \A i \in DOMAIN files : i \in DOMAIN all /\ all[i] = files[i]
    BY <2>3
  <2> HIDE DEF all
  <2>5. \A f \in Files : f.path \in STRING
    BY DEF Files
  <2>6. Displayed(s) = all
    BY <2>2 DEF all, files, file
  <2> QED BY <1>2, <2>4, <2>5, <2>6 DEF files, file
<1>3. CASE ~IsOpen(s)
  <2>1. Displayed(s) = s.document.files
    BY <1>1, <1>3 DEF Displayed
  <2>2. \A i \in DOMAIN Displayed(s) : Displayed(s)[i] \in Files
    BY <1>1, <2>1
  <2> QED BY <1>1, <1>3, <2>1, <2>2 DEF Files
<1> QED BY <1>2, <1>3

\* The index of a file displayed.
LEMMA FileIndexType ==
  ASSUME NEW s, s.document \in Documents \cup {NoDocument}, ReferenceOK(s.reference), NEW path
  PROVE  /\ FileIndex(s, path) \in Nat
         /\ FileIndex(s, path) # 0 =>
              FileIndex(s, path) \in DOMAIN Displayed(s) /\ Displayed(s)[FileIndex(s, path)].path = path
         /\ (\E i \in DOMAIN Displayed(s) : Displayed(s)[i].path = path) <=> FileIndex(s, path) # 0
<1>1. Displayed(s) \in Seq(Files)
  BY DisplayedTypes
<1> QED BY <1>1, PathIndexType DEF FileIndex

LEMMA IndexInType ==
  ASSUME NEW d \in Documents \cup {NoDocument}, NEW path
  PROVE  /\ IndexIn(d, path) \in Nat
         /\ IndexIn(d, path) # 0 => IndexIn(d, path) \in DOMAIN d.files /\ d.files[IndexIn(d, path)].path = path
         /\ (\E i \in DOMAIN d.files : d.files[i].path = path) <=> IndexIn(d, path) # 0
<1>1. d.files \in Seq(Files)
  BY DocumentTypes
<1> QED BY <1>1, PathIndexType DEF IndexIn

\* A file of the document, or the open reference, is displayed.
LEMMA IndexOfDisplayed ==
  ASSUME NEW s, s.document \in Documents \cup {NoDocument}, ReferenceOK(s.reference), NEW path
  PROVE  FileIndex(s, path) # 0 <=> IndexIn(s.document, path) # 0 \/ (IsOpen(s) /\ s.reference.file.path = path)
<1>0. s.document.files \in Seq(Files) /\ Displayed(s) \in Seq(Files)
  BY DocumentTypes, DisplayedTypes
<1>1. IndexIn(s.document, path) # 0 => FileIndex(s, path) # 0
  <2> SUFFICES ASSUME IndexIn(s.document, path) # 0 PROVE FileIndex(s, path) # 0
    OBVIOUS
  <2>1. PICK i \in DOMAIN s.document.files : s.document.files[i].path = path
    BY IndexInType
  <2>2. i \in DOMAIN Displayed(s) /\ Displayed(s)[i].path = path
    BY <2>1, DisplayedTypes
  <2> QED BY <2>2, FileIndexType
<1>2. IsOpen(s) /\ s.reference.file.path = path => FileIndex(s, path) # 0
  <2> SUFFICES ASSUME IsOpen(s), s.reference.file.path = path PROVE FileIndex(s, path) # 0
    OBVIOUS
  <2> DEFINE last == Len(s.document.files) + 1
  <2>1. last \in DOMAIN Displayed(s) /\ Displayed(s)[last].path = path
    BY <1>0, DisplayedTypes
  <2> QED BY <2>1, FileIndexType
<1>3. ASSUME FileIndex(s, path) # 0
      PROVE  IndexIn(s.document, path) # 0 \/ (IsOpen(s) /\ s.reference.file.path = path)
  <2>1. PICK i \in DOMAIN Displayed(s) : Displayed(s)[i].path = path
    BY <1>3, FileIndexType
  <2>2. CASE i \in DOMAIN s.document.files
    BY <2>1, <2>2, DisplayedTypes, IndexInType
  <2>3. CASE i \notin DOMAIN s.document.files
    <3>1. IsOpen(s) /\ i = Len(s.document.files) + 1
      BY <1>0, <2>1, <2>3, DisplayedTypes
    <3> QED BY <2>1, <3>1, DisplayedTypes
  <2> QED BY <2>2, <2>3
<1> QED BY <1>1, <1>2, <1>3

-----------------------------------------------------------------------------
(* Rows.                                                                    *)

\* The anchor of a row is that of a line of the hunk, on a side that the line is on.
OnItsLine(row, file) ==
  \E k \in DOMAIN file.hunk, side \in {Old, New} : OnSide(file.hunk[k], side) /\ row.anchor = AnchorOf(file, k, side)

RowOK(row, file, i) ==
  /\ row.file = i /\ row.path = file.path
  /\ row.at \in Nat /\ row.line \in Nat /\ row.side \in {Old, New}
  /\ row.anchor # None => OnItsLine(row, file)

LEMMA RowTypes ==
  ASSUME NEW s, NEW file \in Files, NEW i
  PROVE  RowsOf(s, file, i) # {} /\ \A row \in RowsOf(s, file, i) : RowOK(row, file, i)
<1>0. file.hunk \in Seq(Lines) /\ Len(file.hunk) \in Nat /\ file.rest \in Nat
      /\ \A k \in DOMAIN file.hunk : k \in Nat /\ file.hunk[k] \in Lines
  BY DEF Files
<1>1. RowOK(Row(file, i, 0, "FileHeader", New, 0, None), file, i)
  BY DEF RowOK, Row
<1>2. ASSUME NEW side \in {Old, New}, NEW row \in SourceRows(file, i, side)
      PROVE  RowOK(row, file, i)
  <2>1. LineCount(file, side) \in Nat
    BY CountTypes
  <2> QED BY <1>2, <2>1 DEF RowOK, Row, SourceRows
<1>3. ASSUME NEW row \in HunkRows(file, i)
      PROVE  RowOK(row, file, i)
  <2>1. PICK k \in DOMAIN file.hunk :
          row = CodeRow(file, i, k, IF file.hunk[k].kind = "Removed" THEN Old ELSE New)
    BY <1>3 DEF HunkRows
  <2> DEFINE side == IF file.hunk[k].kind = "Removed" THEN Old ELSE New
  <2>2. side \in {Old, New} /\ OnSide(file.hunk[k], side)
    BY DEF OnSide, Old, New
  <2>3. Number(file, k, side) \in Nat
    BY <1>0, NumberType
  <2>4. row = Row(file, i, k, "Code", side, Number(file, k, side), AnchorOf(file, k, side))
    BY <2>1 DEF CodeRow
  <2> HIDE DEF side
  <2>5. OnItsLine(row, file)
    BY <2>2, <2>4 DEF OnItsLine, Row
  <2> QED BY <1>0, <2>2, <2>3, <2>4, <2>5 DEF RowOK, Row
<1>4. ASSUME NEW shown, NEW row \in GapRows(file, i, shown)
      PROVE  RowOK(row, file, i)
  <2>1. InHunk(file, New) \in Nat
    BY CountTypes
  <2> QED BY <1>0, <1>4, <2>1 DEF RowOK, Row, GapRows
<1>5. SourceSide(file) \in {Old, New}
  BY DEF SourceSide
<1> QED BY <1>1, <1>2, <1>3, <1>4, <1>5 DEF RowsOf

LEMMA FileRowTypes ==
  ASSUME NEW s, s.document \in Documents \cup {NoDocument}, ReferenceOK(s.reference), NEW i \in DOMAIN Displayed(s)
  PROVE  /\ FileRows(s, i) # {} /\ FileRows(s, i) \subseteq Rows(s)
         /\ \A row \in FileRows(s, i) : RowOK(row, Displayed(s)[i], i)
<1>1. Displayed(s)[i] \in Files
  BY DisplayedTypes
<1> QED BY <1>1, RowTypes DEF FileRows, Rows

LEMMA RowsTypes ==
  ASSUME NEW s, s.document \in Documents \cup {NoDocument}, ReferenceOK(s.reference), NEW row \in Rows(s)
  PROVE  /\ row.file \in DOMAIN Displayed(s) /\ row.file \in Nat \ {0} /\ row.path = Displayed(s)[row.file].path
         /\ row.path \in STRING /\ row \in FileRows(s, row.file)
         /\ row.at \in Nat /\ row.line \in Nat /\ row.side \in {Old, New}
         /\ row.anchor # None => OnItsLine(row, Displayed(s)[row.file])
<1>1. PICK i \in DOMAIN Displayed(s) : row \in FileRows(s, i)
  BY DEF Rows
<1>2. RowOK(row, Displayed(s)[i], i)
  BY <1>1, FileRowTypes
<1>3. Displayed(s)[i].path \in STRING /\ i \in Nat \ {0}
  BY DisplayedTypes
<1> QED BY <1>1, <1>2, <1>3 DEF RowOK

\* What displays the same has the same rows.
LEMMA SameRows ==
  ASSUME NEW s, NEW t, SameView(s, t)
  PROVE  Rows(t) = Rows(s) /\ \A i : FileRows(t, i) = FileRows(s, i)
BY DEF SameView, Rows, FileRows, RowsOf

\* The topmost of some rows is one of them.
LEMMA TopmostIsIn ==
  ASSUME NEW rows, rows # {}, \A row \in rows : row.at \in Nat
  PROVE  Topmost(rows) \in rows
<1> DEFINE T == {row.at : row \in rows}
<1>1. PICK x \in T : \A y \in T : x <= y
  <2>1. T \subseteq Nat /\ T # {}
    OBVIOUS
  <2> HIDE DEF T
  <2> QED BY <2>1, LeastNumber
<1>2. \E row \in rows : \A other \in rows : row.at <= other.at
  BY <1>1
<1> QED BY <1>2 DEF Topmost

-----------------------------------------------------------------------------
(* Rebuilding the rows.                                                     *)

\* All but the selected row, its file and the place that waits is as it was.
SameButRow(s, t) ==
  /\ DOMAIN t = SessionFields
  /\ t.document = s.document /\ t.source_view = s.source_view /\ t.reference = s.reference
  /\ t.expansions = s.expansions /\ t.full_files = s.full_files /\ t.collapsed_files = s.collapsed_files
  /\ t.diff_return = s.diff_return /\ t.back = s.back /\ t.forward = s.forward
  /\ t.draft = s.draft /\ t.comments = s.comments /\ t.next_id = s.next_id

LEMMA SameButRowView ==
  ASSUME NEW s, NEW t, SameButRow(s, t)
  PROVE  SameView(s, t) /\ (IsOpen(t) <=> IsOpen(s)) /\ (IsPending(t) <=> IsPending(s))
BY DEF SameButRow, SameView, IsOpen, IsPending, Displayed

LEMMA SameButRowTransitive ==
  ASSUME NEW s, NEW t, NEW u, SameButRow(s, t), SameButRow(t, u)
  PROVE  SameButRow(s, u)
BY DEF SameButRow

\* With another file selected, that in view if there is one.
LEMMA FramedAnew ==
  ASSUME NEW s, NEW t, Framed(s), SameButRow(s, t), t.file \in Nat \ {0},
         s.source_view # None => t.file \in DOMAIN Displayed(s) /\ Displayed(s)[t.file].path = s.source_view
  PROVE  Framed(t)
<1>1. SameView(s, t) /\ (IsOpen(t) <=> IsOpen(s))
  BY SameButRowView
<1> QED BY <1>1 DEF Framed, SameButRow, SameView

\* A row that is displayed is selected, in the source view one of the file in view.
LEMMA GoodAnew ==
  ASSUME NEW s, NEW t, Framed(s), SameButRow(s, t), t.row \in Rows(s), t.file = t.row.file,
         s.source_view # None => t.row.path = s.source_view
  PROVE  Good(t)
<1>1. s.document \in Documents \cup {NoDocument} /\ ReferenceOK(s.reference)
  BY DEF Framed
<1>2. /\ t.row.file \in DOMAIN Displayed(s) /\ t.row.file \in Nat \ {0}
      /\ t.row.path = Displayed(s)[t.row.file].path
  BY <1>1, RowsTypes
<1>3. Framed(t)
  BY <1>2, FramedAnew
<1>4. SameView(s, t)
  BY SameButRowView
<1>5. Rows(t) = Rows(s)
  BY <1>4, SameRows
<1>6. Displayed(t) # <<>>
  BY <1>2, <1>4 DEF SameView
<1> QED BY <1>3, <1>4, <1>5, <1>6 DEF Good, RowShown, SameView

LEMMA FirstLineIsIn ==
  ASSUME NEW s, NEW rows, rows # {}, \A row \in rows : row.at \in Nat
  PROVE  FirstLine(s, rows) \in rows
<1> DEFINE chosen == FirstFound({row \in rows : row.line > 0}, FirstFound({row \in rows : Navigable(s, row)}, rows))
<1>1. chosen # {} /\ chosen \subseteq rows
  BY DEF FirstFound
<1>2. FirstLine(s, rows) = Topmost(chosen)
  BY DEF FirstLine
<1> HIDE DEF chosen
<1>3. Topmost(chosen) \in chosen
  BY <1>1, TopmostIsIn
<1> QED BY <1>1, <1>2, <1>3

LEMMA SelectFirstRowStep ==
  ASSUME NEW s, Framed(s)
  PROVE  Good(SelectFirstRow(s)) /\ SameButRow(s, SelectFirstRow(s))
<1> DEFINE t == SelectFirstRow(s)
           r == IF s.file \in DOMAIN Displayed(s) THEN FirstLine(s, FileRows(s, s.file))
                ELSE IF Displayed(s) = <<>> THEN None ELSE Topmost(FileRows(s, 1))
<1>0. /\ s.document \in Documents \cup {NoDocument} /\ ReferenceOK(s.reference) /\ DOMAIN s = SessionFields
      /\ s.file \in Nat \ {0}
  BY DEF Framed
<1>1. t = [s EXCEPT !.row = r]
  BY DEF SelectFirstRow
<1> HIDE DEF r
<1>2. t.row = r /\ t.file = s.file /\ SameButRow(s, t)
  BY <1>0, <1>1 DEF SessionFields, SameButRow
<1> HIDE DEF t
<1>3. Framed(t)
  BY <1>0, <1>2, FramedAnew DEF Framed
<1>4. SameView(s, t)
  BY <1>2, SameButRowView
<1>5. Rows(t) = Rows(s)
  BY <1>4, SameRows
<1>6. CASE s.file \in DOMAIN Displayed(s)
  <2>1. FileRows(s, s.file) # {} /\ FileRows(s, s.file) \subseteq Rows(s)
        /\ \A row \in FileRows(s, s.file) : RowOK(row, Displayed(s)[s.file], s.file)
    BY <1>0, <1>6, FileRowTypes
  <2>2. r \in FileRows(s, s.file)
    BY <1>6, <2>1, FirstLineIsIn DEF r, RowOK
  <2>3. r \in Rows(s) /\ r.path = Displayed(s)[s.file].path
    BY <2>1, <2>2 DEF RowOK
  <2>4. Displayed(t) # <<>>
    BY <1>4, <1>6 DEF SameView
  <2> QED BY <1>2, <1>3, <1>4, <1>5, <2>3, <2>4 DEF Good, RowShown, SameView, Framed, t
<1>7. CASE s.file \notin DOMAIN Displayed(s) /\ Displayed(s) = <<>>
  <2>1. r = None
    BY <1>7 DEF r
  <2> QED BY <1>2, <1>3, <1>4, <1>7, <2>1 DEF Good, RowShown, SameView, t
<1>8. CASE s.file \notin DOMAIN Displayed(s) /\ Displayed(s) # <<>>
  <2>1. 1 \in DOMAIN Displayed(s)
    BY <1>0, <1>8, DisplayedTypes
  <2>2. FileRows(s, 1) # {} /\ FileRows(s, 1) \subseteq Rows(s)
        /\ \A row \in FileRows(s, 1) : row.at \in Nat
    BY <1>0, <2>1, FileRowTypes DEF RowOK
  <2>3. r \in Rows(s)
    BY <1>8, <2>2, TopmostIsIn DEF r
  <2>4. s.source_view = None
    BY <1>8 DEF Framed
  <2> QED BY <1>2, <1>3, <1>4, <1>5, <1>8, <2>3, <2>4 DEF Good, RowShown, SameView, t
<1> QED BY <1>6, <1>7, <1>8

\* Rows restored are displayed, in the source view for the file in view.
LEMMA SelectRestoredStep ==
  ASSUME NEW s, NEW rows, Framed(s), rows \subseteq Rows(s),
         s.source_view # None => \A row \in rows : row.path = s.source_view
  PROVE  Good(SelectRestored(s, rows)) /\ SameButRow(s, SelectRestored(s, rows))
<1>1. CASE rows = {}
  BY <1>1, SelectFirstRowStep DEF SelectRestored
<1>2. CASE rows # {}
  <2> DEFINE r == CHOOSE row \in rows : TRUE
             t == SelectRestored(s, rows)
  <2>1. r \in rows
    BY <1>2
  <2>2. t = [s EXCEPT !.row = r, !.file = r.file]
    BY <1>2 DEF SelectRestored
  <2> HIDE DEF r
  <2>3. t.row = r /\ t.file = r.file /\ SameButRow(s, t)
    BY <2>2 DEF Framed, SessionFields, SameButRow
  <2> HIDE DEF t
  <2>4. Good(t)
    BY <2>1, <2>3, GoodAnew
  <2> QED BY <2>3, <2>4 DEF t
<1> QED BY <1>1, <1>2

\* Places and rows sought are among those displayed.
LEMMA SoughtRows ==
  ASSUME NEW s, NEW place, NEW bookmark
  PROVE  RowsOfSource(s, place) \subseteq Rows(s) /\ RowsOfPatch(s, bookmark) \subseteq Rows(s)
BY DEF RowsOfSource, RowsOfPatch, RowsShowingSource, RowsShowingAnchor, RowsWithId, FirstFound

\* In the source view the place sought is in the file in view.
LEMMA SourcePlace ==
  ASSUME NEW s, NEW u, NEW place, Framed(s), s.source_view # None, SameView(s, u),
         NEW row \in RowsOfSource(u, PlaceIn(s, "Source", place))
  PROVE  row.path = s.source_view
<1> DEFINE p == PlaceIn(s, "Source", place)
           i == FileIndex(s, s.source_view)
<1>0. s.document \in Documents \cup {NoDocument} /\ ReferenceOK(s.reference)
  BY DEF Framed
<1>1. FileIndex(s, s.source_view) # 0
  BY <1>0, FileIndexType DEF Framed
<1>2. i \in DOMAIN Displayed(s) /\ Displayed(s)[i].path = s.source_view /\ Displayed(s)[i] \in Files
  BY <1>0, <1>1, FileIndexType, DisplayedTypes
<1>3. CASE place = None
  <2>1. p = None
    BY <1>3 DEF PlaceIn
  <2> QED BY <2>1 DEF RowsOfSource
<1>4. CASE place # None
  <2>1. p = InSourceView(Displayed(s)[i], place)
    BY <1>1, <1>2, <1>4 DEF PlaceIn, File
  <2>2. p = Location(s.source_view, p.side, p.line)
    BY <1>2, <2>1 DEF InSourceView, Location
  <2> HIDE DEF p
  <2>3. p # None /\ SourceOf(row) = p
    BY DEF p, RowsOfSource, RowsShowingSource
  <2>4. p = Location(row.path, row.side, row.line)
    BY <2>3 DEF SourceOf
  <2> QED BY <2>2, <2>4 DEF Location
<1> QED BY <1>3, <1>4

\* What is restored is displayed.
LEMMA RestoredStep ==
  ASSUME NEW s, NEW u, NEW mode \in {"Source", "Returning", "Refresh"}, NEW bookmark, NEW place,
         Framed(u), SameView(s, u), Framed(s),
         mode = "Source" <=> s.source_view # None
  PROVE  /\ Good(RestoredAt(u, mode, bookmark, PlaceIn(s, mode, place)))
         /\ SameButRow(u, RestoredAt(u, mode, bookmark, PlaceIn(s, mode, place)))
<1> DEFINE p == PlaceIn(s, mode, place)
           sourceRows == RowsOfSource(u, p)
           waits == IF mode = "Refresh" /\ sourceRows = {} THEN p ELSE None
           v == [u EXCEPT !.pending_source_restore = waits]
           rows == CASE mode = "Source" -> sourceRows
                     [] mode = "Returning" -> FirstFound(RowsOfPatch(u, bookmark), sourceRows)
                     [] mode = "Refresh" -> FirstFound(sourceRows, RowsOfPatch(u, bookmark))
<1>1. RestoredAt(u, mode, bookmark, p) = SelectRestored(v, rows)
  BY DEF RestoredAt, Restored
<1>2. sourceRows \subseteq Rows(u) /\ RowsOfPatch(u, bookmark) \subseteq Rows(u)
  BY SoughtRows
<1>3. rows \subseteq Rows(u)
  BY <1>2 DEF FirstFound
<1>4. s.source_view # None => \A row \in rows : row.path = s.source_view
  <2> SUFFICES ASSUME s.source_view # None, NEW row \in rows PROVE row.path = s.source_view
    OBVIOUS
  <2>1. row \in RowsOfSource(u, PlaceIn(s, "Source", place))
    OBVIOUS
  <2> QED BY <2>1, SourcePlace
<1> HIDE DEF rows, waits
<1>5. SameButRow(u, v) /\ v.file = u.file
  BY DEF Framed, SessionFields, SameButRow
<1> HIDE DEF v
<1>6. Framed(v)
  <2>1. v.file \in Nat \ {0} /\ (u.source_view # None => v.file \in DOMAIN Displayed(u) /\ Displayed(u)[v.file].path = u.source_view)
    BY <1>5 DEF Framed
  <2> QED BY ONLY <1>5, <2>1, Framed(u), FramedAnew
<1>7. SameView(u, v)
  BY <1>5, SameButRowView
<1>8. rows \subseteq Rows(v) /\ (v.source_view # None => \A row \in rows : row.path = v.source_view)
  BY <1>3, <1>4, <1>7, SameRows DEF SameView
<1>9. Good(SelectRestored(v, rows)) /\ SameButRow(v, SelectRestored(v, rows))
  BY <1>6, <1>8, SelectRestoredStep
<1> QED BY <1>1, <1>5, <1>9, SameButRowTransitive

\* Rebuilding shows the rows again with one selected, whatever was selected before; a view that is
\* returned to is not a source view, and nothing is rebuilt under a draft.
LEMMA RebuildRestoringStep ==
  ASSUME NEW s, NEW saved, Framed(s), s.draft = None, saved # None => s.source_view = None
  PROVE  Good(RebuildRestoring(s, saved)) /\ SameButRow(s, RebuildRestoring(s, saved))
<1> DEFINE mode == RestoreMode(s, saved)
           bookmark == IF saved # None THEN saved ELSE Captured(s)
           i == FileIndex(s, bookmark.path)
           u == SelectBookmarked(s, i)
           place == Wanted(s, mode, bookmark)
           t == RestoredAt(u, mode, bookmark, PlaceIn(s, mode, place))
<1>0. /\ s.document \in Documents \cup {NoDocument} /\ ReferenceOK(s.reference) /\ DOMAIN s = SessionFields
      /\ s.file \in Nat \ {0}
  BY DEF Framed
<1>1. RebuildRestoring(s, saved) = DropStaleDraft(t)
  BY DEF RebuildRestoring, RestoreFrom
<1>2. mode \in {"Source", "Returning", "Refresh"} /\ (mode = "Source" <=> s.source_view # None)
  BY DEF RestoreMode
<1>3. s.source_view # None => bookmark.path = s.source_view
  <2> SUFFICES ASSUME s.source_view # None PROVE bookmark.path = s.source_view
    OBVIOUS
  <2>1. s.file \in DOMAIN Displayed(s) /\ Displayed(s)[s.file].path = s.source_view /\ Displayed(s)[s.file] \in Files
    BY <1>0, DisplayedTypes DEF Framed
  <2>2. File(s, s.file) = Displayed(s)[s.file] /\ File(s, s.file) # None
    BY <2>1, NoneAssumption DEF File
  <2>3. Captured(s).path = s.source_view
    BY <2>1, <2>2 DEF Captured
  <2> QED BY <2>3
<1>4. i \in Nat /\ (i # 0 => i \in DOMAIN Displayed(s) /\ Displayed(s)[i].path = bookmark.path)
  BY <1>0, FileIndexType
<1> HIDE DEF i, bookmark, mode
<1>5. SameButRow(s, u) /\ u.file = IF i = 0 THEN s.file ELSE i
  BY <1>0 DEF SelectBookmarked, SameButRow, SessionFields
<1> HIDE DEF u
<1>6. Framed(u)
  <2>1. u.file \in Nat \ {0}
    BY <1>0, <1>4, <1>5
  <2>2. s.source_view # None => u.file \in DOMAIN Displayed(s) /\ Displayed(s)[u.file].path = s.source_view
    BY <1>3, <1>4, <1>5 DEF Framed
  <2> QED BY <1>5, <2>1, <2>2, FramedAnew
<1>7. SameView(s, u)
  BY <1>5, SameButRowView
<1>8. Good(t) /\ SameButRow(u, t)
  BY <1>2, <1>6, <1>7, RestoredStep
<1>9. SameButRow(s, t)
  BY <1>5, <1>8, SameButRowTransitive
<1> HIDE DEF t
<1>10. DropStaleDraft(t) = t
  BY <1>9 DEF DropStaleDraft, SameButRow
<1> QED BY <1>1, <1>8, <1>9, <1>10

LEMMA RebuildStep ==
  ASSUME NEW s, Framed(s), s.draft = None
  PROVE  Good(Rebuild(s)) /\ SameButRow(s, Rebuild(s))
BY RebuildRestoringStep DEF Rebuild

-----------------------------------------------------------------------------
(* Operations.                                                              *)

\* An operation without a draft leaves a good session with the same review of the same document.
Steps(s, t) ==
  /\ Good(t)
  /\ t.draft = None /\ t.document = s.document /\ t.comments = s.comments /\ t.next_id = s.next_id

\* A reference still asked for is the one that was.
Keeps(s, t) == IsPending(t) /\ ~t.reference.error => t.reference = s.reference
SameVisits(s, t) == t.back = s.back /\ t.forward = s.forward

LEMMA StepsTransitive ==
  ASSUME NEW s, NEW t, NEW u, Steps(s, t), Steps(t, u)
  PROVE  Steps(s, u)
BY DEF Steps

LEMMA KeepsTransitive ==
  ASSUME NEW s, NEW t, NEW u, Keeps(s, t), Keeps(t, u)
  PROVE  Keeps(s, u)
BY DEF Keeps, IsPending

LEMMA RebuildSteps ==
  ASSUME NEW s, Framed(s), s.draft = None
  PROVE  Steps(s, Rebuild(s)) /\ Rebuild(s).reference = s.reference /\ Rebuild(s).source_view = s.source_view
         /\ SameVisits(s, Rebuild(s)) /\ SameButRow(s, Rebuild(s))
BY RebuildStep DEF Steps, SameVisits, SameButRow

\* A pending reference that is given up displayed nothing.
LEMMA CancelStep ==
  ASSUME NEW s, Framed(s)
  PROVE  /\ Framed(CancelPendingReference(s)) /\ SameView(s, CancelPendingReference(s))
         /\ ~IsPending(CancelPendingReference(s)) /\ SameVisits(s, CancelPendingReference(s))
         /\ (IsOpen(CancelPendingReference(s)) <=> IsOpen(s))
         /\ CancelPendingReference(s).row = s.row /\ CancelPendingReference(s).file = s.file
         /\ CancelPendingReference(s).draft = s.draft /\ CancelPendingReference(s).comments = s.comments
         /\ CancelPendingReference(s).next_id = s.next_id
<1>1. CASE ~IsPending(s)
  BY <1>1 DEF CancelPendingReference, SameView, SameVisits
<1>2. CASE IsPending(s)
  <2> DEFINE t == [s EXCEPT !.reference = None]
  <2>1. CancelPendingReference(s) = t
    BY <1>2 DEF CancelPendingReference
  <2>2. /\ DOMAIN t = SessionFields /\ t.document = s.document /\ t.row = s.row /\ t.file = s.file
        /\ t.source_view = s.source_view /\ t.reference = None /\ t.expansions = s.expansions
        /\ t.full_files = s.full_files /\ t.collapsed_files = s.collapsed_files
        /\ t.back = s.back /\ t.forward = s.forward /\ t.draft = s.draft /\ t.comments = s.comments
        /\ t.next_id = s.next_id
    BY DEF Framed, SessionFields
  <2> HIDE DEF t
  <2>3. ~IsOpen(s) /\ ~IsOpen(t) /\ ~IsPending(t)
    BY <1>2, <2>2 DEF IsPending, IsOpen
  <2>4. Displayed(t) = Displayed(s)
    BY <2>2, <2>3 DEF Displayed
  <2>5. Framed(t)
    BY <2>2, <2>3, <2>4 DEF Framed, ReferenceOK
  <2> QED BY <2>1, <2>2, <2>3, <2>4, <2>5 DEF SameView, SameVisits
<1> QED BY <1>1, <1>2

LEMMA GoodInSameView ==
  ASSUME NEW s, NEW t, RowShown(s), Framed(t), SameView(s, t), t.row = s.row
  PROVE  Good(t)
<1>1. Rows(t) = Rows(s)
  BY SameRows
<1> QED BY <1>1 DEF Good, RowShown, SameView

LEMMA CancelSteps ==
  ASSUME NEW s, Good(s), s.draft = None
  PROVE  Steps(s, CancelPendingReference(s)) /\ ~IsPending(CancelPendingReference(s))
         /\ SameVisits(s, CancelPendingReference(s))
BY CancelStep, GoodInSameView DEF Steps, Good, SameView

\* Selecting a row that is displayed, in the source view one of the file in view.
\* What it leaves but the row and a reference that was awaited, whether a draft is open or not.
LEMMA SelectRowStep ==
  ASSUME NEW s, NEW row \in Rows(s), Framed(s), s.source_view # None => row.path = s.source_view
  PROVE  /\ Good(SelectRow(s, row)) /\ SameButRow(CancelPendingReference(s), SelectRow(s, row))
         /\ SelectRow(s, row).row = row /\ ~IsPending(SelectRow(s, row))
<1> DEFINE c == CancelPendingReference(s)
           t == SelectRow(s, row)
<1>1. /\ Framed(c) /\ SameView(s, c) /\ ~IsPending(c) /\ SameVisits(s, c)
      /\ c.draft = s.draft /\ c.comments = s.comments /\ c.next_id = s.next_id
  BY CancelStep
<1>2. t = [c EXCEPT !.pending_source_restore = None, !.row = row, !.file = row.file]
  BY DEF SelectRow
<1> HIDE DEF c, t
<1>3. SameButRow(c, t) /\ t.row = row /\ t.file = row.file
  BY <1>1, <1>2 DEF SameButRow, Framed, SessionFields
<1>4. row \in Rows(c) /\ (c.source_view # None => row.path = c.source_view)
  BY <1>1, SameRows DEF SameView
<1>5. Good(t)
  BY <1>1, <1>3, <1>4, GoodAnew
<1>6. ~IsPending(t)
  BY <1>1, <1>3, SameButRowView
<1> QED BY <1>3, <1>5, <1>6 DEF c, t

LEMMA SelectRowSteps ==
  ASSUME NEW s, NEW row \in Rows(s), Framed(s), s.draft = None, s.source_view # None => row.path = s.source_view
  PROVE  Steps(s, SelectRow(s, row)) /\ ~IsPending(SelectRow(s, row)) /\ SameVisits(s, SelectRow(s, row))
<1> DEFINE c == CancelPendingReference(s)
           t == SelectRow(s, row)
<1>1. /\ SameView(s, c) /\ SameVisits(s, c)
      /\ c.draft = s.draft /\ c.comments = s.comments /\ c.next_id = s.next_id
  BY CancelStep
<1>2. Good(t) /\ SameButRow(c, t) /\ ~IsPending(t)
  BY SelectRowStep
<1> HIDE DEF c, t
<1> QED BY <1>1, <1>2 DEF Steps, SameVisits, SameButRow, SameView, t

\* Out of the source view, with no reference.
LEMMA OutOfSource ==
  ASSUME NEW s, NEW t, Framed(s), DOMAIN t = SessionFields, t.document = s.document, t.file \in Nat \ {0},
         t.source_view = None, ~IsOpen(t), ReferenceOK(t.reference), SameVisits(s, t),
         \A path \in t.full_files \cup t.collapsed_files : IndexIn(s.document, path) # 0
  PROVE  Framed(t)
BY DEF Framed, SameVisits

LEMMA LeaveSourceViewSteps ==
  ASSUME NEW s, Framed(s), s.draft = None
  PROVE  /\ Steps(s, LeaveSourceView(s)) /\ LeaveSourceView(s).reference = None
         /\ LeaveSourceView(s).source_view = None /\ SameVisits(s, LeaveSourceView(s))
<1> DEFINE u == [s EXCEPT !.source_view = None, !.reference = None, !.diff_return = None]
           t == RebuildRestoring(u, s.diff_return)
<1>1. /\ DOMAIN u = SessionFields /\ u.document = s.document /\ u.file = s.file /\ u.source_view = None
      /\ u.reference = None /\ SameVisits(s, u) /\ u.full_files = s.full_files /\ u.collapsed_files = s.collapsed_files
      /\ u.draft = s.draft /\ u.comments = s.comments /\ u.next_id = s.next_id
  BY DEF Framed, SessionFields, SameVisits
<1>2. LeaveSourceView(s) = t
  BY DEF LeaveSourceView
<1> HIDE DEF u
<1>3. ~IsOpen(u) /\ ReferenceOK(u.reference)
  BY <1>1 DEF IsOpen, ReferenceOK
<1>4. Framed(u)
  BY <1>1, <1>3, OutOfSource DEF Framed
<1>5. Good(t) /\ SameButRow(u, t)
  BY <1>1, <1>4, RebuildRestoringStep
<1> QED BY <1>1, <1>2, <1>5 DEF Steps, SameVisits, SameButRow

LEMMA EnterSourceViewSteps ==
  ASSUME NEW s, Framed(s), s.draft = None, s.source_view = None, s.file \in DOMAIN s.document.files
  PROVE  Steps(s, EnterSourceView(s)) /\ EnterSourceView(s).reference = s.reference /\ SameVisits(s, EnterSourceView(s))
<1> DEFINE file == s.document.files[s.file]
           place == Location(file.path, SourceSide(file), NearestLine(s, SourceSide(file)))
           mark == CaptureBookmark(s)
           u == [s EXCEPT !.diff_return = mark, !.source_view = file.path, !.pending_source_restore = place]
<1>0. file.path # None /\ s.file \in DOMAIN Displayed(s) /\ Displayed(s)[s.file].path = file.path
  BY DocumentTypes, DisplayedTypes DEF Framed
<1>1. EnterSourceView(s) = Rebuild(u)
  BY DEF EnterSourceView, EnterSource
<1> HIDE DEF mark, place
<1>2. /\ DOMAIN u = SessionFields /\ u.document = s.document /\ u.file = s.file /\ u.source_view = file.path
      /\ u.reference = s.reference /\ u.back = s.back /\ u.forward = s.forward
      /\ u.full_files = s.full_files /\ u.collapsed_files = s.collapsed_files
      /\ u.draft = s.draft /\ u.comments = s.comments /\ u.next_id = s.next_id
  BY DEF Framed, SessionFields
<1> HIDE DEF u, file
<1>3. ~IsOpen(s)
  <2>1. IsOpen(s) => s.reference.file \in Files
    BY ReferenceTypes DEF Framed
  <2> QED BY <2>1, NoneAssumption DEF Framed, Files
<1>4. ~IsOpen(u) /\ Displayed(u) = Displayed(s)
  BY <1>2, <1>3 DEF IsOpen, Displayed
<1>5. Framed(u)
  BY <1>0, <1>2, <1>4 DEF Framed
<1>6. Steps(u, Rebuild(u)) /\ Rebuild(u).reference = u.reference /\ SameVisits(u, Rebuild(u))
  BY <1>2, <1>5, RebuildSteps
<1> QED BY <1>1, <1>2, <1>6 DEF Steps, SameVisits

LEMMA ToggleSourceViewSteps ==
  ASSUME NEW s, Good(s), s.draft = None
  PROVE  /\ Steps(s, ToggleSourceView(s)) /\ Keeps(s, ToggleSourceView(s)) /\ SameVisits(s, ToggleSourceView(s))
         /\ s.source_view # None => ToggleSourceView(s).source_view = None /\ ToggleSourceView(s).reference = None
<1>0. Framed(s)
  BY DEF Good
<1>1. CASE ~CanToggleSourceView(s)
  BY <1>1 DEF ToggleSourceView, CanToggleSourceView, Steps, Keeps, SameVisits
<1>2. CASE CanToggleSourceView(s) /\ s.source_view # None
  BY <1>0, <1>2, LeaveSourceViewSteps DEF ToggleSourceView, Keeps, IsPending
<1>3. CASE CanToggleSourceView(s) /\ s.source_view = None
  BY <1>0, <1>3, EnterSourceViewSteps DEF ToggleSourceView, CanToggleSourceView, Keeps
<1> QED BY <1>1, <1>2, <1>3

LEMMA SelectFileSteps ==
  ASSUME NEW s, Good(s), s.draft = None, NEW i \in DOMAIN s.document.files
  PROVE  Steps(s, SelectFile(s, i)) /\ Keeps(s, SelectFile(s, i))
<1> DEFINE w == IF s.source_view # None THEN ToggleSourceView(s) ELSE s
           c == CancelPendingReference(w)
           u == [c EXCEPT !.pending_source_restore = None, !.file = i, !.draft = None]
<1>1. CASE s.source_view # None /\ s.file = i
  BY <1>1 DEF SelectFile, Steps, Keeps
<1>2. CASE ~(s.source_view # None /\ s.file = i)
  <2>1. SelectFile(s, i) = SelectFirstRow(u)
    BY <1>2 DEF SelectFile
  <2>2. Steps(s, w) /\ w.source_view = None
    BY ToggleSourceViewSteps DEF Steps
  <2> HIDE DEF w
  <2>3. /\ Framed(c) /\ SameView(w, c) /\ ~IsPending(c) /\ SameVisits(w, c) /\ (IsOpen(c) <=> IsOpen(w))
        /\ c.draft = w.draft /\ c.comments = w.comments /\ c.next_id = w.next_id
    BY <2>2, CancelStep DEF Steps, Good
  <2> HIDE DEF c
  <2>4. i \in Nat \ {0}
    BY DocumentTypes DEF Good, Framed
  <2>5. SameButRow(c, u) /\ u.file = i
    BY <2>2, <2>3 DEF SameButRow, Framed, SessionFields, Steps
  <2> HIDE DEF u
  <2>6. Framed(u)
    BY <2>2, <2>3, <2>4, <2>5, FramedAnew DEF SameView
  <2>7. Good(SelectFirstRow(u)) /\ SameButRow(u, SelectFirstRow(u))
    BY <2>6, SelectFirstRowStep
  <2>8. ~IsPending(SelectFirstRow(u))
    BY <2>3, <2>5, <2>7, SameButRowView
  <2> QED BY <2>1, <2>2, <2>3, <2>5, <2>7, <2>8 DEF Steps, Keeps, SameButRow, SameView
<1> QED BY <1>1, <1>2

\* Only what is folded differs.
Refolded(s, u) ==
  /\ DOMAIN u = SessionFields /\ u.document = s.document /\ u.file = s.file /\ u.source_view = s.source_view
  /\ u.reference = s.reference /\ u.back = s.back /\ u.forward = s.forward
  /\ u.draft = s.draft /\ u.comments = s.comments /\ u.next_id = s.next_id
  /\ \A path \in u.full_files \cup u.collapsed_files : IndexIn(s.document, path) # 0

LEMMA FoldSteps ==
  ASSUME NEW s, NEW u, Framed(s), s.draft = None, Refolded(s, u)
  PROVE  /\ Steps(s, Rebuild(u)) /\ Rebuild(u).reference = s.reference /\ SameVisits(s, Rebuild(u))
         /\ Rebuild(u).source_view = s.source_view
<1>1. (IsOpen(u) <=> IsOpen(s)) /\ Displayed(u) = Displayed(s)
  BY DEF IsOpen, Displayed, Refolded
<1>2. Framed(u)
  BY <1>1 DEF Framed, Refolded
<1>3. /\ Steps(u, Rebuild(u)) /\ Rebuild(u).reference = u.reference /\ SameVisits(u, Rebuild(u))
      /\ Rebuild(u).source_view = u.source_view
  BY <1>2, RebuildSteps DEF Refolded
<1> QED BY <1>3 DEF Steps, SameVisits, Refolded

-----------------------------------------------------------------------------
(* Folds, gaps and places that are revealed.                               *)

LEMMA ToggleFullFileSteps ==
  ASSUME NEW s, Framed(s), s.draft = None, s.file \in DOMAIN s.document.files
  PROVE  Steps(s, ToggleFullFile(s)) /\ Keeps(s, ToggleFullFile(s))
<1> DEFINE path == s.document.files[s.file].path
           u == [s EXCEPT !.full_files = IF path \in @ THEN @ \ {path} ELSE @ \cup {path}]
<1>0. IndexIn(s.document, path) # 0
  BY IndexInType DEF Framed
<1>1. ToggleFullFile(s) = Rebuild(u)
  BY DEF ToggleFullFile
<1> HIDE DEF path
<1>2. u.full_files \subseteq s.full_files \cup {path} /\ u.collapsed_files = s.collapsed_files
  BY DEF Framed, SessionFields
<1>3. Refolded(s, u)
  BY <1>0, <1>2 DEF Refolded, Framed, SessionFields
<1> HIDE DEF u
<1> QED BY <1>1, <1>3, FoldSteps DEF Keeps

LEMMA ToggleFileCollapsedSteps ==
  ASSUME NEW s, Framed(s), s.draft = None, NEW i \in DOMAIN s.document.files
  PROVE  Steps(s, ToggleFileCollapsed(s, i)) /\ Keeps(s, ToggleFileCollapsed(s, i))
<1> DEFINE path == s.document.files[i].path
           collapse == path \notin s.collapsed_files
           u == [s EXCEPT !.collapsed_files = IF collapse THEN @ \cup {path} ELSE @ \ {path}]
           t == Rebuild(u)
<1>0. IndexIn(s.document, path) # 0
  BY IndexInType DEF Framed
<1>1. ToggleFileCollapsed(s, i) = SelectFirstRow(t) \/ ToggleFileCollapsed(s, i) = t
  BY DEF ToggleFileCollapsed
<1>2. u.collapsed_files \subseteq s.collapsed_files \cup {path} /\ u.full_files = s.full_files
  BY DEF Framed, SessionFields
<1> HIDE DEF path, collapse
<1>3. Refolded(s, u)
  BY <1>0, <1>2 DEF Refolded, Framed, SessionFields
<1> HIDE DEF u
<1>4. Steps(s, t) /\ t.reference = s.reference
  BY <1>3, FoldSteps
<1> HIDE DEF t
<1>5. Good(SelectFirstRow(t)) /\ SameButRow(t, SelectFirstRow(t))
  BY <1>4, SelectFirstRowStep DEF Steps, Good
<1> QED BY <1>1, <1>4, <1>5 DEF Steps, Keeps, SameButRow

LEMMA RevealSelectedGapSteps ==
  ASSUME NEW s, Good(s), s.draft = None, s.row # None, s.reference = None
  PROVE  Steps(s, RevealSelectedGap(s)) /\ Keeps(s, RevealSelectedGap(s))
<1> DEFINE u == [s EXCEPT !.expansions = @ \cup {s.row.file}]
<1>1. s.row.file \in DOMAIN s.document.files
  <2>1. Displayed(s) # <<>> /\ s.row \in Rows(s)
    BY DEF Good, RowShown
  <2>2. Displayed(s) = s.document.files
    BY DisplayedTypes DEF Good, Framed, IsOpen
  <2> QED BY <2>1, <2>2, RowsTypes DEF Good, Framed
<1>2. \/ RevealSelectedGap(s) = ToggleFileCollapsed(s, s.row.file)
      \/ RevealSelectedGap(s) = Rebuild(u)
      \/ RevealSelectedGap(s) = s
  BY DEF RevealSelectedGap
<1>3. Refolded(s, u)
  BY DEF Refolded, Good, Framed, SessionFields
<1> HIDE DEF u
<1>4. Steps(s, Rebuild(u)) /\ Keeps(s, Rebuild(u))
  BY <1>3, FoldSteps DEF Good, Keeps
<1>5. Steps(s, s) /\ Keeps(s, s)
  BY DEF Steps, Keeps
<1> QED BY <1>1, <1>2, <1>4, <1>5, ToggleFileCollapsedSteps DEF Good

-----------------------------------------------------------------------------
(* Showing a place.                                                         *)

LEMMA LeaveOtherSourceSteps ==
  ASSUME NEW s, Good(s), s.draft = None, NEW path
  PROVE  /\ Steps(s, LeaveOtherSource(s, path)) /\ ~IsPending(LeaveOtherSource(s, path))
         /\ SameVisits(s, LeaveOtherSource(s, path)) /\ LeaveOtherSource(s, path).source_view \in {None, path}
<1>1. CASE s.source_view \in {None, path}
  BY <1>1, CancelSteps, CancelStep DEF LeaveOtherSource, Good, SameView
<1>2. CASE s.source_view \notin {None, path}
  <2> DEFINE u == [s EXCEPT !.source_view = None, !.reference = None, !.diff_return = None]
  <2>1. /\ DOMAIN u = SessionFields /\ u.document = s.document /\ u.file = s.file /\ u.source_view = None
        /\ u.reference = None /\ SameVisits(s, u) /\ u.full_files = s.full_files /\ u.collapsed_files = s.collapsed_files
        /\ u.draft = s.draft /\ u.comments = s.comments /\ u.next_id = s.next_id
    BY DEF Good, Framed, SessionFields, SameVisits
  <2>2. LeaveOtherSource(s, path) = Rebuild(u)
    BY <1>2 DEF LeaveOtherSource
  <2> HIDE DEF u
  <2>3. ~IsOpen(u) /\ ReferenceOK(u.reference)
    BY <2>1 DEF IsOpen, ReferenceOK
  <2>4. Framed(u)
    BY <2>1, <2>3, OutOfSource DEF Good, Framed
  <2>5. Steps(u, Rebuild(u)) /\ Rebuild(u).reference = None /\ Rebuild(u).source_view = None /\ SameVisits(u, Rebuild(u))
    BY <2>1, <2>4, RebuildSteps
  <2> QED BY <2>1, <2>2, <2>5 DEF Steps, SameVisits, IsPending
<1> QED BY <1>1, <1>2

LEMMA UncoverSteps ==
  ASSUME NEW s, Good(s), s.draft = None, NEW place, NEW i
  PROVE  /\ Steps(s, Uncover(s, place, i)) /\ Uncover(s, place, i).reference = s.reference
         /\ SameVisits(s, Uncover(s, place, i)) /\ Uncover(s, place, i).source_view = s.source_view
<1>1. CASE RowsShowingSource(s, place) # {}
  BY <1>1 DEF Uncover, Steps, SameVisits
<1>2. CASE RowsShowingSource(s, place) = {}
  <2> DEFINE expanded == IF InGap(File(s, i), place) THEN s.expansions \cup {i} ELSE s.expansions
             u == [s EXCEPT !.collapsed_files = @ \ {place.path}, !.expansions = expanded]
  <2>1. Uncover(s, place, i) = Rebuild(u)
    BY <1>2 DEF Uncover
  <2> HIDE DEF expanded
  <2>2. Refolded(s, u)
    BY DEF Refolded, Good, Framed, SessionFields
  <2> HIDE DEF u
  <2> QED BY <2>1, <2>2, FoldSteps DEF Good
<1> QED BY <1>1, <1>2

LEMMA RevealSourceSteps ==
  ASSUME NEW s, Good(s), s.draft = None, NEW place \in Locations
  PROVE  /\ Steps(s, RevealSource(s, place).s) /\ ~IsPending(RevealSource(s, place).s)
         /\ SameVisits(s, RevealSource(s, place).s)
<1> DEFINE t == LeaveOtherSource(s, place.path)
           i == FileIndex(t, place.path)
           u == Uncover(t, place, i)
           rows == RowsShowingSource(u, place)
           row == CHOOSE r \in rows : TRUE
<1>1. Steps(s, t) /\ ~IsPending(t) /\ SameVisits(s, t) /\ t.source_view \in {None, place.path}
  BY LeaveOtherSourceSteps
<1>2. RevealSource(s, place) = IF i = 0 THEN Result(FALSE, t) ELSE SelectFound(u, rows)
  BY DEF RevealSource, RevealHere, RevealIn, SelectPlace
<1> HIDE DEF t
<1>3. Steps(t, u) /\ u.reference = t.reference /\ SameVisits(t, u) /\ u.source_view = t.source_view
  BY <1>1, UncoverSteps DEF Steps
<1>4. ~IsPending(u)
  BY <1>1, <1>3 DEF IsPending
<1> HIDE DEF u, i
<1>5. CASE i = 0
  <2>1. RevealSource(s, place).s = t
    BY <1>2, <1>5 DEF Result
  <2> QED BY <1>1, <2>1
<1>6. CASE i # 0 /\ rows = {}
  <2>1. RevealSource(s, place).s = u
    BY <1>2, <1>6 DEF Result, SelectFound
  <2> QED BY <1>1, <1>3, <1>4, <2>1, StepsTransitive DEF SameVisits
<1>7. CASE i # 0 /\ rows # {}
  <2>1. RevealSource(s, place).s = SelectRow(u, row)
    BY <1>2, <1>7 DEF Result, SelectFound
  <2>2. row \in Rows(u) /\ SourceOf(row) = place
    BY <1>7 DEF RowsShowingSource
  <2> HIDE DEF row
  <2>3. place = Location(row.path, row.side, row.line)
    BY <2>2, NoneAssumption DEF SourceOf
  <2>4. row.path = place.path
    BY <2>3 DEF Location
  <2>5. Steps(u, SelectRow(u, row)) /\ ~IsPending(SelectRow(u, row)) /\ SameVisits(u, SelectRow(u, row))
    BY <1>1, <1>3, <2>2, <2>4, SelectRowSteps DEF Steps, Good
  <2> QED BY <1>1, <1>3, <2>1, <2>5, StepsTransitive DEF SameVisits
<1> QED BY <1>5, <1>6, <1>7

\* Asking for another file leaves what is displayed.
LEMMA PendingSteps ==
  ASSUME NEW s, Good(s), s.draft = None, ~IsOpen(s), NEW target \in Locations
  PROVE  Steps(s, [s EXCEPT !.reference = Pending(target)]) /\ SameVisits(s, [s EXCEPT !.reference = Pending(target)])
<1> DEFINE t == [s EXCEPT !.reference = Pending(target)]
<1>1. /\ DOMAIN t = SessionFields /\ t.document = s.document /\ t.row = s.row /\ t.file = s.file
      /\ t.source_view = s.source_view /\ t.reference = Pending(target) /\ t.expansions = s.expansions
      /\ t.full_files = s.full_files /\ t.collapsed_files = s.collapsed_files
      /\ t.back = s.back /\ t.forward = s.forward /\ t.draft = s.draft /\ t.comments = s.comments
      /\ t.next_id = s.next_id
  BY DEF Good, Framed, SessionFields
<1> HIDE DEF t
<1>2. ~IsOpen(t) /\ ReferenceOK(t.reference)
  <2>1. t.reference = [state |-> "Pending", target |-> target, error |-> FALSE]
    BY <1>1 DEF Pending
  <2>2. /\ DOMAIN t.reference = {"state", "target", "error"} /\ t.reference.state = "Pending"
        /\ t.reference.target = target /\ t.reference.error = FALSE
    BY <2>1
  <2> QED BY <2>2 DEF IsOpen, ReferenceOK
<1>3. Displayed(t) = Displayed(s)
  BY <1>1, <1>2 DEF Displayed
<1>4. Framed(t)
  BY <1>1, <1>2, <1>3 DEF Framed, Good
<1>5. SameView(s, t)
  BY <1>1, <1>3 DEF SameView
<1> QED BY <1>1, <1>4, <1>5, GoodInSameView DEF Steps, SameVisits, Good, t

\* A place is shown, or a file is asked for, or nothing is pending that was not.
LEMMA ShowSteps ==
  ASSUME NEW s, Good(s), s.draft = None, NEW target \in Locations
  PROVE  /\ Steps(s, Show(s, target).s) /\ SameVisits(s, Show(s, target).s)
         /\ Show(s, target).ok \/ Keeps(s, Show(s, target).s)
<1>1. CASE FileIndex(s, target.path) # 0
  <2>1. Show(s, target) = RevealSource(s, target)
    BY <1>1 DEF Show
  <2> QED BY <2>1, RevealSourceSteps DEF Keeps
<1>2. CASE FileIndex(s, target.path) = 0 /\ (target.side = Old \/ target.line = 0)
  <2>1. Show(s, target).s = s
    BY <1>2 DEF Show, Result
  <2> QED BY <2>1 DEF Steps, SameVisits, Keeps
<1>3. CASE FileIndex(s, target.path) = 0 /\ ~(target.side = Old \/ target.line = 0)
  <2> DEFINE w == IF IsOpen(s) THEN ToggleSourceView(s) ELSE s
  <2>1. Show(s, target) = Result(TRUE, [w EXCEPT !.reference = Pending(target)])
    BY <1>3 DEF Show
  <2>2. Steps(s, w) /\ SameVisits(s, w) /\ ~IsOpen(w)
    <3>1. CASE IsOpen(s)
      <4>1. s.source_view # None
        <5>1. s.reference.file \in Files /\ s.source_view = s.reference.file.path
          BY <3>1, ReferenceTypes DEF Good, Framed
        <5> QED BY <5>1, NoneAssumption DEF Files
      <4>2. Steps(s, w) /\ SameVisits(s, w) /\ w.reference = None
        BY <3>1, <4>1, ToggleSourceViewSteps
      <4> QED BY <4>2 DEF IsOpen
    <3>2. CASE ~IsOpen(s)
      BY <3>2 DEF Steps, SameVisits
    <3> QED BY <3>1, <3>2
  <2> HIDE DEF w
  <2>3. Steps(w, [w EXCEPT !.reference = Pending(target)]) /\ SameVisits(w, [w EXCEPT !.reference = Pending(target)])
    BY <2>2, PendingSteps DEF Steps
  <2>4. Show(s, target).ok /\ Show(s, target).s = [w EXCEPT !.reference = Pending(target)]
    BY <2>1 DEF Result
  <2>5. Steps(s, Show(s, target).s)
    BY <2>2, <2>3, <2>4, StepsTransitive
  <2>6. SameVisits(s, Show(s, target).s)
    BY <2>2, <2>3, <2>4 DEF SameVisits
  <2> QED BY <2>4, <2>5, <2>6
<1> QED BY <1>1, <1>2, <1>3

-----------------------------------------------------------------------------
(* Jumps and visits.                                                        *)

\* Only where can be gone back to, and forward, differs.
Revisited(s, t) ==
  /\ SameButRow([s EXCEPT !.back = t.back, !.forward = t.forward], t) /\ t.row = s.row /\ t.file = s.file
  /\ t.back \in Seq(Locations) /\ t.forward \in Seq(Locations)

LEMMA RevisitedSteps ==
  ASSUME NEW s, NEW t, Good(s), s.draft = None, Revisited(s, t)
  PROVE  Steps(s, t) /\ t.reference = s.reference
<1>1. /\ DOMAIN t = SessionFields /\ t.document = s.document /\ t.row = s.row /\ t.file = s.file
      /\ t.source_view = s.source_view /\ t.reference = s.reference /\ t.expansions = s.expansions
      /\ t.full_files = s.full_files /\ t.collapsed_files = s.collapsed_files
      /\ t.draft = s.draft /\ t.comments = s.comments /\ t.next_id = s.next_id
  BY DEF Good, Framed, SessionFields, Revisited, SameButRow
<1>2. (IsOpen(t) <=> IsOpen(s)) /\ Displayed(t) = Displayed(s)
  BY <1>1 DEF IsOpen, Displayed
<1>3. Framed(t)
  BY <1>1, <1>2 DEF Framed, Good, Revisited
<1>4. SameView(s, t)
  BY <1>1, <1>2 DEF SameView
<1> QED BY <1>1, <1>3, <1>4, GoodInSameView DEF Steps, Good

LEMMA CurrentLocationType ==
  ASSUME NEW s, Good(s)
  PROVE  CurrentLocation(s) \in Locations \cup {None}
<1>1. CASE IsPending(s)
  BY <1>1, ReferenceTypes DEF CurrentLocation, Good, Framed
<1>2. CASE ~IsPending(s) /\ (s.row = None \/ s.row.line = 0)
  BY <1>2 DEF CurrentLocation, SourceOf
<1>3. CASE ~IsPending(s) /\ s.row # None /\ s.row.line # 0
  <2>1. s.row \in Rows(s)
    BY <1>3 DEF Good, RowShown
  <2>2. s.row.path \in STRING /\ s.row.line \in Nat /\ s.row.side \in {Old, New}
    BY <2>1, RowsTypes DEF Good, Framed
  <2>3. CurrentLocation(s) = Location(s.row.path, s.row.side, s.row.line)
    BY <1>3 DEF CurrentLocation, SourceOf
  <2> QED BY <2>2, <2>3 DEF Location, Locations
<1> QED BY <1>1, <1>2, <1>3

LEMMA JumpSteps ==
  ASSUME NEW s, Good(s), s.draft = None, NEW target \in Locations
  PROVE  Steps(s, JumpTo(s, target).s) /\ (JumpTo(s, target).ok \/ Keeps(s, JumpTo(s, target).s))
<1> DEFINE shown == Show(s, target)
           origin == CurrentLocation(s)
           t == [shown.s EXCEPT !.back = IF origin \in {None, target} THEN @ ELSE Append(@, origin), !.forward = <<>>]
<1>1. JumpTo(s, target) = IF ~shown.ok THEN shown ELSE Result(TRUE, t)
  BY DEF JumpTo, Remember
<1>2. Steps(s, shown.s) /\ (shown.ok \/ Keeps(s, shown.s))
  BY ShowSteps
<1>3. origin \in Locations \cup {None}
  BY CurrentLocationType
<1> HIDE DEF shown, origin
<1>4. CASE ~shown.ok
  BY <1>1, <1>2, <1>4
<1>5. CASE shown.ok
  <2>1. shown.s.back \in Seq(Locations) /\ DOMAIN shown.s = SessionFields
    BY <1>2 DEF Steps, Good, Framed
  <2>2. t.back = IF origin \in {None, target} THEN shown.s.back ELSE Append(shown.s.back, origin)
    BY <2>1 DEF SessionFields
  <2>3. t.back \in Seq(Locations)
    BY <1>3, <2>1, <2>2
  <2>4. Revisited(shown.s, t)
    <3>1. t.forward = <<>> /\ t.forward \in Seq(Locations)
      BY <2>1 DEF SessionFields
    <3> QED BY <2>1, <2>3, <3>1 DEF Revisited, SameButRow, SessionFields
  <2>5. JumpTo(s, target).ok /\ JumpTo(s, target).s = t
    BY <1>1, <1>5 DEF Result
  <2> HIDE DEF t
  <2>6. Steps(shown.s, t)
    BY <1>2, <2>4, RevisitedSteps DEF Steps
  <2> QED BY <1>2, <2>5, <2>6, StepsTransitive
<1> QED BY <1>4, <1>5

Ways == {<<"back", "forward">>, <<"forward", "back">>}

LEMMA FrontAndLast ==
  ASSUME NEW visits \in Seq(Locations), Len(visits) > 0
  PROVE  Last(visits) \in Locations /\ Front(visits) \in Seq(Locations) /\ Len(Front(visits)) = Len(visits) - 1
<1> DEFINE n == Len(visits) - 1
<1>1. n \in Nat /\ n <= Len(visits) /\ Len(visits) \in 1..Len(visits)
  OBVIOUS
<1>2. Last(visits) \in Locations
  BY <1>1 DEF Last
<1>3. Front(visits) = SubSeq(visits, 1, n)
  BY DEF Front
<1>4. SubSeq(visits, 1, n) = [i \in 1..n |-> visits[i]]
  BY <1>1
<1>5. [i \in 1..n |-> visits[i]] \in Seq(Locations) /\ Len([i \in 1..n |-> visits[i]]) = n
  BY <1>1
<1> QED BY <1>2, <1>3, <1>4, <1>5

LEMMA NavigateOnceSteps ==
  ASSUME NEW way \in Ways, NEW tried, ~tried.ok, Good(tried.s), tried.s.draft = None, Len(tried.s[way[1]]) > 0
  PROVE  LET next == NavigateOnce(tried, way[1], way[2])
         IN /\ Steps(tried.s, next.s)
            /\ next.ok \/ (Keeps(tried.s, next.s) /\ Len(next.s[way[1]]) = Len(tried.s[way[1]]) - 1)
<1> DEFINE from == way[1]
           to == way[2]
           s == tried.s
           visits == s[from]
           target == Last(visits)
           u == [s EXCEPT ![from] = Front(@)]
           origin == CurrentLocation(u)
           shown == Show(u, target)
           t == [shown.s EXCEPT ![to] = Append(@, origin)]
           next == NavigateOnce(tried, from, to)
<1>1. next = IF shown.ok /\ origin # None THEN Result(TRUE, t) ELSE shown
  BY DEF NavigateOnce, Visit, Leave
<1>2. /\ from \in {"back", "forward"} /\ to \in {"back", "forward"} /\ from # to
      /\ DOMAIN s = SessionFields /\ s.back \in Seq(Locations) /\ s.forward \in Seq(Locations)
  BY DEF Ways, Good, Framed
<1>3. visits \in Seq(Locations) /\ Len(visits) > 0
  BY <1>2
<1>4. target \in Locations /\ Front(visits) \in Seq(Locations) /\ Len(Front(visits)) = Len(visits) - 1
  <2> HIDE DEF visits
  <2> QED BY <1>3, FrontAndLast
<1> HIDE DEF target
<1>5. u[from] = Front(visits) /\ u[to] = s[to] /\ s[to] \in Seq(Locations)
  BY <1>2 DEF SessionFields
<1>6. u.back \in Seq(Locations) /\ u.forward \in Seq(Locations)
  BY <1>2, <1>4, <1>5
<1>7. Revisited(s, u)
  <2>1. /\ DOMAIN u = SessionFields /\ u.row = s.row /\ u.file = s.file
        /\ u.document = s.document /\ u.source_view = s.source_view /\ u.reference = s.reference
        /\ u.expansions = s.expansions /\ u.full_files = s.full_files /\ u.collapsed_files = s.collapsed_files
        /\ u.diff_return = s.diff_return /\ u.draft = s.draft /\ u.comments = s.comments /\ u.next_id = s.next_id
    BY <1>2 DEF SessionFields
  <2> HIDE DEF u, s
  <2> QED BY <1>2, <1>6, <2>1 DEF Revisited, SameButRow, SessionFields
<1> HIDE DEF u
<1>8. Steps(s, u) /\ u.reference = s.reference
  BY <1>7, RevisitedSteps
<1>9. Steps(u, shown.s) /\ SameVisits(u, shown.s) /\ (shown.ok \/ Keeps(u, shown.s))
  BY <1>4, <1>8, ShowSteps DEF Steps
<1>10. origin \in Locations \cup {None}
  BY <1>8, CurrentLocationType DEF Steps
<1> HIDE DEF shown, origin
<1>11. Steps(s, shown.s)
  BY <1>8, <1>9, StepsTransitive
<1>12. CASE shown.ok /\ origin # None
  <2>1. DOMAIN shown.s = SessionFields /\ shown.s.back \in Seq(Locations) /\ shown.s.forward \in Seq(Locations)
    BY <1>11 DEF Steps, Good, Framed
  <2>2. t.back \in Seq(Locations) /\ t.forward \in Seq(Locations)
    <3>1. shown.s[to] \in Seq(Locations) /\ Append(shown.s[to], origin) \in Seq(Locations)
      BY <1>2, <1>10, <1>12, <2>1
    <3>2. t[to] = Append(shown.s[to], origin) /\ t[from] = shown.s[from]
      BY <1>2, <2>1 DEF SessionFields
    <3> QED BY <1>2, <2>1, <3>1, <3>2
  <2>3. /\ DOMAIN t = SessionFields /\ t.row = shown.s.row /\ t.file = shown.s.file
        /\ t.document = shown.s.document /\ t.source_view = shown.s.source_view /\ t.reference = shown.s.reference
        /\ t.expansions = shown.s.expansions /\ t.full_files = shown.s.full_files
        /\ t.collapsed_files = shown.s.collapsed_files
        /\ t.diff_return = shown.s.diff_return /\ t.draft = shown.s.draft /\ t.comments = shown.s.comments
        /\ t.next_id = shown.s.next_id
    BY <1>2, <2>1 DEF SessionFields
  <2>4. next.ok /\ next.s = t
    BY <1>1, <1>12 DEF Result
  <2> HIDE DEF t, next
  <2>5. Revisited(shown.s, t)
    BY <2>1, <2>2, <2>3 DEF Revisited, SameButRow, SessionFields
  <2>6. Steps(shown.s, t)
    BY <1>11, <2>5, RevisitedSteps DEF Steps
  <2> QED BY <1>11, <2>4, <2>6, StepsTransitive DEF next
<1>13. CASE ~(shown.ok /\ origin # None)
  <2>1. next = shown
    BY <1>1, <1>13
  <2>2. CASE shown.ok
    BY <1>11, <2>1, <2>2
  <2>3. CASE ~shown.ok
    <3>1. Keeps(s, shown.s)
      BY <1>8, <1>9, <2>3 DEF Keeps
    <3>2. shown.s[from] = u[from]
      BY <1>2, <1>9 DEF SameVisits
    <3>3. Len(shown.s[from]) = Len(visits) - 1
      BY <1>4, <1>5, <3>2
    <3> QED BY <1>11, <2>1, <3>1, <3>3
  <2> QED BY <2>2, <2>3
<1> QED BY <1>12, <1>13

\* f is what Navigate computes of n visits.
Takes(f, n, s, from, to) ==
  f = [k \in 0..n |-> IF k = 0 THEN Result(FALSE, s) ELSE NavigateOnce(f[k - 1], from, to)]

\* Visits taken one by one: the recursive function has a value, since it has one up to any number of visits.
LEMMA VisitsTaken ==
  ASSUME NEW s, NEW from, NEW to, NEW n \in Nat
  PROVE  \E f : Takes(f, n, s, from, to)
<1> DEFINE Taken(f, m) == Takes(f, m, s, from, to)
           Missing == {m \in Nat : ~\E f : Taken(f, m)}
<1>1. Taken([k \in 0..0 |-> Result(FALSE, s)], 0)
  BY DEF Takes
<1>2. ASSUME NEW m \in Nat, NEW f, Taken(f, m)
      PROVE  \E g : Taken(g, m + 1)
  <2> DEFINE g == [k \in 0..(m + 1) |-> IF k <= m THEN f[k] ELSE NavigateOnce(f[m], from, to)]
  <2>1. \A k \in 0..m : f[k] = IF k = 0 THEN Result(FALSE, s) ELSE NavigateOnce(f[k - 1], from, to)
    BY <1>2 DEF Takes
  <2>3. (\A k \in 0..m : g[k] = f[k]) /\ g[m + 1] = NavigateOnce(f[m], from, to)
    OBVIOUS
  <2>4. g = [k \in 0..(m + 1) |-> g[k]]
    OBVIOUS
  <2> HIDE DEF g, Taken
  <2>5. \A k \in 0..(m + 1) : g[k] = IF k = 0 THEN Result(FALSE, s) ELSE NavigateOnce(g[k - 1], from, to)
    <3> SUFFICES ASSUME NEW k \in 0..(m + 1)
                 PROVE  g[k] = IF k = 0 THEN Result(FALSE, s) ELSE NavigateOnce(g[k - 1], from, to)
      OBVIOUS
    <3>1. CASE k = 0
      <4>1. 0 \in 0..m
        OBVIOUS
      <4> QED BY <2>1, <2>3, <3>1, <4>1
    <3>2. CASE k # 0 /\ k <= m
      <4>1. k \in 0..m /\ k - 1 \in 0..m
        BY <3>2
      <4> QED BY <2>1, <2>3, <3>2, <4>1
    <3>3. CASE k = m + 1
      <4>1. k # 0 /\ k - 1 = m /\ m \in 0..m
        BY <3>3
      <4>2. g[k - 1] = f[m]
        BY <2>3, <4>1
      <4> QED BY <2>3, <3>3, <4>1, <4>2
    <3>4. k = 0 \/ (k # 0 /\ k <= m) \/ k = m + 1
      OBVIOUS
    <3> QED BY ONLY <3>1, <3>2, <3>3, <3>4
  <2>2. Taken(g, m + 1)
    BY <2>4, <2>5 DEF Taken, Takes
  <2> QED BY <2>2
<1> HIDE DEF Taken
<1>3. CASE Missing # {}
  <2>1. PICK m \in Missing : \A other \in Missing : m <= other
    <3>1. Missing \subseteq Nat
      OBVIOUS
    <3> HIDE DEF Missing
    <3> QED BY <1>3, <3>1, LeastNumber
  <2>2. m # 0
    BY <1>1, <2>1
  <2>3. m - 1 \in Nat /\ m - 1 \notin Missing
    BY <2>1, <2>2
  <2>4. PICK f : Taken(f, m - 1)
    BY <2>3
  <2>5. \E g : Taken(g, (m - 1) + 1)
    BY <1>2, <2>3, <2>4
  <2> QED BY <2>1, <2>5
<1>4. CASE Missing = {}
  <2>1. \E f : Taken(f, n)
    BY <1>4
  <2> QED BY <2>1 DEF Taken
<1> QED BY <1>3, <1>4

LEMMA NavigateSteps ==
  ASSUME NEW way \in Ways, NEW s, Good(s), s.draft = None
  PROVE  LET shown == Navigate(s, way[1], way[2]) IN Steps(s, shown.s) /\ (shown.ok \/ Keeps(s, shown.s))
<1> DEFINE from == way[1]
           to == way[2]
           n == Len(s[from])
           After == CHOOSE f : f = [k \in 0..n |-> IF k = 0 THEN Result(FALSE, s) ELSE NavigateOnce(f[k - 1], from, to)]
           Reached(k) == /\ Steps(s, After[k].s)
                         /\ After[k].ok \/ (Keeps(s, After[k].s) /\ Len(After[k].s[from]) = n - k)
           Failing == {k \in 0..n : ~Reached(k)}
<1>1. n \in Nat
  BY DEF Ways, Good, Framed
<1>2. Navigate(s, from, to) = After[n]
  BY DEF Navigate
<1> HIDE DEF n
<1>3. After = [k \in 0..n |-> IF k = 0 THEN Result(FALSE, s) ELSE NavigateOnce(After[k - 1], from, to)]
  <2>1. \E f : Takes(f, n, s, from, to)
    BY <1>1, VisitsTaken
  <2> QED BY <2>1, Zenon DEF Takes
<1> HIDE DEF After
<1>4. Reached(0)
  <2>1. After[0] = Result(FALSE, s)
    BY <1>1, <1>3
  <2> QED BY <2>1 DEF Result, Steps, Keeps, n
<1>5. ASSUME NEW k \in 1..n, Reached(k - 1)
      PROVE  Reached(k)
  <2>1. After[k] = NavigateOnce(After[k - 1], from, to)
    <3>1. k \in 0..n /\ k # 0
      BY <1>1
    <3> HIDE DEF from, to
    <3> QED BY <1>3, <3>1
  <2>2. CASE After[k - 1].ok
    <3>1. After[k] = After[k - 1]
      BY <2>1, <2>2 DEF NavigateOnce
    <3> QED BY <1>5, <2>2, <3>1
  <2>3. CASE ~After[k - 1].ok
    <3> DEFINE u == After[k - 1].s
               t == After[k].s
    <3>1. Steps(s, u) /\ Keeps(s, u) /\ Len(u[from]) = n - (k - 1)
      BY <1>5, <2>3
    <3>2. Len(u[from]) > 0
      BY <1>1, <3>1
    <3>3. Steps(u, t) /\ (After[k].ok \/ (Keeps(u, t) /\ Len(t[from]) = Len(u[from]) - 1))
      <4>1. Good(u) /\ u.draft = None
        BY <3>1 DEF Steps
      <4> DEFINE tried == After[k - 1]
      <4>2. ~tried.ok /\ Good(tried.s) /\ tried.s.draft = None /\ Len(tried.s[way[1]]) > 0
        BY <2>3, <3>2, <4>1
      <4>3. After[k] = NavigateOnce(tried, way[1], way[2])
        BY <2>1
      <4> HIDE DEF tried
      <4>4. Steps(tried.s, t) /\ (After[k].ok \/ (Keeps(tried.s, t) /\ Len(t[way[1]]) = Len(tried.s[way[1]]) - 1))
        BY ONLY way \in Ways, <4>2, <4>3, NavigateOnceSteps
      <4> QED BY <4>4 DEF tried
    <3>4. Steps(s, t)
      BY <3>1, <3>3, StepsTransitive
    <3>5. Keeps(u, t) => Keeps(s, t)
      BY <3>1, KeepsTransitive
    <3>6. Len(t[from]) = Len(u[from]) - 1 => Len(t[from]) = n - k
      BY <1>1, <3>1
    <3> QED BY <3>3, <3>4, <3>5, <3>6
  <2> QED BY <2>2, <2>3
<1> HIDE DEF Reached
<1>6. CASE Failing # {}
  <2>1. PICK k \in Failing : \A other \in Failing : k <= other
    <3>1. Failing \subseteq Nat
      BY <1>1
    <3> HIDE DEF Failing
    <3> QED BY <1>6, <3>1, LeastNumber
  <2>2. k # 0
    BY <1>4, <2>1
  <2>3. k \in 1..n /\ k - 1 \in 0..n /\ k - 1 \notin Failing
    BY <1>1, <2>1, <2>2
  <2>4. Reached(k - 1)
    BY <2>3
  <2> QED BY <1>5, <2>1, <2>3, <2>4
<1>7. CASE Failing = {}
  <2>1. Reached(n)
    BY <1>1, <1>7
  <2> QED BY <1>2, <2>1 DEF Reached
<1> QED BY <1>6, <1>7

-----------------------------------------------------------------------------
(* References that are answered.                                            *)

\* A failure is noted on the reference it is of, and nothing else changes, even under a draft.
LEMMA ReferenceFailedSteps ==
  ASSUME NEW s, Good(s), NEW path
  PROVE  /\ Good(ReferenceFailed(s, path)) /\ Keeps(s, ReferenceFailed(s, path))
         /\ ReferenceFailed(s, path).draft = s.draft /\ ReferenceFailed(s, path).document = s.document
         /\ ReferenceFailed(s, path).comments = s.comments /\ ReferenceFailed(s, path).next_id = s.next_id
         /\ IsPending(s) /\ path = ReferencePath(s) => ReferenceFailed(s, path).reference.error
         /\ s.reference = None => ReferenceFailed(s, path) = s
<1>0. ReferenceOK(s.reference)
  BY DEF Good, Framed
<1>1. CASE ~(IsPending(s) /\ s.reference.target.path = path)
  BY <1>0, <1>1, ReferenceTypes DEF ReferenceFailed, Keeps
<1>2. CASE IsPending(s) /\ s.reference.target.path = path
  <2> DEFINE t == [s EXCEPT !.reference.error = TRUE]
  <2>1. /\ DOMAIN t = SessionFields /\ t.document = s.document /\ t.row = s.row /\ t.file = s.file
        /\ t.source_view = s.source_view /\ t.expansions = s.expansions
        /\ t.full_files = s.full_files /\ t.collapsed_files = s.collapsed_files
        /\ t.back = s.back /\ t.forward = s.forward /\ t.draft = s.draft /\ t.comments = s.comments
        /\ t.next_id = s.next_id /\ t.reference = [s.reference EXCEPT !.error = TRUE]
    BY DEF Good, Framed, SessionFields
  <2>2. ReferenceFailed(s, path) = t
    BY <1>2 DEF ReferenceFailed
  <2> HIDE DEF t
  <2>3. /\ DOMAIN s.reference = {"state", "target", "error"} /\ s.reference.state = "Pending"
        /\ s.reference.target \in Locations
    <3>1. s.reference # None /\ s.reference.state = "Pending"
      BY <1>2 DEF IsPending
    <3>2. \A file : Open(file).state = "Open"
      BY DEF Open
    <3> QED BY <1>0, <3>1, <3>2 DEF ReferenceOK
  <2>4. /\ DOMAIN t.reference = {"state", "target", "error"} /\ t.reference.state = "Pending"
        /\ t.reference.target \in Locations /\ t.reference.error = TRUE
    BY <2>1, <2>3
  <2>5. t.reference.error /\ t.reference.state = "Pending"
    BY <2>4
  <2>6. ReferenceOK(t.reference)
    BY <2>4 DEF ReferenceOK
  <2>7. ~IsOpen(t) /\ ~IsOpen(s)
    BY <1>2, <2>5 DEF IsOpen, IsPending
  <2>8. Displayed(t) = Displayed(s)
    BY <2>1, <2>7 DEF Displayed
  <2>9. Framed(t)
    BY <2>1, <2>6, <2>7, <2>8 DEF Framed, Good
  <2>10. SameView(s, t)
    BY <2>1, <2>8 DEF SameView
  <2>11. Good(t)
    BY <2>1, <2>9, <2>10, GoodInSameView DEF Good
  <2> QED BY <1>2, <2>1, <2>2, <2>5, <2>11 DEF Keeps, IsPending
<1> QED BY <1>1, <1>2

\* A file read opens the reference that waits for it; what was open stays open.
LEMMA OpenReferenceSteps ==
  ASSUME NEW s, Good(s), s.draft = None, NEW path, NEW count \in Nat
  PROVE  /\ Steps(s, OpenReference(s, path, count)) /\ Keeps(s, OpenReference(s, path, count))
         /\ IsPending(s) /\ path = ReferencePath(s) => ~IsPending(OpenReference(s, path, count))
<1> DEFINE line == IF IsPending(s) THEN s.reference.target.line
                   ELSE IF SourceOf(s.row) = None THEN 1 ELSE s.row.line
           mark == IF s.source_view = None THEN CaptureBookmark(s) ELSE s.diff_return
           place == Location(path, New, line)
           u == [s EXCEPT !.diff_return = mark,
                          !.reference = Open(Unchanged(path, count)),
                          !.source_view = path,
                          !.file = Len(s.document.files) + 1,
                          !.pending_source_restore = place]
           t == OpenReference(s, path, count)
<1>0. ReferenceOK(s.reference) /\ s.document \in Documents \cup {NoDocument} /\ DOMAIN s = SessionFields
  BY DEF Good, Framed
<1>1. t = IF s.reference = None THEN s
          ELSE IF ReferencePath(s) # path THEN s
          ELSE IF IndexIn(s.document, path) # 0 THEN RevealSource(s, place).s
          ELSE Rebuild(u)
  BY <1>0 DEF OpenReference, SessionFields
<1>2. CASE s.reference = None \/ ReferencePath(s) # path
  BY <1>1, <1>2 DEF Steps, Keeps, IsPending
<1>3. CASE s.reference # None /\ ReferencePath(s) = path /\ IndexIn(s.document, path) # 0
  <2>1. line \in Nat
    <3>1. CASE IsPending(s)
      BY <1>0, <3>1, ReferenceTypes DEF Locations
    <3>2. CASE ~IsPending(s) /\ SourceOf(s.row) # None
      <4>1. s.row \in Rows(s)
        BY <3>2 DEF Good, RowShown, SourceOf
      <4> QED BY <1>0, <3>2, <4>1, RowsTypes
    <3> QED BY <3>1, <3>2
  <2>2. path \in STRING
    BY <1>0, <1>3, ReferenceTypes
  <2>3. place \in Locations
    <3> HIDE DEF line
    <3> QED BY <2>1, <2>2 DEF Location, Locations
  <2> HIDE DEF place
  <2>4. Steps(s, RevealSource(s, place).s) /\ ~IsPending(RevealSource(s, place).s)
    BY <2>3, RevealSourceSteps
  <2> QED BY <1>1, <1>3, <2>4 DEF Keeps
<1>4. CASE s.reference # None /\ ReferencePath(s) = path /\ IndexIn(s.document, path) = 0
  <2> HIDE DEF line, mark, place
  <2> DEFINE file == Unchanged(path, count)
  <2>1. path \in STRING
    BY <1>0, <1>4, ReferenceTypes
  <2>2. file \in Files /\ file.hunk = <<>> /\ file.path = path
    BY <2>1 DEF Unchanged, Files
  <2> HIDE DEF file
  <2>3. /\ DOMAIN u = SessionFields /\ u.document = s.document /\ u.file = Len(s.document.files) + 1
        /\ u.source_view = path /\ u.reference = Open(file)
        /\ u.full_files = s.full_files /\ u.collapsed_files = s.collapsed_files
        /\ u.back = s.back /\ u.forward = s.forward /\ u.draft = s.draft /\ u.comments = s.comments
        /\ u.next_id = s.next_id
    BY <1>0 DEF SessionFields, file
  <2> HIDE DEF u
  <2>4. u.reference # None /\ ReferenceOK(u.reference)
    <3>1. Open(file) \in OpenReferences
      BY <2>2 DEF Open, OpenReferences
    <3> QED BY <2>2, <2>3, <3>1, NoneAssumption DEF ReferenceOK
  <2>5. IsOpen(u) /\ ~IsPending(u) /\ u.reference.file = file
    BY <2>3, <2>4 DEF IsOpen, IsPending, Open
  <2>6. u.file \in Nat \ {0} /\ u.file \in DOMAIN Displayed(u) /\ Displayed(u)[u.file].path = path
    <3>1. Len(s.document.files) \in Nat
      BY <1>0, DocumentTypes
    <3>2. u.document \in Documents \cup {NoDocument}
      BY <1>0, <2>3
    <3>3. /\ Len(Displayed(u)) = Len(u.document.files) + 1 /\ DOMAIN Displayed(u) = 1..Len(Displayed(u))
          /\ Displayed(u)[Len(u.document.files) + 1] = u.reference.file
      BY <2>4, <2>5, <3>2, DisplayedTypes
    <3> QED BY <2>2, <2>3, <2>5, <3>1, <3>3
  <2>7. Framed(u)
    BY <1>0, <1>4, <2>2, <2>3, <2>4, <2>5, <2>6 DEF Framed, Good
  <2>8. Steps(u, Rebuild(u)) /\ Rebuild(u).reference = u.reference
    BY <2>3, <2>7, RebuildSteps
  <2>9. ~IsPending(Rebuild(u))
    BY <2>5, <2>8 DEF IsPending
  <2> QED BY <1>1, <1>4, <2>3, <2>8, <2>9 DEF Steps, Keeps
<1> QED BY <1>2, <1>3, <1>4

-----------------------------------------------------------------------------
(* Another document.                                                        *)

\* There is an element at each place among those kept.
LEMMA KeptPlaces ==
  ASSUME NEW n \in Nat, NEW kept, kept \subseteq 1..n, NEW k \in 1..Cardinality(kept)
  PROVE  \E i \in kept : Rank(i, kept) = k
<1> DEFINE Below(i) == {j \in kept : j <= i}
           T == {i \in Nat : Cardinality(Below(i)) >= k}
<1>0. \A j \in kept : j \in Nat /\ 1 <= j /\ j <= n
  OBVIOUS
<1>1. IsFiniteSet(kept)
  <2>1. IsFiniteSet(1..n)
    BY FS_Interval
  <2> QED BY <2>1, FS_Subset
<1>2. ASSUME NEW i \in Nat
      PROVE  IsFiniteSet(Below(i)) /\ Cardinality(Below(i)) \in Nat
  <2>1. IsFiniteSet(Below(i))
    BY <1>1, FS_Subset
  <2> QED BY <2>1, FS_CardinalityType
<1>3. Cardinality(kept) \in Nat /\ k \in Nat /\ k >= 1 /\ k <= Cardinality(kept)
  <2>1. Cardinality(kept) \in Nat
    BY <1>1, FS_CardinalityType
  <2> QED BY <2>1
<1>4. n \in T
  <2>1. Below(n) = kept
    BY <1>0
  <2> QED BY <1>3, <2>1
<1>5. PICK m \in T : \A other \in T : m <= other
  <2>1. T \subseteq Nat /\ T # {}
    BY <1>4
  <2> HIDE DEF T
  <2> QED BY <2>1, LeastNumber
<1>6. m \in Nat /\ Cardinality(Below(m)) >= k
  BY <1>5
<1> DEFINE c == Cardinality(Below(m))
           b == Cardinality(Below(m - 1))
<1>7. m # 0
  <2>1. Below(0) = {}
    <3>1. \A j \in kept : ~(j <= 0)
      BY <1>0
    <3> QED BY <3>1
  <2>2. Cardinality(Below(0)) = 0
    BY <2>1, FS_EmptySet
  <2> QED BY <1>3, <1>6, <2>2
<1>8. m - 1 \in Nat /\ m - 1 \notin T
  <2>1. m - 1 \in Nat /\ ~(m <= m - 1)
    BY <1>6, <1>7
  <2> QED BY <1>5, <2>1
<1>9. c \in Nat /\ b \in Nat /\ b < k /\ c >= k
  <2>1. c \in Nat /\ b \in Nat /\ c >= k
    BY <1>2, <1>6, <1>8
  <2>2. ~(b >= k)
    BY <1>8
  <2> HIDE DEF b, c
  <2> QED BY <1>3, <2>1, <2>2
<1>10. CASE m \notin kept
  <2>1. Below(m) = Below(m - 1)
    <3>1. \A j \in kept : j <= m <=> j <= m - 1
      <4> SUFFICES ASSUME NEW j \in kept PROVE j <= m <=> j <= m - 1
        OBVIOUS
      <4>1. j \in Nat /\ j # m
        BY <1>0, <1>10
      <4> QED BY <1>6, <4>1
    <3> QED BY <3>1
  <2>2. b = c
    BY <2>1
  <2> HIDE DEF b, c
  <2> QED BY <1>3, <1>9, <2>2
<1>11. CASE m \in kept
  <2>1. Below(m) = Below(m - 1) \cup {m} /\ m \notin Below(m - 1)
    <3>1. \A j \in kept : j <= m <=> j <= m - 1 \/ j = m
      <4> SUFFICES ASSUME NEW j \in kept PROVE j <= m <=> j <= m - 1 \/ j = m
        OBVIOUS
      <4>1. j \in Nat
        BY <1>0
      <4> QED BY <1>6, <4>1
    <3>2. ~(m <= m - 1)
      BY <1>6
    <3> QED BY <1>11, <3>1, <3>2
  <2>2. IsFiniteSet(Below(m - 1))
    BY <1>2, <1>8
  <2> HIDE DEF Below
  <2>3. c = b + 1
    BY <2>1, <2>2, FS_AddElement
  <2>4. c = k
    <3> HIDE DEF b, c
    <3> QED BY <1>3, <1>9, <2>3
  <2> QED BY <1>11, <2>4 DEF Below, Rank
<1> QED BY <1>10, <1>11

LEMMA VisitsAfterType ==
  ASSUME NEW visits \in Seq(Locations), NEW document, NEW targetChanged \in BOOLEAN
  PROVE  VisitsAfter(visits, document, targetChanged) \in Seq(Locations)
<1> DEFINE kept == {i \in DOMAIN visits : visits[i].side = New \/ IndexIn(document, visits[i].path) # 0}
<1>1. kept \subseteq 1..Len(visits) /\ Len(visits) \in Nat
  OBVIOUS
<1>2. VisitsAfter(visits, document, targetChanged) = IF targetChanged THEN <<>> ELSE Retain(visits, kept)
  BY DEF VisitsAfter
<1> HIDE DEF kept
<1>3. Cardinality(kept) \in Nat
  <2>1. IsFiniteSet(1..Len(visits))
    BY <1>1, FS_Interval
  <2>2. IsFiniteSet(kept)
    BY <1>1, <2>1, FS_Subset
  <2> QED BY <2>2, FS_CardinalityType
<1> DEFINE At(k) == CHOOSE i \in kept : Rank(i, kept) = k
<1>4. \A k \in 1..Cardinality(kept) : At(k) \in kept
  <2> SUFFICES ASSUME NEW k \in 1..Cardinality(kept) PROVE At(k) \in kept
    OBVIOUS
  <2>1. \E i \in kept : Rank(i, kept) = k
    BY <1>1, KeptPlaces
  <2> QED BY <2>1
<1>5. Retain(visits, kept) = [k \in 1..Cardinality(kept) |-> visits[At(k)]]
  BY DEF Retain
<1> HIDE DEF At
<1>6. \A k \in 1..Cardinality(kept) : visits[At(k)] \in Locations
  <2>1. \A i \in kept : visits[i] \in Locations
    BY <1>1
  <2> QED BY <1>4, <2>1
<1>7. [k \in 1..Cardinality(kept) |-> visits[At(k)]] \in Seq(Locations)
  BY <1>3, <1>6
<1> QED BY <1>2, <1>5, <1>7

\* Replacing the document: an open reference outlives it, joins it, or goes with its source view.
LEMMA ReplaceDocumentSteps ==
  ASSUME NEW s, Good(s), s.draft = None, NEW d \in Documents \cup {NoDocument}, NEW tc \in BOOLEAN
  PROVE  /\ Good(ReplaceDocument(s, d, tc)) /\ ReplaceDocument(s, d, tc).document = d
         /\ ReplaceDocument(s, d, tc).draft = None /\ ReplaceDocument(s, d, tc).comments = s.comments
         /\ ReplaceDocument(s, d, tc).next_id = s.next_id
<1> DEFINE keepsOpen == IsOpen(s) /\ (Joins(s, d, tc) \/ Survives(s, d, tc))
           drops == ~keepsOpen /\ (IsOpen(s) \/ (s.source_view # None /\ IndexIn(d, s.source_view) = 0))
           paths == {file.path : file \in ToSet(d.files)}
           c == Carried(s, d, tc, keepsOpen)
           path == Captured(s).path
           r == Reselected(c, path)
<1>0. /\ ReferenceOK(s.reference) /\ s.document \in Documents \cup {NoDocument} /\ DOMAIN s = SessionFields
      /\ s.back \in Seq(Locations) /\ s.forward \in Seq(Locations)
  BY DEF Good, Framed
<1>1. ReplaceDocument(s, d, tc) = Rebuild(r)
  BY DEF ReplaceDocument
<1>2. /\ DOMAIN c = SessionFields /\ c.document = d /\ c.file = s.file
      /\ c.source_view = (IF drops THEN None ELSE s.source_view)
      /\ c.reference = (IF Survives(s, d, tc) THEN s.reference ELSE None)
      /\ c.full_files = s.full_files \cap paths /\ c.collapsed_files = s.collapsed_files \cap paths
      /\ c.back = VisitsAfter(s.back, d, tc) /\ c.forward = VisitsAfter(s.forward, d, tc)
      /\ c.draft = s.draft /\ c.comments = s.comments /\ c.next_id = s.next_id
  BY <1>0 DEF Carried, SessionFields
<1> HIDE DEF c
<1>3. keepsOpen <=> IsOpen(s) /\ ~tc
  BY DEF Joins, Survives, IsOpen
<1> HIDE DEF keepsOpen
<1>4. ReferenceOK(c.reference)
  BY <1>0, <1>2 DEF ReferenceOK
<1>5. IsOpen(c) => /\ IsOpen(s) /\ ~tc /\ c.reference = s.reference /\ IndexIn(d, s.reference.file.path) = 0
                   /\ c.source_view = s.reference.file.path
  <2> SUFFICES ASSUME IsOpen(c)
               PROVE  /\ IsOpen(s) /\ ~tc /\ c.reference = s.reference /\ IndexIn(d, s.reference.file.path) = 0
                      /\ c.source_view = s.reference.file.path
    OBVIOUS
  <2>1. c.reference = s.reference /\ Survives(s, d, tc)
    BY <1>2 DEF IsOpen
  <2>2. IsOpen(s)
    BY <2>1 DEF IsOpen
  <2>3. ~tc /\ IndexIn(d, s.reference.file.path) = 0
    BY <2>1, <2>2 DEF Survives
  <2>4. ~drops
    BY <1>3, <2>2, <2>3
  <2>5. c.source_view = s.source_view
    BY <1>2, <2>4
  <2> QED BY <2>1, <2>2, <2>3, <2>5 DEF Good, Framed
<1>6. c.source_view # None => c.source_view = s.source_view /\ FileIndex(c, c.source_view) # 0
  <2> SUFFICES ASSUME c.source_view # None
               PROVE  c.source_view = s.source_view /\ FileIndex(c, c.source_view) # 0
    OBVIOUS
  <2>1. ~drops /\ c.source_view = s.source_view
    BY <1>2
  <2>2. CASE IsOpen(s)
    <3>1. ~tc /\ s.source_view = s.reference.file.path
      BY <1>3, <2>1, <2>2 DEF Good, Framed
    <3>2. CASE IndexIn(d, s.source_view) # 0
      BY <1>2, <1>4, <2>1, <3>2, IndexOfDisplayed
    <3>3. CASE IndexIn(d, s.source_view) = 0
      <4>1. Survives(s, d, tc)
        BY <2>2, <3>1, <3>3 DEF Survives, IsOpen
      <4>2. IsOpen(c) /\ c.reference = s.reference
        BY <1>2, <2>2, <4>1 DEF IsOpen
      <4> QED BY <1>2, <1>4, <2>1, <3>1, <4>2, IndexOfDisplayed
    <3> QED BY <3>2, <3>3
  <2>3. CASE ~IsOpen(s)
    <3>1. IndexIn(d, c.source_view) # 0
      BY <1>3, <2>1, <2>3
    <3> QED BY <1>2, <1>4, <2>1, <3>1, IndexOfDisplayed
  <2> QED BY <2>2, <2>3
<1>7. \A p \in c.full_files \cup c.collapsed_files : IndexIn(d, p) # 0
  <2> SUFFICES ASSUME NEW p \in paths PROVE IndexIn(d, p) # 0
    BY <1>2
  <2>1. PICK file \in ToSet(d.files) : p = file.path
    OBVIOUS
  <2>2. PICK i \in DOMAIN d.files : d.files[i] = file
    BY <2>1 DEF ToSet
  <2> QED BY <2>1, <2>2, IndexInType
<1>8. c.back \in Seq(Locations) /\ c.forward \in Seq(Locations)
  BY <1>0, <1>2, VisitsAfterType
<1> HIDE DEF drops, paths
<1>9. c.source_view # None => path = c.source_view
  <2> SUFFICES ASSUME c.source_view # None PROVE path = s.source_view
    BY <1>6
  <2>1. s.source_view # None /\ s.file \in DOMAIN Displayed(s) /\ Displayed(s)[s.file].path = s.source_view
    BY <1>6 DEF Good, Framed
  <2>2. Displayed(s)[s.file] \in Files
    BY <1>0, <2>1, DisplayedTypes
  <2>3. File(s, s.file) = Displayed(s)[s.file] /\ File(s, s.file) # None
    BY <2>1, <2>2, NoneAssumption DEF File
  <2> QED BY <2>1, <2>3 DEF Captured
<1> HIDE DEF path
<1>10. /\ FileIndex(c, path) \in Nat /\ (FileIndex(c, path) # 0 =>
            FileIndex(c, path) \in DOMAIN Displayed(c) /\ Displayed(c)[FileIndex(c, path)].path = path)
  BY <1>2, <1>4, FileIndexType
<1>11. /\ DOMAIN r = SessionFields /\ r.document = c.document /\ r.file = Max({1, FileIndex(c, path)})
       /\ r.source_view = c.source_view /\ r.reference = c.reference
       /\ r.full_files = c.full_files /\ r.collapsed_files = c.collapsed_files
       /\ r.back = c.back /\ r.forward = c.forward
       /\ r.draft = c.draft /\ r.comments = c.comments /\ r.next_id = c.next_id
  BY <1>2 DEF Reselected, SessionFields
<1> HIDE DEF r
<1>12. r.file \in Nat \ {0} /\ (FileIndex(c, path) # 0 => r.file = FileIndex(c, path))
  <2>1. Max({1, FileIndex(c, path)}) \in {1, FileIndex(c, path)} /\ 1 <= Max({1, FileIndex(c, path)})
        /\ FileIndex(c, path) <= Max({1, FileIndex(c, path)})
    BY <1>10, MaxOfTwo
  <2> QED BY <1>10, <1>11, <2>1
<1>13. (IsOpen(r) <=> IsOpen(c)) /\ Displayed(r) = Displayed(c)
  BY <1>11 DEF IsOpen, Displayed
<1>14. Framed(r)
  <2>1. r.source_view # None => r.file \in DOMAIN Displayed(r) /\ Displayed(r)[r.file].path = r.source_view
    BY <1>6, <1>9, <1>10, <1>11, <1>12, <1>13
  <2>2. IsOpen(r) => r.source_view = r.reference.file.path /\ IndexIn(r.document, r.source_view) = 0
    BY <1>2, <1>5, <1>11, <1>13
  <2> QED BY <1>2, <1>4, <1>7, <1>8, <1>11, <1>12, <2>1, <2>2 DEF Framed
<1>15. Steps(r, Rebuild(r))
  BY <1>2, <1>11, <1>14, RebuildSteps
<1> QED BY <1>1, <1>2, <1>11, <1>15 DEF Steps

-----------------------------------------------------------------------------
(* Comments.                                                                *)

LEMMA AnchorsAre ==
  ASSUME NEW d \in Documents \cup {NoDocument}
  PROVE  Anchors(d) \subseteq LineAnchors
<1> SUFFICES ASSUME NEW a \in Anchors(d) PROVE a \in LineAnchors
  OBVIOUS
<1>1. PICK file \in ToSet(d.files), side \in {Old, New} :
        a \in {AnchorOf(file, k, side) : k \in {i \in DOMAIN file.hunk : OnSide(file.hunk[i], side)}}
  BY DEF Anchors
<1>2. PICK k \in DOMAIN file.hunk : a = AnchorOf(file, k, side)
  BY <1>1
<1>3. PICK i \in DOMAIN d.files : d.files[i] = file
  BY <1>1 DEF ToSet
<1>4. file \in Files
  BY <1>3, DocumentTypes
<1> QED BY <1>1, <1>2, <1>4, AnchorType

\* The anchors of a document's lines are its anchors.
LEMMA LinesAreAnchored ==
  ASSUME NEW d, NEW i \in DOMAIN d.files, NEW row, OnItsLine(row, d.files[i])
  PROVE  row.anchor \in Anchors(d)
<1>1. PICK k \in DOMAIN d.files[i].hunk, side \in {Old, New} :
        OnSide(d.files[i].hunk[k], side) /\ row.anchor = AnchorOf(d.files[i], k, side)
  BY DEF OnItsLine
<1>2. d.files[i] \in ToSet(d.files)
  BY DEF ToSet
<1> DEFINE these(file, on) == {AnchorOf(file, j, on) : j \in {m \in DOMAIN file.hunk : OnSide(file.hunk[m], on)}}
<1>3. row.anchor \in these(d.files[i], side)
  BY <1>1
<1>4. Anchors(d) = UNION {these(file, on) : file \in ToSet(d.files), on \in {Old, New}}
  BY DEF Anchors
<1> HIDE DEF these
<1> QED BY <1>1, <1>2, <1>3, <1>4

LEMMA DistanceType ==
  ASSUME NEW a \in LineAnchors, NEW b \in LineAnchors
  PROVE  AnchorLine(a) \in Nat /\ AnchorLine(b) \in Nat /\ Distance(a, b) \in Nat
BY DEF AnchorLine, Distance, LineAnchors

\* A comment is attached to a line of the document, or no line of its file has its text.
LEMMA Reattached ==
  ASSUME NEW anchors, anchors \subseteq LineAnchors, NEW previous \in LineAnchors
  PROVE  \/ Reattach(anchors, previous) \in anchors /\ Reattach(anchors, previous) # None
         \/ /\ Reattach(anchors, previous) = None
            /\ \A a \in anchors : a.path = previous.path => ~SameContent(a, previous)
<1> DEFINE bucket == {a \in anchors : SameContent(a, previous)}
           same == {a \in bucket : a.path = previous.path}
           Nearer(a, other) == \/ Distance(a, previous) < Distance(other, previous)
                               \/ Distance(a, previous) = Distance(other, previous) /\ AnchorLine(a) <= AnchorLine(other)
           chosen == CHOOSE a \in same : \A other \in same : Nearer(a, other)
<1>1. Reattach(anchors, previous) = IF previous \in bucket THEN previous ELSE IF same = {} THEN None ELSE chosen
  BY DEF Reattach
<1>2. \A a \in anchors : a # None
  BY NoneAssumption
<1>3. CASE previous \in bucket
  BY <1>1, <1>2, <1>3
<1>4. CASE previous \notin bucket /\ same = {}
  BY <1>1, <1>4
<1>5. CASE previous \notin bucket /\ same # {}
  <2>1. same \subseteq LineAnchors
    OBVIOUS
  <2>2. \E a \in same : \A other \in same : Nearer(a, other)
    <3> DEFINE Distances == {Distance(a, previous) : a \in same}
    <3> HIDE DEF same
    <3>1. Distances \subseteq Nat /\ Distances # {}
      BY <1>5, <2>1, DistanceType
    <3>2. PICK d \in Distances : \A other \in Distances : d <= other
      <4> HIDE DEF Distances
      <4> QED BY <3>1, LeastNumber
    <3> DEFINE nearest == {a \in same : Distance(a, previous) = d}
               Nearest == {AnchorLine(a) : a \in nearest}
    <3>3. Nearest \subseteq Nat /\ Nearest # {}
      BY <2>1, <3>2, DistanceType
    <3>4. PICK l \in Nearest : \A other \in Nearest : l <= other
      <4> HIDE DEF Nearest
      <4> QED BY <3>3, LeastNumber
    <3>5. PICK a \in same : Distance(a, previous) = d /\ AnchorLine(a) = l
      BY <3>4
    <3>6. ASSUME NEW other \in same PROVE Nearer(a, other)
      <4>1. Distance(other, previous) \in Nat /\ d \in Nat /\ d <= Distance(other, previous)
        BY <3>1, <3>2
      <4>2. Distance(other, previous) = d => l <= AnchorLine(other)
        BY <3>4
      <4> QED BY <3>5, <4>1, <4>2
    <3> QED BY <3>6
  <2>3. chosen \in same
    <3> HIDE DEF same, Nearer
    <3> QED BY <2>2
  <2> HIDE DEF chosen
  <2> QED BY <1>1, <1>2, <1>5, <2>3
<1> QED BY <1>3, <1>4, <1>5

\* A comment on a document is on a line of it, unless no line of its file has its text.
OnLine(c, d) ==
  c.commit = d.target.commit =>
    IF c.outdated THEN \A a \in Anchors(d) : a.path = c.anchor.path => ~SameContent(a, c.anchor)
    ELSE c.anchor \in Anchors(d)

CommentOK(c) ==
  DOMAIN c = {"id", "anchor", "commit", "outdated"} /\ c.id \in Nat /\ c.anchor \in LineAnchors /\ c.outdated \in BOOLEAN

\* The comments of a session, and the number of the next.
ReviewOK(s) ==
  /\ s.next_id \in 0..MaxComments
  /\ \A c \in s.comments : CommentOK(c) /\ c.id < s.next_id /\ OnLine(c, s.document)

\* Every comment has one with its number, and the same if it is of another commit.
Outlived(comments, others, d) ==
  \A c \in comments : \E o \in others : o.id = c.id /\ (c.commit # d.target.commit => o = c) /\ o.commit = c.commit

LEMMA Reconciled ==
  ASSUME NEW comments, NEW d \in Documents \cup {NoDocument}, \A c \in comments : CommentOK(c)
  PROVE  /\ \A o \in Reconcile(comments, d) : \E c \in comments : o.id = c.id /\ CommentOK(o) /\ OnLine(o, d)
         /\ Outlived(comments, Reconcile(comments, d), d)
<1> DEFINE Anchor(c) == Reattach(Anchors(d), c.anchor)
           Again(c) == [c EXCEPT !.anchor = IF Anchor(c) = None THEN @ ELSE Anchor(c), !.outdated = Anchor(c) = None]
           One(c) == IF c.commit # d.target.commit THEN c ELSE Again(c)
<1>1. Reconcile(comments, d) = {One(c) : c \in comments}
  BY DEF Reconcile
<1>2. ASSUME NEW c \in comments
      PROVE  /\ One(c).id = c.id /\ CommentOK(One(c)) /\ OnLine(One(c), d) /\ One(c).commit = c.commit
             /\ c.commit # d.target.commit => One(c) = c
  <2>1. CommentOK(c)
    OBVIOUS
  <2>2. CASE c.commit # d.target.commit
    BY <2>1, <2>2 DEF OnLine
  <2>3. CASE c.commit = d.target.commit
    <3> DEFINE a == Anchor(c)
               o == Again(c)
    <3>1. \/ a \in Anchors(d) /\ a # None
          \/ a = None /\ \A other \in Anchors(d) : other.path = c.anchor.path => ~SameContent(other, c.anchor)
      BY <2>1, AnchorsAre, Reattached DEF CommentOK
    <3>2. Anchors(d) \subseteq LineAnchors
      BY AnchorsAre
    <3> HIDE DEF a
    <3>3. /\ DOMAIN o = DOMAIN c /\ o.id = c.id /\ o.commit = c.commit
          /\ o.anchor = (IF a = None THEN c.anchor ELSE a) /\ o.outdated = (a = None)
      BY <2>1 DEF CommentOK, a
    <3>4. One(c) = o
      BY <2>3
    <3> HIDE DEF o, One
    <3>5. CommentOK(o)
      BY <2>1, <3>1, <3>2, <3>3 DEF CommentOK
    <3>6. OnLine(o, d)
      BY <3>1, <3>3 DEF OnLine
    <3> QED BY <2>3, <3>3, <3>4, <3>5, <3>6
  <2> QED BY <2>2, <2>3
<1> HIDE DEF One
<1>3. \A o \in Reconcile(comments, d) : \E c \in comments : o.id = c.id /\ CommentOK(o) /\ OnLine(o, d)
  BY <1>1, <1>2
<1>4. \A c \in comments : One(c) \in Reconcile(comments, d)
  BY <1>1
<1> QED BY <1>2, <1>3, <1>4 DEF Outlived

\* A new document finds the comments' lines again and takes none away.
LEMMA SetDocumentSteps ==
  ASSUME NEW s, Good(s), ReviewOK(s), s.draft = None, NEW d \in Documents \cup {NoDocument}
  PROVE  /\ Good(SetDocument(s, d)) /\ ReviewOK(SetDocument(s, d)) /\ SetDocument(s, d).draft = None
         /\ SetDocument(s, d).document = d
         /\ Outlived(s.comments, SetDocument(s, d).comments, d)
<1> DEFINE tc == d.target # s.document.target
           comments == Reconcile(s.comments, d)
           u == [s EXCEPT !.draft = IF d.target # s.document.target THEN None ELSE @, !.comments = Reconcile(@, d)]
           t == SetDocument(s, d)
<1>1. t = IF d = s.document THEN u ELSE ReplaceDocument(u, d, tc)
  BY DEF SetDocument
<1>2. /\ DOMAIN u = SessionFields /\ u.document = s.document /\ u.row = s.row /\ u.file = s.file
      /\ u.source_view = s.source_view /\ u.expansions = s.expansions /\ u.reference = s.reference
      /\ u.full_files = s.full_files /\ u.collapsed_files = s.collapsed_files
      /\ u.back = s.back /\ u.forward = s.forward /\ u.draft = None /\ u.comments = comments
      /\ u.next_id = s.next_id
  BY DEF Good, Framed, SessionFields
<1> HIDE DEF u, tc
<1>3. SameView(s, u) /\ (IsOpen(u) <=> IsOpen(s))
  BY <1>2 DEF SameView, IsOpen, Displayed
<1>4. Framed(u)
  BY <1>2, <1>3 DEF Good, Framed, SameView
<1>5. Good(u)
  BY <1>2, <1>3, <1>4, GoodInSameView DEF Good
<1>6. tc \in BOOLEAN
  BY DEF tc
<1>7. Good(t) /\ t.document = d /\ t.draft = None /\ t.comments = comments /\ t.next_id = s.next_id
  <2>1. CASE d = s.document
    BY <1>1, <1>2, <1>5, <2>1
  <2>2. CASE d # s.document
    <3>1. t = ReplaceDocument(u, d, tc)
      BY <1>1, <2>2
    <3> HIDE DEF t
    <3> QED BY <1>2, <1>5, <1>6, <3>1, ReplaceDocumentSteps
  <2> QED BY <2>1, <2>2
<1>8. /\ \A o \in comments : \E c \in s.comments : o.id = c.id /\ CommentOK(o) /\ OnLine(o, d)
      /\ Outlived(s.comments, comments, d)
  BY Reconciled DEF ReviewOK
<1> HIDE DEF comments, t
<1>9. ReviewOK(t)
  BY <1>7, <1>8 DEF ReviewOK
<1> QED BY <1>7, <1>8, <1>9 DEF t

-----------------------------------------------------------------------------
(* Lookups.                                                                 *)

NameFields == {"card", "answers", "waiting", "outgoing", "next_token"}
CardFields == {"origin", "near", "following", "request", "answer"}
Places == Locations \cup {None}

CardOK(card) == DOMAIN card = CardFields /\ card.near \in Places /\ card.answer.target \in Places

\* A lookup that was numbered before `next`.
Numbered(lookup, next) ==
  lookup.token \in Nat /\ lookup.token < next /\ lookup.request.kind \in {"Source", "Definition"}

NamesOK(n) ==
  /\ DOMAIN n = NameFields /\ n.next_token \in Nat
  /\ n.card # None => CardOK(n.card)
  /\ \A a \in n.answers : a.resolution.target \in Places
  /\ \A w \in n.waiting \cup n.outgoing : Numbered(w, n.next_token)

\* Lookups are only added: what is new is to be sent, and what is no longer waited for was replaced by a
\* new one for the same.
Asks(n, m) ==
  /\ NamesOK(m) /\ m.next_token >= n.next_token /\ n.outgoing \subseteq m.outgoing
  /\ \A w \in m.waiting \ n.waiting : w.token >= n.next_token /\ w \in m.outgoing
  /\ \A w \in n.waiting \ m.waiting : \E v \in m.waiting : v.request = w.request /\ v \in m.outgoing

\* ReferenceIsAwaited, of lookups that are to be sent or in a pool.
Awaits(s, n, pool) ==
  IsPending(s) /\ ~s.reference.error =>
    \E w \in n.waiting : w.request = SourceRequest(s.reference.target.path) /\ w \in n.outgoing \cup pool

LEMMA AsksReflexive ==
  ASSUME NEW n, NamesOK(n)
  PROVE  Asks(n, n)
BY DEF Asks, NamesOK

LEMMA AsksTransitive ==
  ASSUME NEW n, NEW m, NEW l, NamesOK(n), Asks(n, m), Asks(m, l)
  PROVE  Asks(n, l)
<1>1. NamesOK(l) /\ l.next_token >= n.next_token /\ n.outgoing \subseteq l.outgoing
  BY DEF Asks, NamesOK
<1>2. ASSUME NEW w \in l.waiting, w \notin n.waiting
      PROVE  w.token >= n.next_token /\ w \in l.outgoing
  <2>1. n.next_token \in Nat /\ m.next_token \in Nat /\ m.next_token >= n.next_token
    BY DEF Asks, NamesOK
  <2>2. w.token \in Nat
    BY <1>1 DEF NamesOK, Numbered
  <2>3. CASE w \in m.waiting
    BY <1>2, <2>3 DEF Asks
  <2>4. CASE w \notin m.waiting
    <3>1. w.token >= m.next_token /\ w \in l.outgoing
      BY <2>4 DEF Asks
    <3> QED BY <2>1, <2>2, <3>1
  <2> QED BY <2>3, <2>4
<1>3. ASSUME NEW w \in n.waiting, w \notin l.waiting
      PROVE  \E v \in l.waiting : v.request = w.request /\ v \in l.outgoing
  <2>1. CASE w \in m.waiting
    BY <1>3, <2>1 DEF Asks
  <2>2. CASE w \notin m.waiting
    <3>1. PICK v \in m.waiting : v.request = w.request /\ v \in m.outgoing
      BY <2>2 DEF Asks
    <3>2. CASE v \in l.waiting
      BY <3>1, <3>2 DEF Asks
    <3>3. CASE v \notin l.waiting
      BY <3>1, <3>3 DEF Asks
    <3> QED BY <3>2, <3>3
  <2> QED BY <2>1, <2>2
<1> QED BY <1>1, <1>2, <1>3 DEF Asks

\* A reference that is kept is still awaited.
LEMMA AwaitsKept ==
  ASSUME NEW s, NEW t, NEW n, NEW m, NEW pool, Awaits(s, n, pool), Keeps(s, t), Asks(n, m)
  PROVE  Awaits(t, m, pool)
<1> SUFFICES ASSUME IsPending(t), ~t.reference.error
             PROVE  \E w \in m.waiting : w.request = SourceRequest(t.reference.target.path) /\ w \in m.outgoing \cup pool
  BY DEF Awaits
<1>1. t.reference = s.reference /\ IsPending(s) /\ ~s.reference.error
  BY DEF Keeps, IsPending
<1>2. PICK w \in n.waiting : w.request = SourceRequest(t.reference.target.path) /\ w \in n.outgoing \cup pool
  BY <1>1 DEF Awaits
<1>3. CASE w \in m.waiting
  BY <1>2, <1>3 DEF Asks
<1>4. CASE w \notin m.waiting
  <2>1. PICK v \in m.waiting : v.request = w.request /\ v \in m.outgoing
    BY <1>4 DEF Asks
  <2> QED BY <1>2, <2>1
<1> QED BY <1>3, <1>4

\* What does not touch the lookups.
LEMMA CardStep ==
  ASSUME NEW n, NEW m, NamesOK(n), DOMAIN m = NameFields, m.card = None \/ CardOK(m.card),
         m.answers \subseteq n.answers, m.waiting = n.waiting, m.outgoing = n.outgoing, m.next_token = n.next_token
  PROVE  Asks(n, m)
BY DEF Asks, NamesOK

LEMMA CloseCardStep ==
  ASSUME NEW n, NamesOK(n)
  PROVE  Asks(n, CloseCard(n)) /\ CloseCard(n).waiting = n.waiting /\ CloseCard(n).outgoing = n.outgoing
<1>1. /\ DOMAIN CloseCard(n) = NameFields /\ CloseCard(n).card = None /\ CloseCard(n).answers = n.answers
      /\ CloseCard(n).waiting = n.waiting /\ CloseCard(n).outgoing = n.outgoing
      /\ CloseCard(n).next_token = n.next_token
  BY DEF CloseCard, NamesOK, NameFields
<1> QED BY <1>1, CardStep

LEMMA IssueStep ==
  ASSUME NEW n, NEW request, NamesOK(n), request.kind \in {"Source", "Definition"}
  PROVE  /\ Asks(n, Issue(n, request)) /\ Issue(n, request).card = n.card
         /\ \E w \in Issue(n, request).waiting : w.request = request /\ w \in Issue(n, request).outgoing
         /\ n.waiting = {} => \A w \in Issue(n, request).waiting : w.token >= n.next_token
<1> DEFINE lookup == [token |-> n.next_token, request |-> request]
           m == Issue(n, request)
<1>1. /\ DOMAIN m = NameFields /\ m.card = n.card /\ m.answers = n.answers
      /\ m.waiting = {w \in n.waiting : w.request # request} \cup {lookup}
      /\ m.outgoing = n.outgoing \cup {lookup} /\ m.next_token = n.next_token + 1
  BY DEF Issue, NamesOK, NameFields
<1>2. lookup.token = n.next_token /\ lookup.request = request
  OBVIOUS
<1> HIDE DEF m, lookup
<1>3. n.next_token \in Nat /\ m.next_token \in Nat /\ m.next_token >= n.next_token
  BY <1>1 DEF NamesOK
<1>4. \A w \in m.waiting \cup m.outgoing : Numbered(w, m.next_token)
  <2> SUFFICES ASSUME NEW w \in m.waiting \cup m.outgoing PROVE Numbered(w, m.next_token)
    OBVIOUS
  <2>1. CASE w = lookup
    BY <1>1, <1>2, <1>3, <2>1 DEF Numbered
  <2>2. CASE w # lookup
    <3>1. Numbered(w, n.next_token)
      BY <1>1, <2>2 DEF NamesOK
    <3> QED BY <1>1, <1>3, <3>1 DEF Numbered
  <2> QED BY <2>1, <2>2
<1>5. NamesOK(m)
  BY <1>1, <1>3, <1>4 DEF NamesOK
<1>6. \A w \in m.waiting \ n.waiting : w.token >= n.next_token /\ w \in m.outgoing
  BY <1>1, <1>2, <1>3
<1>7. \A w \in n.waiting \ m.waiting : lookup \in m.waiting /\ lookup.request = w.request /\ lookup \in m.outgoing
  BY <1>1, <1>2
<1>8. Asks(n, m)
  BY <1>1, <1>3, <1>5, <1>6, <1>7 DEF Asks
<1> QED BY <1>1, <1>2, <1>3, <1>8 DEF m

LEMMA AskStep ==
  ASSUME NEW n, NEW card, NEW s, NEW externals, NamesOK(n), CardOK(card)
  PROVE  Asks(n, Ask(n, card, s, externals)) /\ CardOK(Ask(n, card, s, externals).card)
<1> DEFINE request == RequestFor(s, card.origin, externals)
           kept == {a \in n.answers : a.request = request}
           waiting == \E w \in n.waiting : w.request = request
           answer == IF kept = {} THEN Waiting ELSE (CHOOSE a \in kept : TRUE).resolution
           asking == [card EXCEPT !.request = request, !.answer = answer]
           shown == [n EXCEPT !.card = asking]
           alone == [card EXCEPT !.answer = Local]
           m == Ask(n, card, s, externals)
<1>1. m = CASE request = None -> [n EXCEPT !.card = alone]
            [] request # None /\ (kept # {} \/ waiting) -> shown
            [] OTHER -> Issue(shown, request)
  BY DEF Ask
<1>2. request = None \/ request.kind = "Definition"
  BY DEF RequestFor, DefinitionRequest
<1>3. answer.target \in Places
  <2>1. CASE kept = {}
    BY <2>1 DEF Waiting, Places
  <2>2. CASE kept # {}
    <3>1. (CHOOSE a \in kept : TRUE) \in kept
      BY <2>2
    <3> QED BY <2>2, <3>1 DEF NamesOK
  <2> QED BY <2>1, <2>2
<1> HIDE DEF request, answer
<1>4. CardOK(asking)
  BY <1>3 DEF CardOK, CardFields
<1>5. CardOK(alone)
  BY DEF CardOK, CardFields, Local, Places
<1> HIDE DEF asking, alone
<1>6. \A c : CardOK(c) => Asks(n, [n EXCEPT !.card = c]) /\ [n EXCEPT !.card = c].card = c
  <2> SUFFICES ASSUME NEW c, CardOK(c) PROVE Asks(n, [n EXCEPT !.card = c]) /\ [n EXCEPT !.card = c].card = c
    OBVIOUS
  <2> DEFINE l == [n EXCEPT !.card = c]
  <2>1. /\ DOMAIN l = NameFields /\ l.card = c /\ l.answers = n.answers
        /\ l.waiting = n.waiting /\ l.outgoing = n.outgoing /\ l.next_token = n.next_token
    BY DEF NamesOK, NameFields
  <2> HIDE DEF l
  <2>2. Asks(n, l)
    BY <2>1, CardStep
  <2> QED BY <2>1, <2>2 DEF l
<1>7. CASE request = None
  BY <1>1, <1>5, <1>6, <1>7
<1>8. CASE request # None /\ (kept # {} \/ waiting)
  BY <1>1, <1>4, <1>6, <1>8
<1>9. CASE request # None /\ ~(kept # {} \/ waiting)
  <2>1. m = Issue(shown, request)
    BY <1>1, <1>9
  <2>2. Asks(n, shown) /\ shown.card = asking
    BY <1>4, <1>6
  <2>3. NamesOK(shown)
    BY <2>2 DEF Asks
  <2> HIDE DEF shown, m
  <2>4. Asks(shown, Issue(shown, request)) /\ Issue(shown, request).card = shown.card
    BY <1>2, <1>9, <2>3, IssueStep
  <2>5. Asks(n, m) /\ m.card = asking
    BY <2>1, <2>2, <2>4, AsksTransitive
  <2> QED BY <1>4, <2>5 DEF m
<1> QED BY <1>7, <1>8, <1>9

LEMMA ShowCardStep ==
  ASSUME NEW n, NEW card, NEW s, NEW enabled, NEW externals, NamesOK(n), CardOK(card)
  PROVE  Asks(n, ShowCard(n, card, s, enabled, externals))
<1> DEFINE m == [n EXCEPT !.card = card]
<1>1. /\ DOMAIN m = NameFields /\ m.card = card /\ m.answers = n.answers
      /\ m.waiting = n.waiting /\ m.outgoing = n.outgoing /\ m.next_token = n.next_token
  BY DEF NamesOK, NameFields
<1> HIDE DEF m
<1>2. Asks(n, m)
  BY <1>1, CardStep
<1> QED BY <1>2, AskStep DEF ShowCard, m

LEMMA ActivateStep ==
  ASSUME NEW n, NEW s, NEW enabled, NEW externals, NamesOK(n), n.card # None
  PROVE  Asks(n, Activate(n, s, enabled, externals)) /\ CardOK(Activate(n, s, enabled, externals).card)
<1> DEFINE retry == enabled /\ n.card.answer = Failed /\ Target(n.card) = None
           l == IF retry THEN Ask(n, n.card, s, externals) ELSE n
           m == [l EXCEPT !.card.following = l.card.answer = Waiting]
<1>1. Activate(n, s, enabled, externals) = m
  BY DEF Activate
<1>2. CardOK(n.card)
  BY DEF NamesOK
<1>3. Asks(n, l) /\ CardOK(l.card)
  BY <1>2, AskStep, AsksReflexive
<1> HIDE DEF l
<1>4. NamesOK(l)
  BY <1>3 DEF Asks
<1>5. /\ DOMAIN m = NameFields /\ m.card = [l.card EXCEPT !.following = l.card.answer = Waiting]
      /\ m.answers = l.answers /\ m.waiting = l.waiting /\ m.outgoing = l.outgoing /\ m.next_token = l.next_token
  BY <1>4 DEF NamesOK, NameFields
<1> HIDE DEF m
<1>6. CardOK(m.card)
  BY <1>3, <1>5 DEF CardOK, CardFields
<1>7. Asks(l, m)
  BY <1>4, <1>5, <1>6, CardStep
<1> QED BY <1>1, <1>3, <1>6, <1>7, AsksTransitive

-----------------------------------------------------------------------------
(* References and answers in the loop.                                     *)

\* The same review of the same document.
SameReview(s, t) ==
  t.draft = s.draft /\ t.document = s.document /\ t.comments = s.comments /\ t.next_id = s.next_id

\* A reference is asked for, or says that it cannot be read.
LEMMA AskSourceStep ==
  ASSUME NEW s, NEW n, NEW enabled, NEW pool, Good(s), NamesOK(n)
  PROVE  /\ Good(AskSource(s, n, enabled).s) /\ SameReview(s, AskSource(s, n, enabled).s)
         /\ Asks(n, AskSource(s, n, enabled).n) /\ Awaits(AskSource(s, n, enabled).s, AskSource(s, n, enabled).n, pool)
         /\ n.waiting = {} => \A w \in AskSource(s, n, enabled).n.waiting : w.token >= n.next_token
<1> DEFINE r == AskSource(s, n, enabled)
           path == ReferencePath(s)
<1>0. ReferenceOK(s.reference)
  BY DEF Good, Framed
<1>1. CASE s.reference = None
  <2>1. r.s = s /\ r.n = n
    BY <1>1 DEF AskSource
  <2> QED BY <1>1, <2>1, AsksReflexive DEF SameReview, Awaits, IsPending
<1>2. CASE s.reference # None /\ enabled
  <2>1. r.s = s /\ r.n = Issue(n, SourceRequest(path))
    BY <1>2 DEF AskSource
  <2>2. SourceRequest(path).kind = "Source"
    BY DEF SourceRequest
  <2>3. IsPending(s) => path = s.reference.target.path
    BY <1>0, ReferenceTypes
  <2> HIDE DEF r, path
  <2>4. /\ Asks(n, r.n) /\ \E w \in r.n.waiting : w.request = SourceRequest(path) /\ w \in r.n.outgoing
        /\ n.waiting = {} => \A w \in r.n.waiting : w.token >= n.next_token
    BY <2>1, <2>2, IssueStep
  <2>5. Awaits(s, r.n, pool)
    BY <2>3, <2>4 DEF Awaits
  <2> QED BY <2>1, <2>4, <2>5 DEF SameReview, r
<1>3. CASE s.reference # None /\ ~enabled
  <2>1. r.s = ReferenceFailed(s, path) /\ r.n = n
    BY <1>3 DEF AskSource
  <2> HIDE DEF r
  <2>2. Good(r.s) /\ SameReview(s, r.s) /\ Keeps(s, r.s) /\ (IsPending(s) => r.s.reference.error)
    BY <2>1, ReferenceFailedSteps DEF SameReview
  <2>3. Awaits(r.s, n, pool)
    BY <2>2 DEF Awaits, Keeps, IsPending
  <2>4. Asks(n, n)
    BY AsksReflexive
  <2> QED BY <2>1, <2>2, <2>3, <2>4 DEF r
<1> QED BY <1>1, <1>2, <1>3

\* Once a jump or a visit is over, what it left pending is asked for.
LEMMA ArrivedStep ==
  ASSUME NEW s, NEW n, NEW m, NEW shown, NEW pool, Awaits(s, n, pool), NamesOK(n), Asks(n, m), Steps(s, shown.s),
         shown.ok \/ Keeps(s, shown.s)
  PROVE  /\ Steps(s, Arrived(shown, m).s) /\ Asks(n, Arrived(shown, m).n)
         /\ Awaits(Arrived(shown, m).s, Arrived(shown, m).n, pool)
<1> DEFINE r == Arrived(shown, m)
<1>0. NamesOK(m)
  BY DEF Asks
<1>1. CASE ~shown.ok
  <2>1. r.s = shown.s /\ r.n = m
    BY <1>1 DEF Arrived
  <2> QED BY <1>1, <2>1, AwaitsKept
<1>2. CASE shown.ok /\ ~IsPending(shown.s)
  <2>1. r.s = shown.s /\ r.n = CloseCard(m)
    BY <1>2 DEF Arrived, Navigated
  <2>2. Asks(n, CloseCard(m))
    BY <1>0, CloseCardStep, AsksTransitive
  <2>3. Awaits(shown.s, CloseCard(m), pool)
    BY <1>2 DEF Awaits
  <2> QED BY <2>1, <2>2, <2>3
<1>3. CASE shown.ok /\ IsPending(shown.s)
  <2> DEFINE l == CloseCard(m)
  <2>1. r = AskSource(shown.s, l, Capable)
    BY <1>3 DEF Arrived, Navigated
  <2>2. Asks(n, l)
    BY <1>0, CloseCardStep, AsksTransitive
  <2> HIDE DEF l, r
  <2>3. NamesOK(l)
    BY <2>2 DEF Asks
  <2>4. Good(shown.s)
    BY DEF Steps
  <2>5. Good(r.s) /\ SameReview(shown.s, r.s) /\ Asks(l, r.n) /\ Awaits(r.s, r.n, pool)
    BY <2>1, <2>3, <2>4, AskSourceStep
  <2>6. Steps(s, r.s)
    BY <2>5 DEF Steps, SameReview
  <2>7. Asks(n, r.n)
    BY <2>2, <2>5, AsksTransitive
  <2> QED BY <2>5, <2>6, <2>7 DEF r
<1> QED BY <1>1, <1>2, <1>3

\* Another document: nothing asked before counts, and a reference is asked for again.
LEMMA DocumentChangedStep ==
  ASSUME NEW s, NEW n, NEW enabled, NEW pool, Good(s), NamesOK(n)
  PROVE  /\ Good(DocumentChanged(s, n, enabled).s) /\ SameReview(s, DocumentChanged(s, n, enabled).s)
         /\ NamesOK(DocumentChanged(s, n, enabled).n)
         /\ DocumentChanged(s, n, enabled).n.next_token >= n.next_token
         /\ n.outgoing \subseteq DocumentChanged(s, n, enabled).n.outgoing
         /\ \A w \in DocumentChanged(s, n, enabled).n.waiting : w.token >= n.next_token
         /\ Awaits(DocumentChanged(s, n, enabled).s, DocumentChanged(s, n, enabled).n, pool)
<1> DEFINE l == [n EXCEPT !.card = None, !.answers = {}, !.waiting = {}]
           r == DocumentChanged(s, n, enabled)
<1>1. r = AskSource(s, l, enabled)
  BY DEF DocumentChanged
<1>2. /\ DOMAIN l = NameFields /\ l.card = None /\ l.answers = {} /\ l.waiting = {}
      /\ l.outgoing = n.outgoing /\ l.next_token = n.next_token
  BY DEF NamesOK, NameFields
<1> HIDE DEF l, r
<1>3. NamesOK(l)
  BY <1>2 DEF NamesOK
<1>4. Good(r.s) /\ SameReview(s, r.s) /\ Asks(l, r.n) /\ Awaits(r.s, r.n, pool)
      /\ \A w \in r.n.waiting : w.token >= l.next_token
  BY <1>1, <1>2, <1>3, AskSourceStep
<1> QED BY <1>2, <1>4 DEF Asks, r

\* The file of a reference was read, or cannot be: nothing changes under a draft, which has no reference.
LEMMA FinishSourceStep ==
  ASSUME NEW s, NEW lookup, NEW count, Good(s), s.draft = None \/ s.reference = None, count \in Nat \cup {None}
  PROVE  /\ Good(FinishSource(s, lookup, count)) /\ SameReview(s, FinishSource(s, lookup, count))
         /\ Keeps(s, FinishSource(s, lookup, count))
         /\ s.reference = None => FinishSource(s, lookup, count) = s
         /\ IsPending(s) /\ lookup.request.path = s.reference.target.path =>
              LET t == FinishSource(s, lookup, count) IN IsPending(t) => t.reference.error
<1> DEFINE path == lookup.request.path
           t == FinishSource(s, lookup, count)
<1>0. IsPending(s) => ReferencePath(s) = s.reference.target.path
  BY ReferenceTypes DEF Good, Framed
<1>1. CASE count = None
  <2>1. t = ReferenceFailed(s, path)
    BY <1>1 DEF FinishSource
  <2> QED BY <1>0, <2>1, ReferenceFailedSteps DEF SameReview
<1>2. CASE count # None
  <2>1. t = OpenReference(s, path, count)
    BY <1>2 DEF FinishSource
  <2>2. CASE s.reference = None
    <3>1. t = s
      BY <2>1, <2>2 DEF OpenReference
    <3> QED BY <2>2, <3>1 DEF SameReview, Keeps, IsPending
  <2>3. CASE s.reference # None
    <3> HIDE DEF t
    <3>1. Steps(s, t) /\ Keeps(s, t) /\ (IsPending(s) /\ path = ReferencePath(s) => ~IsPending(t))
      BY <1>2, <2>1, <2>3, OpenReferenceSteps
    <3> QED BY <1>0, <2>3, <3>1 DEF Steps, SameReview, t
  <2> QED BY <2>2, <2>3
<1> QED BY <1>1, <1>2

\* Answering the card and keeping the answer.
LEMMA FinishDefinitionStep ==
  ASSUME NEW n, NEW lookup, NEW resolution, NamesOK(n), resolution.target \in Places
  PROVE  /\ NamesOK(FinishDefinition(n, lookup, resolution))
         /\ FinishDefinition(n, lookup, resolution).waiting = n.waiting
         /\ FinishDefinition(n, lookup, resolution).outgoing = n.outgoing
         /\ FinishDefinition(n, lookup, resolution).next_token = n.next_token
<1> DEFINE card == AnswerCard(n.card, lookup, resolution)
           kept == IF resolution.status = "Failed" THEN n.answers
                   ELSE {a \in n.answers : a.request # lookup.request}
                        \cup {[request |-> lookup.request, resolution |-> resolution]}
           m == FinishDefinition(n, lookup, resolution)
<1>1. m = [n EXCEPT !.card = card, !.answers = kept]
  BY DEF FinishDefinition, NamesOK, NameFields
<1>2. card # None => CardOK(card)
  BY DEF AnswerCard, NamesOK, CardOK, CardFields
<1>3. \A a \in kept : a.resolution.target \in Places
  BY DEF NamesOK
<1> HIDE DEF m, kept, card
<1>4. /\ DOMAIN m = NameFields /\ m.card = card /\ m.answers = kept
      /\ m.waiting = n.waiting /\ m.outgoing = n.outgoing /\ m.next_token = n.next_token
  BY <1>1 DEF NamesOK, NameFields
<1> QED BY <1>2, <1>3, <1>4 DEF NamesOK, m

LEMMA FollowedType ==
  ASSUME NEW n, NEW lookup, NamesOK(n)
  PROVE  Followed(n, lookup) \in Places
BY DEF Followed, Target, NamesOK, CardOK, Places

-----------------------------------------------------------------------------
(* The invariant, and drafts.                                              *)

\* A draft is on a line that is shown, outside the source view; a new comment has a number left.
DraftOK(s) ==
  s.draft # None =>
    /\ DOMAIN s.draft = {"anchor", "editing"} /\ s.draft.anchor \in Anchors(s.document)
    /\ \E row \in Rows(s) : row.anchor = s.draft.anchor
    /\ s.source_view = None /\ s.reference = None
    /\ s.draft.editing = None => s.next_id < MaxComments

SessionOK(s) == Good(s) /\ ReviewOK(s) /\ DraftOK(s)

\* What a lookup has for a result.
ReplyOK(reply, next) ==
  /\ Numbered(reply.lookup, next)
  /\ reply.lookup.request.kind = "Source" => reply.result \in Nat \cup {None}
  /\ reply.lookup.request.kind = "Definition" => reply.result.target \in Places

\* The lookups that the client has, or has answered.
Lookups(replies) == {replies[i].lookup : i \in DOMAIN replies}
Pool == asked \cup Lookups(answered)

\* The snapshots: those that came, the one that waits and the one installed.
SnapshotsOK ==
  /\ DOMAIN client = {"snapshot", "number", "connected"}
  /\ client.number \in 0..MaxSnapshots /\ client.snapshot \in Documents \cup {None}
  /\ client.number > 0 => client.snapshot \in Documents
  /\ applied.number \in 0..client.number
  /\ deferred # None => deferred.document \in Documents /\ deferred.number \in 1..client.number
  /\ installed.number \in 0..client.number /\ installed.token \in 0..names.next_token

\* Lookups are numbered, and those waited for were asked since the document was installed.
LookupsOK ==
  /\ NamesOK(names) /\ Awaits(session, names, Pool)
  /\ \A w \in names.waiting : w.token >= installed.token
  /\ \A w \in asked : Numbered(w, names.next_token)
  /\ answered \in Seq(ToSet(answered)) /\ \A i \in DOMAIN answered : ReplyOK(answered[i], names.next_token)

LoopOK ==
  /\ overlay \in {None, "Prompt", "Picker"} /\ operation \in {"idle", "pending", "failed"}
  /\ stage \in {"replies", "input", "done"} /\ commands \in 0..MaxCommands

Invariant == SessionOK(session) /\ SnapshotsOK /\ LookupsOK /\ LoopOK

Overlays == {None, "Prompt", "Picker"}

\* A session of which the row, the rows and the reference are those of another keeps what is shown of it.
LEMMA RedraftedStep ==
  ASSUME NEW s, NEW t, Good(s), DOMAIN t = SessionFields, t.row = s.row, t.file = s.file,
         t.document = s.document, t.source_view = s.source_view, t.reference = s.reference,
         t.expansions = s.expansions, t.full_files = s.full_files, t.collapsed_files = s.collapsed_files,
         t.back = s.back, t.forward = s.forward
  PROVE  Good(t) /\ Rows(t) = Rows(s)
<1>1. SameView(s, t) /\ (IsOpen(t) <=> IsOpen(s))
  BY DEF SameView, Displayed, IsOpen
<1>2. Framed(t)
  BY <1>1 DEF Good, Framed, SameView
<1>3. Good(t)
  BY <1>1, <1>2, GoodInSameView DEF Good
<1> QED BY <1>1, <1>3, SameRows

\* An operation that ends a draft, of a review that it leaves alone.
LEMMA StepsAreOK ==
  ASSUME NEW s, NEW t, SessionOK(s), Steps(s, t)
  PROVE  SessionOK(t) /\ t.document = s.document /\ t.comments = s.comments
BY DEF SessionOK, Steps, ReviewOK, DraftOK

LEMMA SelectedRow ==
  ASSUME NEW s, Good(s), s.row # None
  PROVE  s.row \in Rows(s)
BY DEF Good, RowShown

\* The row of a line of the diff has an anchor of the document.
LEMMA AnchoredRow ==
  ASSUME NEW s, Good(s), s.reference = None, s.row \in Rows(s), s.row.anchor # None
  PROVE  s.row.anchor \in Anchors(s.document)
<1>2. s.document \in Documents \cup {NoDocument} /\ ReferenceOK(s.reference)
  BY DEF Good, Framed
<1>3. s.row.file \in DOMAIN Displayed(s) /\ OnItsLine(s.row, Displayed(s)[s.row.file])
  BY <1>2, RowsTypes
<1>4. Displayed(s) = s.document.files
  BY <1>2, DisplayedTypes DEF IsOpen
<1> QED BY <1>3, <1>4, LinesAreAnchored

\* A comment is begun or changed on the selected line.
LEMMA BeginDraftStep ==
  ASSUME NEW s, SessionOK(s), ~ShowsSource(s), s.row \in Rows(s), s.row.anchor # None, NEW editing,
         editing = None => s.next_id < MaxComments
  PROVE  /\ SessionOK(BeginDraft(s, editing)) /\ BeginDraft(s, editing).document = s.document
         /\ BeginDraft(s, editing).comments = s.comments /\ BeginDraft(s, editing).reference = s.reference
<1> DEFINE draft == [anchor |-> s.row.anchor, editing |-> editing]
           t == BeginDraft(s, editing)
<1>0. DOMAIN s = SessionFields /\ Good(s)
  BY DEF SessionOK, Good, Framed
<1>1. /\ DOMAIN draft = {"anchor", "editing"} /\ draft.anchor = s.row.anchor /\ draft.editing = editing
  OBVIOUS
<1>2. t = [s EXCEPT !.draft = draft]
  BY DEF BeginDraft
<1> HIDE DEF draft, t
<1>3. /\ DOMAIN t = SessionFields /\ t.row = s.row /\ t.file = s.file /\ t.document = s.document
      /\ t.source_view = s.source_view /\ t.reference = s.reference /\ t.expansions = s.expansions
      /\ t.full_files = s.full_files /\ t.collapsed_files = s.collapsed_files /\ t.back = s.back
      /\ t.forward = s.forward /\ t.comments = s.comments /\ t.next_id = s.next_id /\ t.draft = draft
  BY <1>0, <1>2 DEF SessionFields
<1>4. Good(t) /\ Rows(t) = Rows(s)
  BY <1>0, <1>3, RedraftedStep
<1>5. s.source_view = None /\ s.reference = None
  BY DEF ShowsSource
<1>6. s.row.anchor \in Anchors(s.document)
  BY <1>0, <1>5, AnchoredRow
<1>7. DraftOK(t)
  BY <1>1, <1>3, <1>4, <1>5, <1>6 DEF DraftOK
<1>8. ReviewOK(t)
  BY <1>3 DEF SessionOK, ReviewOK
<1> QED BY <1>3, <1>4, <1>7, <1>8 DEF SessionOK, t

\* A draft is given up.
LEMMA CancelDraftStep ==
  ASSUME NEW s, SessionOK(s)
  PROVE  /\ SessionOK(CancelDraft(s)) /\ CancelDraft(s).document = s.document /\ CancelDraft(s).draft = None
         /\ CancelDraft(s).comments = s.comments /\ CancelDraft(s).reference = s.reference
         /\ CancelDraft(s).next_id = s.next_id /\ DOMAIN CancelDraft(s) = SessionFields
<1> DEFINE t == CancelDraft(s)
<1>0. DOMAIN s = SessionFields /\ Good(s)
  BY DEF SessionOK, Good, Framed
<1>1. t = [s EXCEPT !.draft = None]
  BY DEF CancelDraft
<1> HIDE DEF t
<1>3. /\ DOMAIN t = SessionFields /\ t.row = s.row /\ t.file = s.file /\ t.document = s.document
      /\ t.source_view = s.source_view /\ t.reference = s.reference /\ t.expansions = s.expansions
      /\ t.full_files = s.full_files /\ t.collapsed_files = s.collapsed_files /\ t.back = s.back
      /\ t.forward = s.forward /\ t.comments = s.comments /\ t.next_id = s.next_id /\ t.draft = None
  BY <1>0, <1>1 DEF SessionFields
<1>4. Good(t)
  BY <1>0, <1>3, RedraftedStep
<1> QED BY <1>3, <1>4 DEF SessionOK, ReviewOK, DraftOK, t

\* A comment of the draft is added, or one is changed.
LEMMA SubmitDraftStep ==
  ASSUME NEW s, SessionOK(s), s.draft # None
  PROVE  /\ SessionOK(SubmitDraft(s)) /\ SubmitDraft(s).document = s.document
         /\ s.comments \subseteq SubmitDraft(s).comments /\ SubmitDraft(s).reference = s.reference
<1> DEFINE c == [id |-> s.next_id, anchor |-> s.draft.anchor, commit |-> s.document.target.commit, outdated |-> FALSE]
           u == CancelDraft(s)
           t == SubmitDraft(s)
<1>0. /\ SessionOK(u) /\ u.document = s.document /\ u.comments = s.comments /\ u.reference = s.reference
      /\ u.next_id = s.next_id /\ DOMAIN u = SessionFields /\ u.draft = None
  BY CancelDraftStep
<1>1. /\ DOMAIN c = {"id", "anchor", "commit", "outdated"} /\ c.id = s.next_id /\ c.anchor = s.draft.anchor
      /\ c.commit = s.document.target.commit /\ c.outdated = FALSE
  OBVIOUS
<1>2. t = IF s.draft.editing # None THEN u ELSE [u EXCEPT !.comments = @ \cup {c}, !.next_id = @ + 1]
  BY DEF SubmitDraft
<1> HIDE DEF c, u, t
<1>3. CASE s.draft.editing # None
  BY <1>0, <1>2, <1>3 DEF t
<1>4. CASE s.draft.editing = None
  <2>1. /\ DOMAIN t = SessionFields /\ t.row = u.row /\ t.file = u.file /\ t.document = u.document
        /\ t.source_view = u.source_view /\ t.reference = u.reference /\ t.expansions = u.expansions
        /\ t.full_files = u.full_files /\ t.collapsed_files = u.collapsed_files /\ t.back = u.back
        /\ t.forward = u.forward /\ t.comments = u.comments \cup {c} /\ t.next_id = u.next_id + 1 /\ t.draft = None
    BY <1>0, <1>2, <1>4 DEF SessionFields
  <2>2. Good(t)
    BY <1>0, <2>1, RedraftedStep DEF SessionOK
  <2>3. /\ s.draft.anchor \in Anchors(s.document) /\ s.next_id < MaxComments /\ s.next_id \in 0..MaxComments
        /\ s.document \in Documents \cup {NoDocument}
    BY <1>4 DEF SessionOK, DraftOK, ReviewOK, Good, Framed
  <2>4. s.draft.anchor \in LineAnchors
    BY <2>3, AnchorsAre
  <2>5. s.next_id \in Nat /\ s.next_id + 1 \in 0..MaxComments
    BY ONLY <2>3, ConstantsAssumption DEF ConstantsAssumption
  <2>6. CommentOK(c) /\ c.id < t.next_id /\ OnLine(c, t.document)
    <3>1. c.outdated \in BOOLEAN /\ c.id \in Nat /\ c.anchor \in LineAnchors
      BY <1>1, <2>4, <2>5
    <3>2. t.document = s.document /\ t.next_id = s.next_id + 1
      BY <1>0, <2>1
    <3>3. OnLine(c, s.document)
      BY <1>1, <2>3 DEF OnLine
    <3>4. c.id < t.next_id
      BY <1>1, <2>5, <3>2
    <3> QED BY <1>1, <3>1, <3>2, <3>3, <3>4 DEF CommentOK
  <2>7. \A o \in u.comments : CommentOK(o) /\ o.id < t.next_id /\ OnLine(o, t.document)
    BY <1>0, <2>1, <2>5 DEF SessionOK, ReviewOK, CommentOK
  <2>8. ReviewOK(t)
    BY <1>0, <2>1, <2>5, <2>6, <2>7 DEF ReviewOK
  <2> QED BY <1>0, <2>1, <2>2, <2>8 DEF SessionOK, DraftOK, t
<1> QED BY <1>3, <1>4

\* A comment is taken away.
LEMMA RemoveCommentStep ==
  ASSUME NEW s, SessionOK(s), s.draft = None, NEW c
  PROVE  /\ SessionOK(RemoveComment(s, c)) /\ RemoveComment(s, c).document = s.document
         /\ RemoveComment(s, c).reference = s.reference
<1> DEFINE t == RemoveComment(s, c)
<1>0. DOMAIN s = SessionFields /\ Good(s)
  BY DEF SessionOK, Good, Framed
<1>1. t = [s EXCEPT !.comments = @ \ {c}]
  BY DEF RemoveComment
<1> HIDE DEF t
<1>3. /\ DOMAIN t = SessionFields /\ t.row = s.row /\ t.file = s.file /\ t.document = s.document
      /\ t.source_view = s.source_view /\ t.reference = s.reference /\ t.expansions = s.expansions
      /\ t.full_files = s.full_files /\ t.collapsed_files = s.collapsed_files /\ t.back = s.back
      /\ t.forward = s.forward /\ t.comments = s.comments \ {c} /\ t.next_id = s.next_id /\ t.draft = s.draft
  BY <1>0, <1>1 DEF SessionFields
<1>4. Good(t)
  BY <1>0, <1>3, RedraftedStep
<1>5. ReviewOK(t)
  BY <1>3 DEF SessionOK, ReviewOK
<1> QED BY <1>3, <1>4, <1>5 DEF SessionOK, DraftOK, t

-----------------------------------------------------------------------------
(* The end of a command.                                                   *)

\* A document is installed: what was on the review stays, and a reference is asked for again.
LEMMA InstallStep ==
  ASSUME NEW s, NEW n, NEW d \in Documents, NEW enabled, NEW pool, SessionOK(s), s.draft = None, NamesOK(n)
  PROVE  LET r == DocumentChanged(SetDocument(s, d), n, enabled)
         IN /\ SessionOK(r.s) /\ Outlived(s.comments, r.s.comments, r.s.document)
            /\ NamesOK(r.n) /\ r.n.next_token >= n.next_token /\ n.outgoing \subseteq r.n.outgoing
            /\ \A w \in r.n.waiting : w.token >= n.next_token
            /\ Awaits(r.s, r.n, pool)
<1> DEFINE t == SetDocument(s, d)
           r == DocumentChanged(t, n, enabled)
<1>1. Good(t) /\ ReviewOK(t) /\ t.draft = None /\ t.document = d /\ Outlived(s.comments, t.comments, d)
  BY SetDocumentSteps DEF SessionOK
<1> HIDE DEF t
<1>2. /\ Good(r.s) /\ SameReview(t, r.s) /\ NamesOK(r.n) /\ r.n.next_token >= n.next_token
      /\ n.outgoing \subseteq r.n.outgoing /\ \A w \in r.n.waiting : w.token >= n.next_token /\ Awaits(r.s, r.n, pool)
      /\ Awaits(r.s, r.n, pool)
  BY <1>1, DocumentChangedStep
<1> HIDE DEF r
<1>3. ReviewOK(r.s) /\ DraftOK(r.s) /\ r.s.document = d /\ r.s.comments = t.comments
  BY <1>1, <1>2 DEF SameReview, ReviewOK, DraftOK
<1>4. SessionOK(r.s) /\ Outlived(s.comments, r.s.comments, r.s.document)
  BY <1>1, <1>2, <1>3 DEF SessionOK
<1> QED BY <1>2, <1>4 DEF r, t

\* What a command or an answer leaves of the invariant, `pool` the lookups that may still be answered.
Leaves(pool) ==
  /\ SessionOK(session') /\ NamesOK(names') /\ Awaits(session', names', pool)
  /\ names'.next_token >= names.next_token
  /\ \A w \in names'.waiting : w.token >= installed'.token
  /\ overlay' \in Overlays
  /\ deferred' # None => deferred'.document \in Documents /\ deferred'.number \in 1..client.number
  /\ installed'.number \in 0..client.number /\ installed'.token \in 0..names'.next_token

Outlives == installed' # installed => Outlived(session.comments, session'.comments, session'.document)

\* Tokens of lookups are at least the one of the document installed.
Since(n) == NamesOK(n) /\ n.next_token >= names.next_token /\ \A w \in n.waiting : w.token >= installed.token

LEMMA AsksSince ==
  ASSUME Invariant, NEW n, NEW m, Since(n), Asks(n, m)
  PROVE  Since(m)
<1>1. installed.token \in 0..names.next_token /\ names.next_token \in Nat
  BY DEF Invariant, SnapshotsOK, LookupsOK, NamesOK
<1>2. NamesOK(m) /\ m.next_token \in Nat /\ n.next_token \in Nat /\ m.next_token >= n.next_token
  BY DEF Since, Asks, NamesOK
<1>3. ASSUME NEW w \in m.waiting
      PROVE  w.token >= installed.token
  <2>1. w.token \in Nat
    BY <1>2 DEF NamesOK, Numbered
  <2>2. w \in n.waiting \/ w.token >= n.next_token
    BY DEF Asks
  <2> QED BY <1>1, <1>2, <2>1, <2>2 DEF Since
<1> QED BY <1>1, <1>2, <1>3 DEF Since

LEMMA NamesSince ==
  ASSUME Invariant
  PROVE  Since(names) /\ NamesOK(names) /\ Awaits(session, names, Pool)
BY DEF Invariant, LookupsOK, Since, NamesOK

\* The end of a command, with or without a document that waited.
LEMMA HandledStep ==
  ASSUME Invariant, NEW s, NEW n, NEW shown \in Overlays, NEW pool,
         SessionOK(s), Since(n), Awaits(s, n, pool), Handled(s, n, shown)
  PROVE  Leaves(pool) /\ (session.comments \subseteq s.comments => Outlives)
<1> DEFINE due == deferred # None /\ Browsing(s, shown)
           r == DocumentChanged(SetDocument(s, deferred.document), n, Capable)
<1>0. /\ NamesOK(n) /\ n.next_token \in Nat /\ names.next_token \in Nat /\ n.next_token >= names.next_token
      /\ client.number \in Nat /\ installed.number \in 0..client.number /\ installed.token \in 0..names.next_token
      /\ deferred # None => deferred.document \in Documents /\ deferred.number \in 1..client.number
  <2>1. NamesOK(n) /\ n.next_token >= names.next_token /\ NamesOK(names)
    BY DEF Since, Invariant, LookupsOK
  <2>2. client.number \in 0..MaxSnapshots /\ MaxSnapshots \in Nat
    BY ConstantsAssumption DEF Invariant, SnapshotsOK, ConstantsAssumption
  <2> QED BY <2>1, <2>2 DEF Invariant, SnapshotsOK, NamesOK
<1>1. overlay' = shown
  BY DEF Handled
<1>2. CASE ~due
  <2>1. session' = s /\ names' = n /\ deferred' = deferred /\ installed' = installed
    BY <1>2 DEF Handled, Become
  <2>2. installed'.token \in 0..names'.next_token
    BY <1>0, <2>1
  <2>3. \A w \in names'.waiting : w.token >= installed'.token
    BY <2>1 DEF Since
  <2> QED BY <1>0, <1>1, <2>1, <2>2, <2>3 DEF Leaves, Outlives
<1>3. CASE due
  <2>1. session' = r.s /\ names' = r.n /\ deferred' = None /\ installed' = Installed(deferred.number)
    BY <1>3 DEF Handled, Become
  <2>2. s.draft = None /\ deferred.document \in Documents
    BY <1>0, <1>3 DEF Browsing
  <2>3. /\ SessionOK(r.s) /\ Outlived(s.comments, r.s.comments, r.s.document)
        /\ NamesOK(r.n) /\ r.n.next_token >= n.next_token /\ \A w \in r.n.waiting : w.token >= n.next_token
        /\ Awaits(r.s, r.n, pool)
    BY <1>0, <2>2, InstallStep
  <2> HIDE DEF r
  <2>4. installed'.number = deferred.number /\ installed'.token = names.next_token
    BY <2>1 DEF Installed
  <2>5. r.n.next_token \in Nat /\ names.next_token \in 0..r.n.next_token
    BY <1>0, <2>3 DEF NamesOK
  <2>6. \A w \in r.n.waiting : w.token >= names.next_token
    BY <1>0, <2>3 DEF NamesOK, Numbered
  <2>7. session.comments \subseteq s.comments => Outlived(session.comments, r.s.comments, r.s.document)
    BY <2>3 DEF Outlived
  <2>8. installed'.number \in 0..client.number
    BY <1>0, <1>3, <2>4
  <2>9. Leaves(pool)
    BY <1>1, <2>1, <2>3, <2>4, <2>5, <2>6, <2>8 DEF Leaves
  <2> QED BY <2>1, <2>7, <2>9 DEF Outlives
<1> QED BY <1>2, <1>3

\* A command that ends with lookups added to those there were.
LEMMA CommandStep ==
  ASSUME Invariant, NEW s, NEW n, NEW shown \in Overlays,
         SessionOK(s), Asks(names, n), Awaits(s, n, Pool), Handled(s, n, shown)
  PROVE  Leaves(Pool) /\ (session.comments \subseteq s.comments => Outlives)
BY NamesSince, AsksSince, HandledStep

\* A command that closes the card and leaves what is waited for.
LEMMA CloseStep ==
  ASSUME Invariant, NEW s, NEW shown \in Overlays, SessionOK(s), Keeps(session, s), Handled(s, CloseCard(names), shown)
  PROVE  Leaves(Pool) /\ (session.comments \subseteq s.comments => Outlives)
<1>1. Asks(names, CloseCard(names))
  BY NamesSince, CloseCardStep
<1>2. Awaits(s, CloseCard(names), Pool)
  BY <1>1, NamesSince, AwaitsKept
<1> QED BY <1>1, <1>2, CommandStep

\* One that moves in the document.
LEMMA MoveStep ==
  ASSUME Invariant, NEW s, Steps(session, s), Keeps(session, s), Handled(s, CloseCard(names), None)
  PROVE  Leaves(Pool) /\ Outlives
<1>1. SessionOK(session) /\ None \in Overlays
  BY DEF Invariant, LoopOK, Overlays
<1>2. SessionOK(s) /\ s.comments = session.comments
  BY <1>1, StepsAreOK
<1> QED BY <1>1, <1>2, CloseStep

\* A jump, from lookups some of which may have been settled.
LEMMA JumpStep ==
  ASSUME Invariant, NEW n, NEW m, NEW pool, Since(n), Awaits(session, n, pool), Asks(n, m),
         NEW target \in Locations, Jump(session, m, target)
  PROVE  Leaves(pool) /\ Outlives
<1> DEFINE shown == JumpTo(session, target)
           r == Arrived(shown, m)
<1>1. SessionOK(session) /\ Good(session) /\ overlay \in Overlays
  BY DEF Invariant, SessionOK, LoopOK, Overlays
<1>2. NamesOK(n)
  BY DEF Since
<1>3. CASE Browsing(session, overlay)
  <2>1. Handled(r.s, r.n, overlay)
    BY <1>3 DEF Jump, Settled
  <2>2. Steps(session, shown.s) /\ (shown.ok \/ Keeps(session, shown.s))
    BY <1>1, <1>3, JumpSteps DEF Browsing
  <2> HIDE DEF shown
  <2>3. Steps(session, r.s) /\ Asks(n, r.n) /\ Awaits(r.s, r.n, pool)
    BY <1>2, <2>2, ArrivedStep
  <2> HIDE DEF r
  <2>4. SessionOK(r.s) /\ r.s.comments = session.comments
    BY <1>1, <2>3, StepsAreOK
  <2>5. Since(r.n)
    BY <2>3, AsksSince
  <2> QED BY <1>1, <2>1, <2>3, <2>4, <2>5, HandledStep
<1>4. CASE ~Browsing(session, overlay)
  <2>1. Handled(session, m, overlay)
    BY <1>4 DEF Jump, Settled
  <2>2. Since(m)
    BY AsksSince
  <2>3. Awaits(session, m, pool)
    BY AwaitsKept DEF Keeps
  <2> QED BY <1>1, <2>1, <2>2, <2>3, HandledStep
<1> QED BY <1>3, <1>4

-----------------------------------------------------------------------------
(* The reader's commands.                                                  *)

\* What the reader's commands need of the invariant.
LEMMA AtCommand ==
  ASSUME Invariant
  PROVE  /\ SessionOK(session) /\ Good(session) /\ Framed(session) /\ overlay \in Overlays /\ None \in Overlays
         /\ session.document \in Documents \cup {NoDocument} /\ ReferenceOK(session.reference)
BY DEF Invariant, LoopOK, Overlays, SessionOK, Good, Framed, Browsing

LEMMA StepsReflexive ==
  ASSUME NEW s, Good(s), s.draft = None
  PROVE  Steps(s, s) /\ Keeps(s, s)
BY DEF Steps, Keeps

LEMMA SelectStep ==
  ASSUME Invariant, Select
  PROVE  Leaves(Pool) /\ Outlives
<1>1. PICK row \in Selectable(session) : Handled(SelectRow(session, row), CloseCard(names), None)
  BY DEF Select
<1>2. session.draft = None
  BY AtCommand DEF Select, Ready
<1>3. row \in Rows(session) /\ (session.source_view # None => row.file = session.file)
  BY <1>1 DEF Selectable
<1>4. row.path = Displayed(session)[row.file].path
  BY <1>3, AtCommand, RowsTypes
<1>5. session.source_view # None => row.path = session.source_view
  BY <1>3, <1>4, AtCommand DEF Framed
<1>6. Steps(session, SelectRow(session, row)) /\ Keeps(session, SelectRow(session, row))
  BY <1>2, <1>3, <1>5, AtCommand, SelectRowSteps DEF Keeps
<1> QED BY <1>1, <1>6, MoveStep

LEMMA ChooseFileStep ==
  ASSUME Invariant, ChooseFile
  PROVE  Leaves(Pool) /\ Outlives
<1>1. PICK i \in DocumentFiles : Handled(SelectFile(session, i), CloseCard(names), None)
  BY DEF ChooseFile
<1>2. session.draft = None /\ i \in DOMAIN session.document.files
  BY <1>1, AtCommand DEF ChooseFile, Ready, DocumentFiles
<1>3. Steps(session, SelectFile(session, i)) /\ Keeps(session, SelectFile(session, i))
  BY <1>2, AtCommand, SelectFileSteps
<1> QED BY <1>1, <1>3, MoveStep

LEMMA SourceViewStep ==
  ASSUME Invariant, SourceView
  PROVE  Leaves(Pool) /\ Outlives
<1>1. session.draft = None
  BY AtCommand DEF SourceView, Ready
<1>2. PICK i \in DocumentFiles \cup {session.file} :
        Handled(ToggleSourceView(IF i = session.file \/ session.source_view # None THEN session
                                 ELSE SelectFile(session, i)), CloseCard(names), None)
  BY DEF SourceView
<1> DEFINE s == IF i = session.file \/ session.source_view # None THEN session ELSE SelectFile(session, i)
<1>3. Steps(session, s) /\ Keeps(session, s)
  <2>1. CASE i = session.file \/ session.source_view # None
    BY <1>1, <2>1, AtCommand, StepsReflexive
  <2>2. CASE ~(i = session.file \/ session.source_view # None)
    BY <1>1, <2>2, AtCommand, SelectFileSteps DEF DocumentFiles
  <2> QED BY <2>1, <2>2
<1>4. Handled(ToggleSourceView(s), CloseCard(names), None)
  BY <1>2
<1> HIDE DEF s
<1>5. Good(s) /\ s.draft = None
  BY <1>3 DEF Steps
<1>6. Steps(s, ToggleSourceView(s)) /\ Keeps(s, ToggleSourceView(s))
  BY <1>5, ToggleSourceViewSteps
<1>7. Steps(session, ToggleSourceView(s)) /\ Keeps(session, ToggleSourceView(s))
  BY <1>3, <1>6, StepsTransitive, KeepsTransitive
<1> QED BY <1>4, <1>7, MoveStep

LEMMA FullFileStep ==
  ASSUME Invariant, FullFile
  PROVE  Leaves(Pool) /\ Outlives
<1>1. session.draft = None /\ session.file \in DOMAIN session.document.files
  BY AtCommand DEF FullFile, ReadyInDiff, Ready, DocumentFiles
<1>2. Steps(session, ToggleFullFile(session)) /\ Keeps(session, ToggleFullFile(session))
  BY <1>1, AtCommand, ToggleFullFileSteps
<1> QED BY <1>2, MoveStep DEF FullFile

LEMMA CollapseStep ==
  ASSUME Invariant, Collapse
  PROVE  Leaves(Pool) /\ Outlives
<1>1. PICK i \in DocumentFiles : Handled(ToggleFileCollapsed(session, i), CloseCard(names), None)
  BY DEF Collapse
<1>2. session.draft = None /\ i \in DOMAIN session.document.files
  BY <1>1, AtCommand DEF Collapse, Ready, DocumentFiles
<1>3. Steps(session, ToggleFileCollapsed(session, i)) /\ Keeps(session, ToggleFileCollapsed(session, i))
  BY <1>2, AtCommand, ToggleFileCollapsedSteps
<1> QED BY <1>1, <1>3, MoveStep

LEMMA RevealGapStep ==
  ASSUME Invariant, RevealGap
  PROVE  Leaves(Pool) /\ Outlives
<1>1. session.draft = None /\ session.row # None /\ session.reference = None
  BY AtCommand DEF RevealGap, ReadyInDiff, Ready, ShowsSource
<1>2. Steps(session, RevealSelectedGap(session)) /\ Keeps(session, RevealSelectedGap(session))
  BY <1>1, AtCommand, RevealSelectedGapSteps
<1> QED BY <1>2, MoveStep DEF RevealGap

LEMMA BeginCommentStep ==
  ASSUME Invariant, BeginComment
  PROVE  Leaves(Pool) /\ Outlives
<1>1. /\ ~ShowsSource(session) /\ session.row # None /\ session.row.anchor # None /\ session.next_id < MaxComments
      /\ Handled(BeginDraft(session, None), CloseCard(names), None)
  BY DEF BeginComment, ReadyInDiff, AnchorAt
<1>2. /\ SessionOK(BeginDraft(session, None)) /\ BeginDraft(session, None).comments = session.comments
      /\ BeginDraft(session, None).reference = session.reference
  BY <1>1, AtCommand, SelectedRow, BeginDraftStep
<1>3. Keeps(session, BeginDraft(session, None))
  BY <1>2 DEF Keeps
<1> QED BY <1>1, <1>2, <1>3, AtCommand, CloseStep

\* The last of some comments is one of them: their numbers are bounded.
LEMMA LastIsIn ==
  ASSUME NEW comments, comments # {}, NEW bound \in Nat, \A c \in comments : c.id \in 0..bound
  PROVE  LastOf(comments) \in comments
<1> DEFINE T == {bound - c.id : c \in comments}
<1>1. T \subseteq Nat /\ T # {}
  OBVIOUS
<1>2. PICK x \in T : \A y \in T : x <= y
  BY <1>1, LeastNumber
<1>3. PICK c \in comments : x = bound - c.id
  OBVIOUS
<1>4. ASSUME NEW other \in comments
      PROVE  other.id <= c.id
  <2>1. bound - c.id <= bound - other.id
    BY <1>2, <1>3
  <2>2. c.id \in 0..bound /\ other.id \in 0..bound
    OBVIOUS
  <2> QED BY ONLY <2>1, <2>2
<1>5. \E d \in comments : \A other \in comments : other.id <= d.id
  BY <1>4
<1> QED BY <1>5, Zenon DEF LastOf

LEMMA EditCommentStep ==
  ASSUME Invariant, EditComment
  PROVE  Leaves(Pool) /\ Outlives
<1> DEFINE comments == CommentsAtSelection(session)
           id == LastOf(comments).id
<1>1. /\ ~ShowsSource(session) /\ comments # {}
      /\ Handled(BeginDraft(session, id), CloseCard(names), None)
  BY DEF EditComment, ReadyInDiff
<1>2. /\ session.next_id \in 0..MaxComments /\ MaxComments \in Nat
      /\ \A c \in comments : c.id \in Nat /\ c.id < session.next_id /\ c.anchor \in LineAnchors /\ c.anchor = AnchorAt(session.row)
  BY AtCommand, ConstantsAssumption DEF CommentsAtSelection, SessionOK, ReviewOK, CommentOK, ConstantsAssumption
<1>3. \A c \in comments : c.id \in 0..MaxComments
  BY <1>2
<1>4. LastOf(comments) \in comments
  BY <1>1, <1>2, <1>3, LastIsIn
<1> HIDE DEF comments
<1>5. id # None
  BY <1>2, <1>4, NoneAssumption DEF NoneAssumption
<1>6. session.row # None /\ session.row.anchor # None
  BY <1>2, <1>4, NoneAssumption DEF NoneAssumption, AnchorAt
<1> HIDE DEF id
<1>7. /\ SessionOK(BeginDraft(session, id)) /\ BeginDraft(session, id).comments = session.comments
      /\ BeginDraft(session, id).reference = session.reference
  BY <1>1, <1>5, <1>6, AtCommand, SelectedRow, BeginDraftStep
<1>8. Keeps(session, BeginDraft(session, id))
  BY <1>7 DEF Keeps
<1> QED BY <1>1, <1>7, <1>8, AtCommand, CloseStep

LEMMA DropCommentStep ==
  ASSUME Invariant, DropComment
  PROVE  Leaves(Pool)
<1>1. PICK c : Handled(RemoveComment(session, c), CloseCard(names), None)
  BY DEF DropComment
<1>2. session.draft = None
  BY AtCommand DEF DropComment, ReadyInDiff, Ready
<1>3. SessionOK(RemoveComment(session, c)) /\ RemoveComment(session, c).reference = session.reference
  BY <1>2, AtCommand, RemoveCommentStep
<1>4. Keeps(session, RemoveComment(session, c))
  BY <1>3 DEF Keeps
<1> QED BY <1>1, <1>3, <1>4, AtCommand, CloseStep

LEMMA SubmitCommentStep ==
  ASSUME Invariant, SubmitComment
  PROVE  Leaves(Pool) /\ Outlives
<1>1. session.draft # None /\ Handled(SubmitDraft(session), CloseCard(names), overlay)
  BY DEF SubmitComment
<1>2. /\ SessionOK(SubmitDraft(session)) /\ session.comments \subseteq SubmitDraft(session).comments
      /\ SubmitDraft(session).reference = session.reference
  BY <1>1, AtCommand, SubmitDraftStep
<1>3. Keeps(session, SubmitDraft(session))
  BY <1>2 DEF Keeps
<1> QED BY <1>1, <1>2, <1>3, AtCommand, CloseStep

\* The draft moves to the row, or stays where it was.
LEMMA MoveDraftStep ==
  ASSUME Invariant, MoveDraft
  PROVE  Leaves(Pool) /\ Outlives
<1>1. PICK row \in Selectable(session) :
        Handled(IF row.anchor # None THEN BeginDraft(SelectRow(session, row), None) ELSE SelectRow(session, row), names, None)
  BY DEF MoveDraft
<1>2. session.draft # None /\ session.next_id < MaxComments
  BY DEF MoveDraft
<1>3. session.source_view = None /\ session.reference = None /\ row \in Rows(session)
  BY <1>1, <1>2, AtCommand DEF SessionOK, DraftOK, Selectable
<1>4. CancelPendingReference(session) = session
  BY <1>3, NoneAssumption DEF CancelPendingReference, IsPending
<1> DEFINE s == SelectRow(session, row)
           t == IF row.anchor # None THEN BeginDraft(s, None) ELSE s
<1>5. Good(s) /\ SameButRow(session, s) /\ s.row = row
  BY <1>3, <1>4, AtCommand, SelectRowStep
<1> HIDE DEF s
<1>7. Rows(s) = Rows(session)
  BY <1>5, SameButRowView, SameRows
<1>8. SessionOK(s)
  BY <1>3, <1>5, <1>7, AtCommand DEF SessionOK, ReviewOK, DraftOK, SameButRow
<1>9. ~ShowsSource(s) /\ s.next_id < MaxComments /\ s.comments = session.comments /\ s.reference = session.reference
  BY <1>2, <1>3, <1>5 DEF ShowsSource, SameButRow
<1>10. SessionOK(t) /\ t.comments = session.comments /\ t.reference = session.reference
  BY <1>3, <1>5, <1>7, <1>8, <1>9, BeginDraftStep
<1>11. Handled(t, names, None)
  BY <1>1 DEF s
<1> HIDE DEF t
<1>12. Asks(names, names) /\ Awaits(t, names, Pool)
  BY <1>10, NamesSince, AsksReflexive, AwaitsKept DEF Keeps
<1> QED BY <1>10, <1>11, <1>12, AtCommand, CommandStep

LEMMA ShowDefinitionStep ==
  ASSUME Invariant, ShowDefinition
  PROVE  Leaves(Pool) /\ Outlives
<1>1. PICK near \in {None} \cup JumpTargets :
        Handled(session, ShowCard(names, NewCard(SourceOf(session.row), near), session, Capable, Externals), None)
  BY DEF ShowDefinition
<1> DEFINE card == NewCard(SourceOf(session.row), near)
           n == ShowCard(names, card, session, Capable, Externals)
<1>2. CardOK(card)
  BY ConstantsAssumption DEF ConstantsAssumption, NewCard, Local, CardOK, CardFields, Places
<1>3. Handled(session, n, None)
  BY <1>1
<1> HIDE DEF card
<1>4. Asks(names, n)
  BY <1>2, NamesSince, ShowCardStep
<1> HIDE DEF n
<1>5. Awaits(session, n, Pool)
  BY <1>4, NamesSince, AwaitsKept DEF Keeps
<1> QED BY <1>3, <1>4, <1>5, AtCommand, CommandStep

LEMMA GoToDefinitionStep ==
  ASSUME Invariant, GoToDefinition
  PROVE  Leaves(Pool) /\ Outlives
<1> DEFINE n == Activate(names, session, Capable, Externals)
<1>1. names.card # None /\ Follow(n)
  BY DEF GoToDefinition
<1>2. Asks(names, n) /\ CardOK(n.card)
  BY <1>1, NamesSince, ActivateStep
<1> HIDE DEF n
<1>3. NamesOK(n) /\ Target(n.card) \in Places
  BY <1>2 DEF Asks, CardOK, Target
<1>4. Asks(names, CloseCard(n))
  BY <1>2, <1>3, NamesSince, CloseCardStep, AsksTransitive
<1>5. Awaits(session, n, Pool) /\ Awaits(session, CloseCard(n), Pool)
  BY <1>2, <1>4, NamesSince, AwaitsKept DEF Keeps
<1>6. CASE n.card.following
  <2>1. Handled(session, n, overlay)
    BY <1>1, <1>6 DEF Follow
  <2> QED BY <1>2, <1>5, <2>1, AtCommand, CommandStep
<1>7. CASE ~n.card.following /\ Target(n.card) = None
  <2>1. Handled(session, CloseCard(n), overlay)
    BY <1>1, <1>7 DEF Follow
  <2> QED BY <1>4, <1>5, <2>1, AtCommand, CommandStep
<1>8. CASE ~n.card.following /\ Target(n.card) # None
  <2>1. Jump(session, CloseCard(n), Target(n.card)) /\ Target(n.card) \in Locations
    BY <1>1, <1>3, <1>8 DEF Follow, Places
  <2> QED BY <1>4, <2>1, NamesSince, JumpStep
<1> QED BY <1>6, <1>7, <1>8

LEMMA NavigateHistoryStep ==
  ASSUME Invariant, NavigateHistory
  PROVE  Leaves(Pool) /\ Outlives
<1>1. PICK way \in Ways : Settled(Arrived(Navigate(session, way[1], way[2]), CloseCard(names)), None)
  BY DEF NavigateHistory, Ways
<1> DEFINE shown == Navigate(session, way[1], way[2])
           r == Arrived(shown, CloseCard(names))
<1>2. session.draft = None
  BY AtCommand DEF NavigateHistory, Ready
<1>3. Handled(r.s, r.n, None)
  BY <1>1 DEF Settled
<1>4. Steps(session, shown.s) /\ (shown.ok \/ Keeps(session, shown.s))
  BY <1>2, AtCommand, NavigateSteps
<1> HIDE DEF shown
<1>5. Asks(names, CloseCard(names))
  BY NamesSince, CloseCardStep
<1>6. Steps(session, r.s) /\ Asks(names, r.n) /\ Awaits(r.s, r.n, Pool)
  BY <1>4, <1>5, NamesSince, ArrivedStep
<1> HIDE DEF r
<1>7. SessionOK(r.s) /\ r.s.comments = session.comments
  BY <1>6, AtCommand, StepsAreOK
<1> QED BY <1>3, <1>6, <1>7, AtCommand, CommandStep

\* An overlay is opened or closed, and nothing of the session changes.
LEMMA OverlayStep ==
  ASSUME Invariant, NEW shown \in Overlays, Handled(session, CloseCard(names), shown)
  PROVE  Leaves(Pool) /\ Outlives
BY AtCommand, CloseStep DEF Keeps

LEMMA CancelCommandStep ==
  ASSUME Invariant, Cancel
  PROVE  Leaves(Pool) /\ Outlives
<1>1. None \in Overlays
  BY DEF Overlays
<1>2. CASE overlay # None
  <2>1. Handled(session, CloseCard(names), None)
    BY <1>2 DEF Cancel
  <2> QED BY <1>1, <2>1, OverlayStep
<1>3. CASE overlay = None
  <2>1. Handled(CancelDraft(session), CloseCard(names), None)
    BY <1>3 DEF Cancel
  <2>2. /\ SessionOK(CancelDraft(session)) /\ CancelDraft(session).comments = session.comments
        /\ CancelDraft(session).reference = session.reference
    BY AtCommand, CancelDraftStep
  <2>3. Keeps(session, CancelDraft(session))
    BY <2>2 DEF Keeps
  <2> QED BY <1>1, <2>1, <2>2, <2>3, CloseStep
<1> QED BY <1>2, <1>3

LEMMA OtherInputStep ==
  ASSUME Invariant, OtherInput
  PROVE  Leaves(Pool) /\ Outlives
<1>1. Handled(session, names, overlay)
  BY DEF OtherInput
<1>2. Asks(names, names)
  BY NamesSince, AsksReflexive
<1> QED BY <1>1, <1>2, NamesSince, AtCommand, CommandStep

-----------------------------------------------------------------------------
(* All of the commands.                                                    *)

\* The reader's commands, Quit apart: what they leave, and what they do not touch.
LEMMA CommandLeaves ==
  ASSUME Invariant, Reader
  PROVE  \/ Quit
         \/ Leaves(Pool) /\ (DropComment \/ Outlives)
<1>1. CASE Select  BY <1>1, SelectStep
<1>2. CASE ChooseFile  BY <1>2, ChooseFileStep
<1>3. CASE SourceView  BY <1>3, SourceViewStep
<1>4. CASE FullFile  BY <1>4, FullFileStep
<1>5. CASE Collapse  BY <1>5, CollapseStep
<1>6. CASE RevealGap  BY <1>6, RevealGapStep
<1>7. CASE BeginComment  BY <1>7, BeginCommentStep
<1>8. CASE EditComment  BY <1>8, EditCommentStep
<1>9. CASE DropComment  BY <1>9, DropCommentStep
<1>10. CASE SubmitComment  BY <1>10, SubmitCommentStep
<1>11. CASE ShowDefinition  BY <1>11, ShowDefinitionStep
<1>12. CASE GoToDefinition  BY <1>12, GoToDefinitionStep
<1>13. CASE NavigateHistory  BY <1>13, NavigateHistoryStep
<1>14. CASE OpenOverlay  BY <1>14, OverlayStep DEF OpenOverlay, Overlays
<1>15. CASE SubmitPrompt  BY <1>15, OverlayStep DEF SubmitPrompt, Overlays
<1>16. CASE Emit  BY <1>16, OverlayStep DEF Emit, Overlays
<1>17. CASE Cancel  BY <1>17, CancelCommandStep
<1>18. CASE OtherInput  BY <1>18, OtherInputStep
<1>19. CASE MoveDraft  BY <1>19, MoveDraftStep
<1> QED BY <1>1, <1>2, <1>3, <1>4, <1>5, <1>6, <1>7, <1>8, <1>9, <1>10, <1>11, <1>12, <1>13, <1>14, <1>15, <1>16,
           <1>17, <1>18, <1>19 DEF Reader

\* The states of the loop, and of an operation on the repository.
Turning ==
  /\ operation' \in {"idle", "pending", "failed"} /\ stage' \in {"replies", "input", "done"}
  /\ commands' \in 0..MaxCommands

LEMMA CommandFrame ==
  ASSUME Invariant, NEW kind, Command(kind), stage' = stage, operation' \in {operation, "pending", "failed"}
  PROVE  Turning /\ UNCHANGED <<client, applied, asked, answered>>
BY ConstantsAssumption DEF ConstantsAssumption, Invariant, LoopOK, Turning, Command

LEMMA ReaderFrame ==
  ASSUME Invariant, Reader
  PROVE  Turning /\ UNCHANGED <<client, applied, asked, answered>>
<1> USE DEF Ready, ReadyInDiff
<1>1. CASE Select  BY <1>1, CommandFrame DEF Select
<1>2. CASE ChooseFile  BY <1>2, CommandFrame DEF ChooseFile
<1>3. CASE SourceView  BY <1>3, CommandFrame DEF SourceView
<1>4. CASE FullFile  BY <1>4, CommandFrame DEF FullFile
<1>5. CASE Collapse  BY <1>5, CommandFrame DEF Collapse
<1>6. CASE RevealGap  BY <1>6, CommandFrame DEF RevealGap
<1>7. CASE BeginComment  BY <1>7, CommandFrame DEF BeginComment
<1>8. CASE EditComment  BY <1>8, CommandFrame DEF EditComment
<1>9. CASE DropComment  BY <1>9, CommandFrame DEF DropComment
<1>10. CASE SubmitComment  BY <1>10, CommandFrame DEF SubmitComment
<1>11. CASE ShowDefinition  BY <1>11, CommandFrame DEF ShowDefinition
<1>12. CASE GoToDefinition  BY <1>12, CommandFrame DEF GoToDefinition
<1>13. CASE NavigateHistory  BY <1>13, CommandFrame DEF NavigateHistory
<1>14. CASE OpenOverlay  BY <1>14, CommandFrame DEF OpenOverlay
<1>15. CASE SubmitPrompt  BY <1>15, CommandFrame DEF SubmitPrompt
<1>16. CASE Emit  BY <1>16, CommandFrame DEF Emit
<1>17. CASE Cancel  BY <1>17, CommandFrame DEF Cancel
<1>18. CASE OtherInput  BY <1>18, CommandFrame DEF OtherInput
<1>20. CASE MoveDraft  BY <1>20, CommandFrame DEF MoveDraft
<1>19. CASE Quit  BY <1>19 DEF Quit, Turning, Invariant, LoopOK
<1> QED BY <1>1, <1>2, <1>3, <1>4, <1>5, <1>6, <1>7, <1>8, <1>9, <1>10, <1>11, <1>12, <1>13, <1>14, <1>15, <1>16,
           <1>17, <1>18, <1>19, <1>20 DEF Reader

\* What is left of the invariant, with the lookups the client has and the answers as they are then.
LEMMA LeavesInvariant ==
  ASSUME Invariant, NEW pool, Leaves(pool), Turning,
         client' = client, applied' = applied,
         pool \subseteq Pool',
         \A w \in asked' : Numbered(w, names'.next_token),
         answered' \in Seq(ToSet(answered')),
         \A i \in DOMAIN answered' : ReplyOK(answered'[i], names'.next_token)
  PROVE  Invariant'
<1>1. SessionOK(session)'
  BY DEF Leaves
<1>2. SnapshotsOK'
  BY DEF Leaves, Invariant, SnapshotsOK
<1>3. Awaits(session', names', Pool')
  BY DEF Leaves, Awaits
<1>4. LookupsOK'
  BY <1>3 DEF Leaves, LookupsOK
<1>5. LoopOK'
  BY DEF Leaves, Turning, LoopOK, Overlays
<1> QED BY <1>1, <1>2, <1>4, <1>5 DEF Invariant

\* Numbered lookups stay so.
LEMMA NumberedLater ==
  ASSUME NEW m \in Nat, NEW n \in Nat, n >= m
  PROVE  /\ \A w : Numbered(w, m) => Numbered(w, n)
         /\ \A reply : ReplyOK(reply, m) => ReplyOK(reply, n)
BY DEF Numbered, ReplyOK

LEMMA LaterTokens ==
  ASSUME Invariant, NEW pool, Leaves(pool)
  PROVE  /\ \A w \in asked : Numbered(w, names'.next_token)
         /\ \A i \in DOMAIN answered : ReplyOK(answered[i], names'.next_token)
<1>1. names.next_token \in Nat /\ names'.next_token \in Nat /\ names'.next_token >= names.next_token
  BY DEF Leaves, Invariant, LookupsOK, NamesOK
<1> QED BY <1>1, NumberedLater DEF Invariant, LookupsOK

LEMMA ReaderStep ==
  ASSUME Invariant, Reader
  PROVE  Invariant' /\ (Quit \/ DropComment \/ Outlives)
<1>1. Turning /\ UNCHANGED <<client, applied, asked, answered>>
  BY ReaderFrame
<1>2. CASE Quit
  <2>1. UNCHANGED <<session, names, overlay, deferred, operation, client, applied, asked, answered, installed, commands>>
    BY <1>2 DEF Quit
  <2>2. Invariant'
    BY <1>1, <2>1 DEF Invariant, SnapshotsOK, LookupsOK, LoopOK, Pool, Turning
  <2> QED BY <1>2, <2>2
<1>3. CASE ~Quit
  <2>1. Leaves(Pool) /\ (DropComment \/ Outlives)
    BY <1>3, CommandLeaves
  <2>2. Pool' = Pool
    BY <1>1 DEF Pool
  <2>3. answered \in Seq(ToSet(answered))
    BY DEF Invariant, LookupsOK
  <2>4. Invariant'
    BY <1>1, <2>1, <2>2, <2>3, LaterTokens, LeavesInvariant
  <2> QED BY <2>1, <2>4
<1> QED BY <1>2, <1>3

-----------------------------------------------------------------------------
(* Answers.                                                                *)

\* The first reply and the others.
LEMMA TailOfReplies ==
  ASSUME NEW q, q \in Seq(ToSet(q)), q # <<>>
  PROVE  /\ 1 \in DOMAIN q /\ Head(q) = q[1]
         /\ Tail(q) \in Seq(ToSet(Tail(q)))
         /\ \A i \in DOMAIN Tail(q) : \E j \in DOMAIN q : Tail(q)[i] = q[j]
         /\ Lookups(q) \subseteq {Head(q).lookup} \cup Lookups(Tail(q))
         /\ Lookups(Tail(q)) \subseteq Lookups(q)
<1> DEFINE t == Tail(q)
<1>1. /\ Len(q) \in Nat /\ Len(q) # 0 /\ DOMAIN q = 1..Len(q) /\ Head(q) = q[1]
      /\ t \in Seq(ToSet(q)) /\ Len(t) = Len(q) - 1 /\ \A i \in 1..Len(t) : t[i] = q[i + 1]
  OBVIOUS
<1>2. DOMAIN t = 1..Len(t)
  BY <1>1
<1> HIDE DEF t
<1>3. \A i \in DOMAIN t : i + 1 \in DOMAIN q /\ t[i] = q[i + 1]
  BY <1>1, <1>2
<1>4. \A j \in DOMAIN q : j = 1 \/ (j - 1 \in DOMAIN t /\ t[j - 1] = q[j])
  BY <1>1, <1>2
<1>5. t = [i \in 1..Len(t) |-> t[i]] /\ \A i \in 1..Len(t) : t[i] \in ToSet(t)
  BY <1>1, <1>2 DEF ToSet
<1>6. t \in Seq(ToSet(t))
  BY <1>1, <1>5
<1>7. Lookups(t) \subseteq Lookups(q)
  BY <1>3 DEF Lookups
<1>8. Lookups(q) \subseteq {Head(q).lookup} \cup Lookups(t)
  <2>1. \A j \in DOMAIN q : q[j].lookup = Head(q).lookup \/ \E i \in DOMAIN t : q[j].lookup = t[i].lookup
    BY <1>1, <1>4
  <2> QED BY <2>1 DEF Lookups
<1> QED BY <1>1, <1>3, <1>6, <1>7, <1>8 DEF t

\* The replies with another.
LEMMA AppendToReplies ==
  ASSUME NEW q, q \in Seq(ToSet(q)), NEW r
  PROVE  /\ Append(q, r) \in Seq(ToSet(Append(q, r)))
         /\ \A i \in DOMAIN Append(q, r) : Append(q, r)[i] = r \/ \E j \in DOMAIN q : Append(q, r)[i] = q[j]
         /\ Lookups(Append(q, r)) = Lookups(q) \cup {r.lookup}
<1> DEFINE S == ToSet(q) \cup {r}
           t == Append(q, r)
<1>1. q \in Seq(S) /\ r \in S
  OBVIOUS
<1> HIDE DEF S
<1>2. /\ Len(q) \in Nat /\ DOMAIN q = 1..Len(q) /\ t \in Seq(S) /\ Len(t) = Len(q) + 1
      /\ t[Len(q) + 1] = r /\ \A i \in 1..Len(q) : t[i] = q[i]
  BY <1>1
<1>3. DOMAIN t = 1..(Len(q) + 1)
  BY <1>2
<1> HIDE DEF t
<1>4. \A i \in DOMAIN t : t[i] = r \/ (i \in DOMAIN q /\ t[i] = q[i])
  BY <1>2, <1>3
<1>5. (\A i \in DOMAIN q : i \in DOMAIN t /\ t[i] = q[i]) /\ Len(q) + 1 \in DOMAIN t
  BY <1>2, <1>3
<1>6. \A i \in 1..Len(t) : t[i] \in ToSet(t)
  BY <1>2, <1>3 DEF ToSet
<1>7. t \in Seq(ToSet(t))
  BY <1>2, <1>6
<1>8. Lookups(t) = Lookups(q) \cup {r.lookup}
  BY <1>2, <1>4, <1>5 DEF Lookups
<1> QED BY <1>4, <1>7, <1>8 DEF t

\* Nothing is installed, and the overlay stays.
LEMMA QuietStep ==
  ASSUME Invariant, NEW s, NEW n, NEW pool, SessionOK(s), Since(n), Awaits(s, n, pool),
         session' = s, names' = n, UNCHANGED <<overlay, deferred, installed>>
  PROVE  Leaves(pool) /\ Outlives
<1>1. n.next_token \in Nat /\ names.next_token \in Nat /\ n.next_token >= names.next_token
  BY DEF Since, Invariant, LookupsOK, NamesOK
<1>2. installed.token \in 0..n.next_token
  BY <1>1 DEF Invariant, SnapshotsOK
<1> QED BY <1>1, <1>2 DEF Leaves, Outlives, Since, Invariant, SnapshotsOK, LoopOK, Overlays

\* A lookup is no longer waited for.
LEMMA SettlesStep ==
  ASSUME Invariant, NEW lookup
  PROVE  /\ Since(Settles(names, lookup)) /\ Settles(names, lookup).waiting = names.waiting \ {lookup}
         /\ Settles(names, lookup).outgoing = names.outgoing
<1> DEFINE n == Settles(names, lookup)
<1>1. n = [names EXCEPT !.waiting = @ \ {lookup}] /\ NamesOK(names)
  BY DEF Settles, Invariant, LookupsOK
<1> HIDE DEF n
<1>2. /\ DOMAIN n = NameFields /\ n.card = names.card /\ n.answers = names.answers
      /\ n.waiting = names.waiting \ {lookup} /\ n.outgoing = names.outgoing /\ n.next_token = names.next_token
  BY <1>1 DEF NamesOK, NameFields
<1>3. NamesOK(n)
  BY <1>1, <1>2 DEF NamesOK
<1> QED BY <1>1, <1>2, <1>3 DEF Since, NamesOK, Invariant, LookupsOK, n

\* What is waited for and is not this lookup is still to be answered without it.
LEMMA StillAwaits ==
  ASSUME NEW s, NEW n, NEW m, NEW pool, NEW rest, NEW lookup, Awaits(s, n, pool), pool \subseteq {lookup} \cup rest,
         n.waiting \ {lookup} \subseteq m.waiting, n.outgoing \subseteq m.outgoing,
         lookup \notin n.waiting \/ lookup.request.kind # "Source"
  PROVE  Awaits(s, m, rest)
BY DEF Awaits, SourceRequest

LEMMA FinishLookupLeaves ==
  ASSUME Invariant, FinishLookup
  PROVE  Leaves(asked \cup Lookups(Tail(answered))) /\ Outlives
<1> DEFINE reply == Head(answered)
           lookup == reply.lookup
           rest == asked \cup Lookups(Tail(answered))
           n == Settles(names, lookup)
           resolved == FinishDefinition(n, lookup, reply.result)
<1>1. /\ answered # <<>> /\ answered \in Seq(ToSet(answered)) /\ SessionOK(session) /\ Good(session)
      /\ Since(names) /\ Awaits(session, names, Pool)
  BY AtCommand, NamesSince DEF FinishLookup, Invariant, LookupsOK
<1>2. Pool \subseteq {lookup} \cup rest /\ reply = answered[1] /\ 1 \in DOMAIN answered
  BY <1>1, TailOfReplies DEF Pool
<1>3. ReplyOK(reply, names.next_token)
  BY <1>2 DEF Invariant, LookupsOK
<1>4. /\ lookup.request.kind \in {"Source", "Definition"}
      /\ lookup.request.kind = "Source" => reply.result \in Nat \cup {None}
      /\ lookup.request.kind = "Definition" => reply.result.target \in Places
  BY <1>3 DEF ReplyOK, Numbered
<1>5. CASE ~Waited(names, lookup)
  <2>1. UNCHANGED <<session, names, overlay, deferred, installed>>
    BY <1>5 DEF FinishLookup
  <2>2. Awaits(session, names, rest)
    <3> HIDE DEF rest, lookup
    <3> QED BY <1>1, <1>2, <1>5, StillAwaits DEF Waited
  <2> QED BY <1>1, <2>1, <2>2, QuietStep
<1>6. CASE Waited(names, lookup) /\ lookup.request.kind = "Source"
  <2>1. FinishSourceLookup(n, lookup, reply.result)
    BY <1>6 DEF FinishLookup
  <2> DEFINE t == FinishSource(session, lookup, reply.result)
  <2>2. session' = t /\ names' = n /\ UNCHANGED <<overlay, deferred, installed>>
    BY <2>1 DEF FinishSourceLookup, Become
  <2>3. Since(n) /\ n.waiting = names.waiting \ {lookup} /\ n.outgoing = names.outgoing
    BY SettlesStep
  <2>4. session.draft = None \/ session.reference = None
    BY <1>1 DEF SessionOK, DraftOK
  <2>5. /\ Good(t) /\ SameReview(session, t) /\ Keeps(session, t)
        /\ session.reference = None => t = session
        /\ IsPending(session) /\ lookup.request.path = session.reference.target.path =>
             (IsPending(t) => t.reference.error)
    BY <1>1, <1>4, <1>6, <2>4, FinishSourceStep
  <2> HIDE DEF t, n, lookup, rest, reply
  <2>6. SessionOK(t)
    <3>1. CASE session.reference = None
      BY <1>1, <2>5, <3>1
    <3>2. CASE session.draft = None
      BY <1>1, <2>5, <3>2 DEF SessionOK, SameReview, ReviewOK, DraftOK
    <3> QED BY <2>4, <3>1, <3>2
  <2>7. Awaits(t, n, rest)
    <3>1. SUFFICES ASSUME IsPending(t) /\ ~t.reference.error
                   PROVE  \E w \in n.waiting : w.request = SourceRequest(t.reference.target.path) /\ w \in n.outgoing \cup rest
      BY DEF Awaits
    <3>2. t.reference = session.reference /\ IsPending(session) /\ ~session.reference.error
      BY <2>5, <3>1 DEF Keeps, IsPending
    <3>3. lookup.request.path # session.reference.target.path
      BY <2>5, <3>1, <3>2
    <3>4. PICK w \in names.waiting : /\ w.request = SourceRequest(session.reference.target.path)
                                     /\ w \in names.outgoing \cup Pool
      BY <1>1, <3>2 DEF Awaits
    <3>5. w # lookup
      BY <3>3, <3>4 DEF SourceRequest
    <3> QED BY <1>2, <2>3, <3>2, <3>4, <3>5
  <2> QED BY <2>2, <2>3, <2>6, <2>7, QuietStep DEF rest
<1>7. CASE Waited(names, lookup) /\ lookup.request.kind = "Definition"
  <2>1. FinishDefinitionLookup(resolved, Followed(resolved, lookup))
    BY <1>7 DEF FinishLookup
  <2>2. Since(n) /\ n.waiting = names.waiting \ {lookup} /\ n.outgoing = names.outgoing
    BY SettlesStep
  <2> HIDE DEF n
  <2>3. /\ NamesOK(resolved) /\ resolved.waiting = n.waiting /\ resolved.outgoing = n.outgoing
        /\ resolved.next_token = n.next_token
    BY <1>4, <1>7, <2>2, FinishDefinitionStep DEF Since
  <2>4. Followed(resolved, lookup) \in Places
    BY <2>3, FollowedType
  <2> HIDE DEF resolved, rest, lookup
  <2>5. Since(resolved)
    BY <2>2, <2>3 DEF Since
  <2>6. Awaits(session, resolved, rest)
    BY <1>1, <1>2, <1>7, <2>2, <2>3, StillAwaits
  <2>7. CASE Followed(resolved, lookup) = None
    <3>1. names' = resolved /\ UNCHANGED <<session, overlay, deferred, installed>>
      BY <2>1, <2>7 DEF FinishDefinitionLookup
    <3> QED BY <1>1, <2>5, <2>6, <3>1, QuietStep DEF rest
  <2>8. CASE Followed(resolved, lookup) # None
    <3>1. Jump(session, CloseCard(resolved), Followed(resolved, lookup))
      BY <2>1, <2>8 DEF FinishDefinitionLookup
    <3>2. Asks(resolved, CloseCard(resolved))
      BY <2>3, CloseCardStep
    <3>3. Followed(resolved, lookup) \in Locations
      BY <2>4, <2>8 DEF Places
    <3> QED BY <2>5, <2>6, <3>1, <3>2, <3>3, JumpStep DEF rest
  <2> QED BY <2>7, <2>8
<1> QED BY <1>4, <1>5, <1>6, <1>7

LEMMA FinishLookupStep ==
  ASSUME Invariant, FinishLookup
  PROVE  Invariant' /\ Outlives
<1> DEFINE rest == asked \cup Lookups(Tail(answered))
<1>1. /\ answered' = Tail(answered) /\ answered # <<>> /\ answered \in Seq(ToSet(answered))
      /\ UNCHANGED <<operation, client, applied, asked, stage, commands>>
  BY DEF FinishLookup, Invariant, LookupsOK
<1>2. Leaves(rest) /\ Outlives
  BY FinishLookupLeaves
<1>3. Pool' = rest
  BY <1>1 DEF Pool
<1>4. Turning
  BY <1>1 DEF Turning, Invariant, LoopOK
<1> HIDE DEF rest
<1>5. answered' \in Seq(ToSet(answered')) /\ \A i \in DOMAIN answered' : \E j \in DOMAIN answered : answered'[i] = answered[j]
  BY <1>1, TailOfReplies
<1>6. \A i \in DOMAIN answered' : ReplyOK(answered'[i], names'.next_token)
  BY <1>2, <1>5, LaterTokens
<1>7. \A w \in asked' : Numbered(w, names'.next_token)
  BY <1>1, <1>2, LaterTokens
<1>8. Invariant'
  BY <1>1, <1>2, <1>3, <1>4, <1>5, <1>6, <1>7, LeavesInvariant
<1> QED BY <1>2, <1>8

\* A lookup asked before the document was installed is not waited for.
LEMMA LateAnswersStep ==
  ASSUME Invariant, FinishLookup, Head(answered).lookup.token < installed.token
  PROVE  UNCHANGED <<session, names>>
<1> DEFINE lookup == Head(answered).lookup
<1>1. answered # <<>> /\ answered \in Seq(ToSet(answered))
  BY DEF FinishLookup, Invariant, LookupsOK
<1>2. Head(answered) = answered[1] /\ 1 \in DOMAIN answered
  BY <1>1, TailOfReplies
<1>3. lookup.token \in Nat /\ installed.token \in 0..names.next_token /\ names.next_token \in Nat
  BY <1>2 DEF Invariant, LookupsOK, ReplyOK, Numbered, SnapshotsOK, NamesOK
<1>4. lookup \notin names.waiting
  <2>1. \A w \in names.waiting : w.token >= installed.token
    BY DEF Invariant, LookupsOK
  <2> QED BY <1>3, <2>1
<1>5. ~Waited(names, lookup)
  BY <1>4 DEF Waited
<1> QED BY <1>5 DEF FinishLookup

-----------------------------------------------------------------------------
(* The rest of the loop.                                                   *)

LEMMA SynchronizeStep ==
  ASSUME Invariant, Synchronize
  PROVE  Invariant' /\ Outlives
<1> DEFINE shown == IF ~CanChange /\ overlay = "Prompt" THEN None ELSE overlay
           newer == client.number # applied.number
           install == newer /\ Browsing(session, shown)
           fresh == DocumentChanged(SetDocument(session, client.snapshot), names, client.connected)
           after == IF install THEN fresh ELSE [s |-> session, n |-> names]
           m == [after.n EXCEPT !.outgoing = {}]
<1>1. /\ Sent(after)
      /\ installed' = IF install THEN Installed(client.number) ELSE installed
      /\ deferred' = IF newer /\ ~install THEN [document |-> client.snapshot, number |-> client.number] ELSE deferred
      /\ applied' = [number |-> client.number, connected |-> client.connected, repository |-> CanChange]
      /\ stage' = "input" /\ UNCHANGED <<client, answered, commands>>
  BY DEF Synchronize
<1>2. overlay' \in Overlays /\ operation' \in {"idle", "pending", "failed"} /\ shown \in Overlays
  BY DEF Synchronize, Invariant, LoopOK, Overlays
<1>3. /\ client.number \in Nat /\ applied.number \in 0..client.number
      /\ client.number > 0 => client.snapshot \in Documents
      /\ installed.number \in 0..client.number /\ installed.token \in 0..names.next_token /\ names.next_token \in Nat
      /\ NamesOK(names) /\ Awaits(session, names, Pool) /\ SessionOK(session)
  <2>1. client.number \in 0..MaxSnapshots /\ MaxSnapshots \in Nat
    BY ConstantsAssumption DEF Invariant, SnapshotsOK, ConstantsAssumption
  <2> QED BY <2>1 DEF Invariant, SnapshotsOK, LookupsOK, NamesOK
<1>4. newer => client.snapshot \in Documents /\ client.number \in 1..client.number
  BY <1>3
<1>5. DOMAIN after = {"s", "n"}
  BY DEF DocumentChanged, AskSource
<1>6. session' = after.s /\ names' = m /\ asked' = asked \cup after.n.outgoing
  BY <1>1, <1>5 DEF Sent, Become
<1> HIDE DEF shown, fresh
\* What holds of what is to be sent.
<1>7. /\ SessionOK(after.s) /\ NamesOK(after.n) /\ after.n.next_token >= names.next_token
      /\ Awaits(after.s, after.n, Pool)
      /\ \A w \in after.n.waiting : w.token >= installed'.token
      /\ installed'.number \in 0..client.number /\ installed'.token \in 0..names.next_token
      /\ Outlives
  <2>1. CASE install
    <3>1. session.draft = None /\ client.snapshot \in Documents
      BY <1>4, <2>1 DEF Browsing
    <3>2. /\ SessionOK(fresh.s) /\ Outlived(session.comments, fresh.s.comments, fresh.s.document)
          /\ NamesOK(fresh.n) /\ fresh.n.next_token >= names.next_token
          /\ \A w \in fresh.n.waiting : w.token >= names.next_token
          /\ Awaits(fresh.s, fresh.n, Pool)
      BY <1>3, <3>1, InstallStep DEF fresh
    <3>3. after = fresh
      BY <2>1
    <3>4. installed'.number = client.number /\ installed'.token = names.next_token
      BY <1>1, <2>1 DEF Installed
    <3>5. session' = fresh.s
      BY <1>6, <3>3
    <3> HIDE DEF after, install
    <3> QED BY <1>3, <3>2, <3>3, <3>4, <3>5 DEF Outlives
  <2>2. CASE ~install
    <3>1. after.s = session /\ after.n = names /\ installed' = installed
      BY <1>1, <2>2
    <3> HIDE DEF after, install
    <3> QED BY <1>3, <3>1 DEF Outlives, Invariant, LookupsOK
  <2> QED BY <2>1, <2>2
<1>8. deferred' # None => deferred'.document \in Documents /\ deferred'.number \in 1..client.number
  BY <1>1, <1>4 DEF Invariant, SnapshotsOK
<1> HIDE DEF after, newer, install
<1>9. /\ DOMAIN m = NameFields /\ m.card = after.n.card /\ m.answers = after.n.answers
      /\ m.waiting = after.n.waiting /\ m.outgoing = {} /\ m.next_token = after.n.next_token
  BY <1>7 DEF NamesOK, NameFields
<1> HIDE DEF m
<1>10. NamesOK(m)
  BY <1>7, <1>9 DEF NamesOK
<1>11. Pool \cup after.n.outgoing = Pool'
  BY <1>1, <1>6 DEF Pool
<1>12. Awaits(after.s, m, Pool')
  BY <1>7, <1>9, <1>11 DEF Awaits
<1>13. m.next_token \in Nat /\ m.next_token >= names.next_token /\ installed'.token \in 0..m.next_token
  BY <1>3, <1>7, <1>9, <1>10 DEF NamesOK
<1>14. \A w \in asked' : Numbered(w, names'.next_token)
  <2>1. \A w \in asked : Numbered(w, m.next_token)
    BY <1>3, <1>13, NumberedLater DEF Invariant, LookupsOK
  <2>2. \A w \in after.n.outgoing : Numbered(w, m.next_token)
    BY <1>7, <1>9 DEF NamesOK
  <2> QED BY <1>6, <2>1, <2>2
<1>15. \A i \in DOMAIN answered : ReplyOK(answered[i], m.next_token)
  BY <1>3, <1>13, NumberedLater DEF Invariant, LookupsOK
<1>16. answered \in Seq(ToSet(answered))
  BY DEF Invariant, LookupsOK
<1>17. SessionOK(session)'
  BY <1>6, <1>7
<1>18. SnapshotsOK'
  <2>1. applied'.number = client.number /\ client' = client
    BY <1>1
  <2>2. client.number \in 0..client.number
    BY <1>3
  <2> QED BY <1>6, <1>7, <1>8, <1>13, <2>1, <2>2 DEF Invariant, SnapshotsOK
<1>19. LookupsOK'
  <2>1. Awaits(session', names', Pool')
    BY <1>6, <1>12
  <2> QED BY <1>1, <1>6, <1>7, <1>9, <1>10, <1>14, <1>15, <1>16, <2>1 DEF LookupsOK
<1>20. LoopOK'
  BY <1>1, <1>2 DEF Invariant, LoopOK, Overlays
<1> QED BY <1>7, <1>17, <1>18, <1>19, <1>20 DEF Invariant

LEMMA PollStep ==
  ASSUME Invariant, Poll
  PROVE  Invariant'
<1>1. /\ stage' = "replies"
      /\ UNCHANGED <<session, names, overlay, deferred, operation, client, applied, asked, answered, installed, commands>>
  BY DEF Poll
<1> QED BY <1>1 DEF Invariant, SnapshotsOK, LookupsOK, LoopOK, Pool

LEMMA ReceiveStep ==
  ASSUME Invariant, NEW document \in Documents, Receive(document)
  PROVE  Invariant'
<1>1. /\ client.number < MaxSnapshots
      /\ client' = [snapshot |-> document, number |-> client.number + 1, connected |-> TRUE]
      /\ UNCHANGED <<session, names, overlay, deferred, operation, applied, asked, answered, stage, installed, commands>>
  BY DEF Receive
<1>2. /\ DOMAIN client' = {"snapshot", "number", "connected"} /\ client'.snapshot = document
      /\ client'.number = client.number + 1
  BY <1>1
<1>3. client.number \in 0..MaxSnapshots /\ MaxSnapshots \in Nat
  BY ConstantsAssumption DEF Invariant, SnapshotsOK, ConstantsAssumption
<1>4. client'.number \in 0..MaxSnapshots /\ client.number <= client'.number /\ client.number \in Nat /\ client'.number \in Nat
  BY <1>1, <1>2, <1>3
<1>5. /\ \A k \in 0..client.number : k \in 0..client'.number
      /\ \A k \in 1..client.number : k \in 1..client'.number
  BY ONLY <1>4
<1>6. SnapshotsOK'
  BY <1>1, <1>2, <1>4, <1>5 DEF Invariant, SnapshotsOK
<1> QED BY <1>1, <1>6 DEF Invariant, LookupsOK, LoopOK, Pool

LEMMA DisconnectStep ==
  ASSUME Invariant, Disconnect
  PROVE  Invariant'
<1>1. /\ client' = [client EXCEPT !.connected = FALSE]
      /\ UNCHANGED <<session, names, overlay, deferred, operation, applied, asked, answered, stage, installed, commands>>
  BY DEF Disconnect
<1>2. /\ DOMAIN client' = {"snapshot", "number", "connected"} /\ client'.snapshot = client.snapshot
      /\ client'.number = client.number
  BY <1>1 DEF Invariant, SnapshotsOK
<1>3. SnapshotsOK'
  BY <1>1, <1>2 DEF Invariant, SnapshotsOK
<1> QED BY <1>1, <1>3 DEF Invariant, LookupsOK, LoopOK, Pool

LEMMA AnswerStep ==
  ASSUME Invariant, NEW lookup \in asked, NEW result \in Results(lookup), Answer(lookup, result)
  PROVE  Invariant'
<1> DEFINE reply == [lookup |-> lookup, result |-> result]
<1>1. /\ asked' = asked \ {lookup} /\ answered' = Append(answered, reply)
      /\ UNCHANGED <<session, names, overlay, deferred, operation, client, applied, stage, installed, commands>>
  BY DEF Answer
<1>2. answered \in Seq(ToSet(answered)) /\ Numbered(lookup, names.next_token)
  BY DEF Invariant, LookupsOK
<1>3. reply.lookup = lookup /\ reply.result = result
  OBVIOUS
<1>4. ReplyOK(reply, names.next_token)
  <2>1. CASE lookup.request.kind = "Source"
    <3>1. result \in Nat \cup {None}
      BY <2>1, ConstantsAssumption DEF ConstantsAssumption, Results
    <3> QED BY <1>2, <1>3, <2>1, <3>1 DEF ReplyOK
  <2>2. CASE lookup.request.kind # "Source"
    <3>1. result.target \in Places
      BY <2>2, ConstantsAssumption DEF ConstantsAssumption, Results, Failed, Unavailable, Found, Places
    <3> QED BY <1>2, <1>3, <2>2, <3>1 DEF ReplyOK
  <2> QED BY <2>1, <2>2
<1> HIDE DEF reply
<1>5. /\ answered' \in Seq(ToSet(answered')) /\ Lookups(answered') = Lookups(answered) \cup {lookup}
      /\ \A i \in DOMAIN answered' : answered'[i] = reply \/ \E j \in DOMAIN answered : answered'[i] = answered[j]
  BY <1>1, <1>2, <1>3, AppendToReplies
<1>6. Pool \subseteq Pool'
  BY <1>1, <1>5 DEF Pool
<1>7. Awaits(session', names', Pool')
  BY <1>1, <1>6 DEF Invariant, LookupsOK, Awaits
<1>8. \A i \in DOMAIN answered' : ReplyOK(answered'[i], names.next_token)
  BY <1>4, <1>5 DEF Invariant, LookupsOK
<1>9. LookupsOK'
  BY <1>1, <1>5, <1>7, <1>8 DEF Invariant, LookupsOK
<1> QED BY <1>1, <1>9 DEF Invariant, SnapshotsOK, LoopOK

LEMMA InitHolds ==
  ASSUME Init
  PROVE  Invariant
<1> DEFINE s == [document |-> NoDocument, row |-> None, file |-> 1, source_view |-> None, reference |-> None,
                 expansions |-> {}, full_files |-> {}, collapsed_files |-> {},
                 pending_source_restore |-> None, diff_return |-> None, back |-> <<>>, forward |-> <<>>,
                 draft |-> None, comments |-> {}, next_id |-> 0]
<1>0. MaxSnapshots \in Nat /\ MaxCommands \in Nat /\ MaxComments \in Nat
  BY ConstantsAssumption DEF ConstantsAssumption
<1>1. session = SelectFirstRow(s)
  BY DEF Init, NewSession
<1>2. /\ DOMAIN s = SessionFields /\ s.document = NoDocument /\ s.file = 1 /\ s.source_view = None
      /\ s.reference = None /\ s.full_files = {} /\ s.collapsed_files = {} /\ s.back = <<>> /\ s.forward = <<>>
      /\ s.draft = None /\ s.comments = {} /\ s.next_id = 0
  BY DEF SessionFields
<1> HIDE DEF s
<1>3. Framed(s)
  BY <1>2 DEF Framed, ReferenceOK, IsOpen
<1>4. Good(session) /\ SameButRow(s, session)
  BY <1>1, <1>3, SelectFirstRowStep
<1>5. session.draft = None /\ session.comments = {} /\ session.next_id = 0 /\ session.reference = None
  BY <1>2, <1>4 DEF SameButRow
<1>6. SessionOK(session)
  BY <1>0, <1>4, <1>5 DEF SessionOK, ReviewOK, DraftOK
<1>7. SnapshotsOK
  BY <1>0 DEF Init, NoLookups, SnapshotsOK
<1>8. LookupsOK
  <2>1. NamesOK(names) /\ names.waiting = {} /\ asked = {} /\ answered = <<>>
    BY DEF Init, NoLookups, NamesOK, NameFields
  <2>2. Awaits(session, names, Pool)
    BY <1>5 DEF Awaits, IsPending
  <2> QED BY <2>1, <2>2 DEF LookupsOK
<1>9. LoopOK
  BY <1>0 DEF Init, LoopOK
<1> QED BY <1>6, <1>7, <1>8, <1>9 DEF Invariant

LEMMA StepHolds ==
  ASSUME Invariant, [Next]_vars
  PROVE  Invariant' /\ (installed' = installed \/ DropComment \/ Outlives)
<1>1. CASE FinishLookup
  BY <1>1, FinishLookupStep
<1>2. CASE Synchronize
  BY <1>2, SynchronizeStep
<1>3. CASE Poll
  BY <1>3, PollStep DEF Poll
<1>4. CASE Reader
  BY <1>4, ReaderStep DEF Quit
<1>5. CASE AnswerSome
  BY <1>5, AnswerStep DEF AnswerSome, Answer
<1>6. CASE Disconnect
  BY <1>6, DisconnectStep DEF Disconnect
<1>7. CASE \E document \in Documents : Receive(document)
  BY <1>7, ReceiveStep DEF Receive
<1>8. CASE UNCHANGED vars
  BY <1>8 DEF vars, Invariant, SnapshotsOK, LookupsOK, LoopOK, Pool
<1> QED BY <1>1, <1>2, <1>3, <1>4, <1>5, <1>6, <1>7, <1>8 DEF Next, Loop

-----------------------------------------------------------------------------
(* The theorems.                                                            *)

\* The invariant of the loop, from which the others follow.
THEOREM Invariance == Spec => []Invariant
<1>1. Init => Invariant
  BY InitHolds
<1>2. Invariant /\ [Next]_vars => Invariant'
  BY StepHolds
<1> QED BY <1>1, <1>2, PTL DEF Spec

\* Every variable of the terminal's loop holds what it should (ReviewSession, NameLookup, the channels).
THEOREM TypeCorrectness == Spec => []TypeOK
<1>1. Invariant => TypeOK
  <2> SUFFICES ASSUME Invariant PROVE TypeOK
    OBVIOUS
  <2>1. /\ session.document \in Documents \cup {NoDocument} /\ session.file \in Nat \ {0}
        /\ session.next_id \in 0..MaxComments
        /\ \A path \in session.full_files \cup session.collapsed_files : IndexIn(session.document, path) # 0
        /\ \A c \in session.comments : c.id < session.next_id /\ c.outdated \in BOOLEAN
    BY DEF Invariant, SessionOK, Good, Framed, ReviewOK, CommentOK
  <2>2. \A w \in names.waiting \cup names.outgoing \cup asked : w.token < names.next_token
    BY DEF Invariant, LookupsOK, NamesOK, Numbered
  <2> QED BY <2>1, <2>2 DEF Invariant, SnapshotsOK, LoopOK, TypeOK
<1> QED BY <1>1, Invariance, PTL

\* The selected row is displayed, of the file in view in the source view (ReviewSession::restore, select_row).
THEOREM SelectionIsShownHolds == Spec => []SelectionIsShown
<1>1. Invariant => SelectionIsShown
  BY DEF Invariant, SessionOK, Good, RowShown, SelectionIsShown
<1> QED BY <1>1, Invariance, PTL

\* The source view is of a file there is, and an open reference is in view and not in the document.
THEOREM SourceViewHasFileHolds == Spec => []SourceViewHasFile
<1>1. Invariant => SourceViewHasFile
  BY FileIndexType DEF Invariant, SessionOK, Good, Framed, SourceViewHasFile
<1> QED BY <1>1, Invariance, PTL

\* A reference that says it is being opened is asked for, by a lookup to be sent, sent or answered.
THEOREM ReferenceIsAwaitedHolds == Spec => []ReferenceIsAwaited
<1>1. Invariant => ReferenceIsAwaited
  BY DEF Invariant, LookupsOK, Awaits, Pool, Lookups, ReferenceIsAwaited
<1> QED BY <1>1, Invariance, PTL

\* A comment being written is about a line of the diff that is shown (ReviewSession::rebuild drops others).
THEOREM DraftIsOnItsLineHolds == Spec => []DraftIsOnItsLine
<1>1. Invariant => DraftIsOnItsLine
  BY DEF Invariant, SessionOK, DraftOK, DraftIsOnItsLine, ShowsSource
<1> QED BY <1>1, Invariance, PTL

\* A comment is on a line with its text, or says that there is none (Review::reconcile).
THEOREM CommentsAreOnTheirLinesHolds == Spec => []CommentsAreOnTheirLines
<1>1. Invariant => CommentsAreOnTheirLines
  BY DEF Invariant, SessionOK, ReviewOK, OnLine, CommentsAreOnTheirLines, Shown
<1> QED BY <1>1, Invariance, PTL

\* A document that is installed takes no comment away, and leaves those of other commits alone.
THEOREM ReviewOutlivesDocumentsHolds == Spec => ReviewOutlivesDocuments
<1>1. Invariant /\ [Next]_vars =>
        [installed' # installed /\ ~DropComment =>
           \A c \in session.comments : \E d \in session'.comments :
             d.id = c.id /\ (~Shown(session', c) => d = c)]_vars
  <2> SUFFICES ASSUME Invariant, [Next]_vars, installed' # installed, ~DropComment
               PROVE  \A c \in session.comments : \E d \in session'.comments :
                        d.id = c.id /\ (~Shown(session', c) => d = c)
    OBVIOUS
  <2>1. Outlived(session.comments, session'.comments, session'.document)
    BY StepHolds DEF Outlives
  <2> QED BY <2>1 DEF Outlived, Shown
<1> QED BY <1>1, Invariance, PTL DEF Spec, ReviewOutlivesDocuments

\* The answer to a lookup asked before the document was installed changes nothing (LookupCache::finish).
THEOREM LateAnswersAreIgnoredHolds == Spec => LateAnswersAreIgnored
<1>1. Invariant /\ [Next]_vars =>
        [FinishLookup /\ Head(answered).lookup.token < installed.token => UNCHANGED <<session, names>>]_vars
  BY LateAnswersStep
<1> QED BY <1>1, Invariance, PTL DEF Spec, LateAnswersAreIgnored
=============================================================================
