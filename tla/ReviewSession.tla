---------------------------- MODULE ReviewSession ----------------------------
(***************************************************************************)
(* A reviewer's session (crates/diff/core: ReviewSession, its Navigation,   *)
(* its Review and the rows DiffPresentation makes of a document), as        *)
(* operators from one session to the next.  A front end holds the session   *)
(* and decides which operation comes when.                                 *)
(*                                                                         *)
(* A file is its one hunk and the number of unchanged lines after it.  The  *)
(* layout is the unified one, where a row has one cell, so that the selected *)
(* row says which side is selected.  A row carries what is captured of it:  *)
(* its place in the sources and its anchor.                                 *)
(***************************************************************************)
EXTENDS Integers, Sequences, FiniteSets, FiniteSetsExt, SequencesExt

CONSTANT None  \* Rust's None

Old == "old"
New == "new"

-----------------------------------------------------------------------------
(* Files and documents.                                                     *)

Lines == [kind: {"Context", "Removed", "Added"}, text: STRING]
Files == [path: STRING, hunk: Seq(Lines), rest: Nat]
Locations == [path: STRING, side: {Old, New}, line: Nat]
LineAnchors == [path: STRING, side: {Old, New}, old: Nat, new: Nat, kind: {"Context", "Removed", "Added"},
                text: STRING, near: Seq(STRING)]

OpenReferences == [state: {"Open"}, file: Files]

ASSUME NoneAssumption ==
  /\ None \notin STRING /\ None \notin Nat
  /\ None \notin Files /\ None \notin Locations /\ None \notin LineAnchors /\ None \notin OpenReferences

OnSide(line, side) == line.kind # (IF side = Old THEN "Added" ELSE "Removed")

\* The number of the hunk's line k on a side.
Number(file, k, side) == Cardinality({i \in 1..k : OnSide(file.hunk[i], side)})

InHunk(file, side) == Number(file, Len(file.hunk), side)
LineCount(file, side) == InHunk(file, side) + file.rest
Deleted(file) == file.rest = 0 /\ file.hunk # <<>> /\ InHunk(file, New) = 0
SourceSide(file) == IF Deleted(file) THEN Old ELSE New
Unchanged(path, count) == [path |-> path, hunk |-> <<>>, rest |-> count]

Location(path, side, line) == [path |-> path, side |-> side, line |-> line]

ContextRadius == 2

Texts(lines) == [i \in DOMAIN lines |-> lines[i].text]
NumberOn(file, k, side) == IF OnSide(file.hunk[k], side) THEN Number(file, k, side) ELSE 0

\* LineAnchor::for_line; a fingerprint is the texts it digests.
AnchorOf(file, k, side) ==
  [path |-> file.path, side |-> side, old |-> NumberOn(file, k, Old), new |-> NumberOn(file, k, New),
   kind |-> file.hunk[k].kind, text |-> file.hunk[k].text,
   near |-> Texts(SubSeq(file.hunk, Max({1, k - ContextRadius}), Min({k + ContextRadius, Len(file.hunk)})))]

AnchorLine(anchor) == IF anchor.side = Old THEN anchor.old ELSE anchor.new
SameContent(a, b) == a.side = b.side /\ a.kind = b.kind /\ a.text = b.text

\* Every anchor a document has: an unchanged line has one on each side.
Anchors(document) ==
  UNION {{AnchorOf(file, k, side) : k \in {i \in DOMAIN file.hunk : OnSide(file.hunk[i], side)}} :
           file \in ToSet(document.files), side \in {Old, New}}

PathIndex(files, path) ==
  IF \E i \in DOMAIN files : files[i].path = path THEN Min({i \in DOMAIN files : files[i].path = path}) ELSE 0
IndexIn(document, path) == PathIndex(document.files, path)

\* A reference: a file outside the document, asked for or open.
Pending(target) == [state |-> "Pending", target |-> target, error |-> FALSE]
Open(file) == [state |-> "Open", file |-> file]
IsPending(s) == s.reference # None /\ s.reference.state = "Pending"
IsOpen(s) == s.reference # None /\ s.reference.state = "Open"
ReferencePath(s) == IF IsOpen(s) THEN s.reference.file.path ELSE s.reference.target.path
ShowsSource(s) == s.source_view # None \/ s.reference # None

Displayed(s) == s.document.files \o (IF IsOpen(s) THEN <<s.reference.file>> ELSE <<>>)
File(s, i) == IF i \in DOMAIN Displayed(s) THEN Displayed(s)[i] ELSE None
FileIndex(s, path) == PathIndex(Displayed(s), path)

-----------------------------------------------------------------------------
(* The rows displayed.                                                      *)

\* A row of file i, `at` its place in it.
Row(file, i, at, kind, side, line, anchor) ==
  [file |-> i, path |-> file.path, at |-> at, kind |-> kind, side |-> side, line |-> line, anchor |-> anchor]

CodeRow(file, i, k, side) == Row(file, i, k, "Code", side, Number(file, k, side), AnchorOf(file, k, side))

SourceRows(file, i, side) == {Row(file, i, n, "Source", side, n, None) : n \in 1..LineCount(file, side)}

HunkRows(file, i) ==
  {CodeRow(file, i, k, IF file.hunk[k].kind = "Removed" THEN Old ELSE New) : k \in DOMAIN file.hunk}

\* The unchanged lines after the hunk: none, hidden behind a row, or shown.
GapRows(file, i, shown) ==
  IF file.rest = 0 THEN {}
  ELSE IF shown
  THEN {Row(file, i, Len(file.hunk) + k, "ExpandedContext", New, InHunk(file, New) + k, None) : k \in 1..file.rest}
  ELSE {Row(file, i, Len(file.hunk) + 1, "ExpandGap", New, 0, None)}

RowsOf(s, file, i) ==
  {Row(file, i, 0, "FileHeader", New, 0, None)} \cup
  (IF s.source_view = file.path THEN SourceRows(file, i, SourceSide(file))
   ELSE IF file.path \in s.collapsed_files THEN {}
   ELSE HunkRows(file, i) \cup GapRows(file, i, i \in s.expansions \/ file.path \in s.full_files))

FileRows(s, i) == RowsOf(s, Displayed(s)[i], i)
Rows(s) == UNION {FileRows(s, i) : i \in DOMAIN Displayed(s)}

\* A row's identity over rebuilds: a line of the hunk by its index, another by its number.
RowId(row) == <<row.path, row.kind, row.side,
                CASE row.kind = "Code" -> row.at [] row.kind = "ExpandGap" -> 1 [] OTHER -> row.line>>

SourceOf(row) == IF row = None \/ row.line = 0 THEN None ELSE Location(row.path, row.side, row.line)
AnchorAt(row) == IF row = None THEN None ELSE row.anchor

RowsWithId(s, id) == {row \in Rows(s) : RowId(row) = id}
RowsShowingSource(s, place) == {row \in Rows(s) : SourceOf(row) = place}
RowsShowingAnchor(s, anchor) ==
  {row \in Rows(s) : /\ row.anchor # None
                     /\ SourceOf(row) = Location(anchor.path, anchor.side, AnchorLine(anchor))}

Navigable(s, row) ==
  \/ row.line > 0
  \/ row.kind = "ExpandGap"
  \/ row.kind = "FileHeader" /\ row.path \in s.collapsed_files \ {s.source_view}

SelectableAnywhere(s) == {row \in Rows(s) : Navigable(s, row)}

\* visible_range and is_navigable: the rows the reader can select.
Selectable(s) ==
  {row \in Rows(s) : Navigable(s, row) /\ (s.source_view # None => row.file = s.file)}

Topmost(rows) == CHOOSE row \in rows : \A other \in rows : row.at <= other.at
FirstFound(preferred, otherwise) == IF preferred # {} THEN preferred ELSE otherwise

FirstLine(s, rows) ==
  Topmost(FirstFound({row \in rows : row.line > 0}, FirstFound({row \in rows : Navigable(s, row)}, rows)))

SelectFirstRow(s) ==
  [s EXCEPT !.row = IF s.file \in DOMAIN Displayed(s) THEN FirstLine(s, FileRows(s, s.file))
                    ELSE IF Displayed(s) = <<>> THEN None ELSE Topmost(FileRows(s, 1))]

-----------------------------------------------------------------------------
(* Rebuilding the rows, with the selection restored.                        *)

NoBookmark == [path |-> None, id |-> None, source |-> None, anchor |-> None]

Captured(s) ==
  IF File(s, s.file) = None THEN NoBookmark
  ELSE [path |-> File(s, s.file).path, id |-> IF s.row = None THEN None ELSE RowId(s.row),
        source |-> SourceOf(s.row), anchor |-> AnchorAt(s.row)]

CaptureBookmark(s) == IF File(s, s.file) = None THEN None ELSE Captured(s)

RestoreMode(s, saved) == IF saved # None THEN "Returning" ELSE IF s.source_view # None THEN "Source" ELSE "Refresh"

\* The place to select: the one that waits to be shown, or the one of the bookmark.
Wanted(s, mode, bookmark) ==
  IF mode # "Returning" /\ s.pending_source_restore # None THEN s.pending_source_restore ELSE bookmark.source

\* The place a source view of a file shows of what was selected.
InSourceView(file, place) ==
  Location(file.path, SourceSide(file), Max({1, Min({place.line, LineCount(file, SourceSide(file))})}))

PlaceIn(s, mode, place) ==
  IF mode # "Source" \/ place = None \/ FileIndex(s, s.source_view) = 0 THEN place
  ELSE InSourceView(File(s, FileIndex(s, s.source_view)), place)

RowsOfSource(s, place) == IF place = None THEN {} ELSE RowsShowingSource(s, place)
RowsOfPatch(s, bookmark) ==
  FirstFound(RowsWithId(s, bookmark.id), IF bookmark.anchor = None THEN {} ELSE RowsShowingAnchor(s, bookmark.anchor))

\* Selects one of the rows restored, else the first.
SelectRestored(s, rows) ==
  IF rows = {} THEN SelectFirstRow(s)
  ELSE [s EXCEPT !.row = CHOOSE row \in rows : TRUE, !.file = (CHOOSE row \in rows : TRUE).file]

\* A place that a refresh does not show is kept for another.
Restored(s, mode, bookmark, place, sourceRows) ==
  SelectRestored(
    [s EXCEPT !.pending_source_restore = IF mode = "Refresh" /\ sourceRows = {} THEN place ELSE None],
    CASE mode = "Source" -> sourceRows
      [] mode = "Returning" -> FirstFound(RowsOfPatch(s, bookmark), sourceRows)
      [] mode = "Refresh" -> FirstFound(sourceRows, RowsOfPatch(s, bookmark)))

RestoredAt(s, mode, bookmark, place) == Restored(s, mode, bookmark, place, RowsOfSource(s, place))

\* The file of the bookmark, where there is one, is selected.
SelectBookmarked(s, i) == IF i = 0 THEN s ELSE [s EXCEPT !.file = i]

DraftIsCurrent(s) == \E row \in RowsShowingAnchor(s, s.draft.anchor) : row.anchor = s.draft.anchor
DropStaleDraft(s) == IF s.draft # None /\ ~DraftIsCurrent(s) THEN [s EXCEPT !.draft = None] ELSE s

RestoreFrom(s, mode, bookmark) ==
  DropStaleDraft(RestoredAt(SelectBookmarked(s, FileIndex(s, bookmark.path)), mode, bookmark,
                            PlaceIn(s, mode, Wanted(s, mode, bookmark))))

\* s.row is the row selected before, s.pending_source_restore the place that is to be shown.
RebuildRestoring(s, saved) ==
  RestoreFrom(s, RestoreMode(s, saved), IF saved # None THEN saved ELSE Captured(s))

Rebuild(s) == RebuildRestoring(s, None)

CancelPendingReference(s) == IF IsPending(s) THEN [s EXCEPT !.reference = None] ELSE s
CancelDraft(s) == [s EXCEPT !.draft = None]

-----------------------------------------------------------------------------
(* Selecting, revealing, the source view.                                   *)

\* For a row of Selectable(s).
SelectRow(s, row) ==
  [CancelPendingReference(s) EXCEPT !.pending_source_restore = None, !.row = row, !.file = row.file]

LeaveSourceView(s) ==
  RebuildRestoring([s EXCEPT !.source_view = None, !.reference = None, !.diff_return = None], s.diff_return)

\* The first line of a file with a number on a side, from the selection down, then up.
NearestOf(rows, from) ==
  IF \E row \in rows : row.at >= from THEN Topmost({row \in rows : row.at >= from}).line
  ELSE IF rows # {} THEN (CHOOSE row \in rows : \A other \in rows : row.at >= other.at).line ELSE 1
NearestLine(s, side) == NearestOf({row \in FileRows(s, s.file) : row.line > 0 /\ row.side = side}, s.row.at)

\* For a file of the document.
EnterSource(s, file) ==
  Rebuild([s EXCEPT !.diff_return = CaptureBookmark(s), !.source_view = file.path,
                    !.pending_source_restore = Location(file.path, SourceSide(file), NearestLine(s, SourceSide(file)))])
EnterSourceView(s) == EnterSource(s, s.document.files[s.file])

CanToggleSourceView(s) == s.draft = None /\ (s.source_view # None \/ s.file \in DOMAIN s.document.files)

ToggleSourceView(s) ==
  IF ~CanToggleSourceView(s) THEN s
  ELSE IF s.source_view # None THEN LeaveSourceView(s) ELSE EnterSourceView(s)

\* For a file of the document.
SelectFile(s, i) ==
  IF s.source_view # None /\ s.file = i THEN s
  ELSE SelectFirstRow([CancelPendingReference(IF s.source_view # None THEN ToggleSourceView(s) ELSE s)
                       EXCEPT !.pending_source_restore = None, !.file = i, !.draft = None])

\* For a file of the document, outside the source view; a file with a draft is not collapsed.
CanToggleCollapsed(s, i) ==
  LET path == s.document.files[i].path
  IN s.draft # None => path \in s.collapsed_files \/ s.draft.anchor.path # path

ToggleFileCollapsed(s, i) ==
  LET path == s.document.files[i].path
      collapse == path \notin s.collapsed_files
      FromHeader(t) == IF s.row.kind = "FileHeader" /\ s.row.file = i /\ ~collapse THEN SelectFirstRow(t) ELSE t
  IN FromHeader(Rebuild([s EXCEPT !.collapsed_files = IF collapse THEN @ \cup {path} ELSE @ \ {path}]))

ToggleFullFile(s) ==
  LET path == s.document.files[s.file].path
  IN Rebuild([s EXCEPT !.full_files = IF path \in @ THEN @ \ {path} ELSE @ \cup {path}])

\* Opens a collapsed file from its header, and a gap from its row or from the half of the hunk next to it.
RevealSelectedGap(s) ==
  LET nearest == \/ s.row.kind = "ExpandGap"
                 \/ s.row.kind = "Code" /\ 2 * (s.row.at - 1) >= Len(File(s, s.row.file).hunk)
  IN CASE s.row.kind = "FileHeader" /\ s.row.path \in s.collapsed_files -> ToggleFileCollapsed(s, s.row.file)
       [] nearest -> Rebuild([s EXCEPT !.expansions = @ \cup {s.row.file}])
       [] OTHER -> s

-----------------------------------------------------------------------------
(* The review.                                                              *)

\* Comments belong to a commit, or to the working tree whatever its scope.
Shown(s, comment) == comment.commit = s.document.target.commit
LastOf(comments) == CHOOSE c \in comments : \A other \in comments : other.id <= c.id

CommentsAtSelection(s) == {c \in s.comments : Shown(s, c) /\ c.anchor = AnchorAt(s.row)}

\* For a row with an anchor; `editing` is a comment's id.
BeginDraft(s, editing) == [s EXCEPT !.draft = [anchor |-> s.row.anchor, editing |-> editing]]

\* For a draft with text in it; the text itself is not modelled.
SubmitDraft(s) ==
  LET comment == [id |-> s.next_id, anchor |-> s.draft.anchor, commit |-> s.document.target.commit, outdated |-> FALSE]
  IN IF s.draft.editing # None THEN CancelDraft(s)
     ELSE [CancelDraft(s) EXCEPT !.comments = @ \cup {comment}, !.next_id = @ + 1]

RemoveComment(s, comment) == [s EXCEPT !.comments = @ \ {comment}]

Distance(a, b) == IF AnchorLine(a) < AnchorLine(b) THEN AnchorLine(b) - AnchorLine(a) ELSE AnchorLine(a) - AnchorLine(b)

ReattachExactly(anchors, previous) == IF previous \in anchors THEN previous ELSE None

\* The anchor in the document a comment is attached to again: its own, or the nearest line of the same text.
Reattach(anchors, previous) ==
  LET bucket == {a \in anchors : SameContent(a, previous)}
      same == {a \in bucket : a.path = previous.path}
  IN IF previous \in bucket THEN previous
     ELSE IF same = {} THEN None
     ELSE CHOOSE a \in same : \A other \in same :
            \/ Distance(a, previous) < Distance(other, previous)
            \/ Distance(a, previous) = Distance(other, previous) /\ AnchorLine(a) <= AnchorLine(other)

ReconcileEvery(comments, document) ==
  {LET anchor == Reattach(Anchors(document), c.anchor)
   IN [c EXCEPT !.anchor = IF anchor = None THEN @ ELSE anchor, !.outdated = anchor = None] : c \in comments}

Reconcile(comments, document) ==
  LET anchors == Anchors(document)
      Reconciled(c) ==
        LET anchor == Reattach(anchors, c.anchor)
        IN IF c.commit # document.target.commit THEN c
           ELSE [c EXCEPT !.anchor = IF anchor = None THEN @ ELSE anchor, !.outdated = anchor = None]
  IN {Reconciled(c) : c \in comments}

-----------------------------------------------------------------------------
(* Replacing the document.                                                  *)

SurvivesAnyway(s, document, targetChanged) == s.reference # None /\ ~targetChanged

\* An open reference outlives the document unless the new one has its file.
Survives(s, document, targetChanged) ==
  s.reference # None /\ ~targetChanged /\ (IsOpen(s) => IndexIn(document, s.reference.file.path) = 0)

\* The file of an open reference is in the new document: it stays the one in view.
Joins(s, document, targetChanged) ==
  IsOpen(s) /\ ~targetChanged /\ IndexIn(document, s.reference.file.path) # 0

\* Gaps stay revealed in files that have not changed.
RetainedExpansions(s, document) ==
  {i \in DOMAIN document.files :
     \E j \in s.expansions \cap DOMAIN s.document.files : document.files[i] = s.document.files[j]}

\* The elements at the places kept, in their order.
Rank(i, kept) == Cardinality({j \in kept : j <= i})
Retain(seq, kept) == [k \in 1..Cardinality(kept) |-> seq[CHOOSE i \in kept : Rank(i, kept) = k]]

\* Places that can be visited again once the document is replaced.
VisitsAfter(visits, document, targetChanged) ==
  IF targetChanged THEN <<>>
  ELSE Retain(visits, {i \in DOMAIN visits : visits[i].side = New \/ IndexIn(document, visits[i].path) # 0})

\* What of a session a new document leaves; `keepsOpen` says whether the open reference stays in view.
Carried(s, document, targetChanged, keepsOpen) ==
  LET drops == ~keepsOpen /\ (IsOpen(s) \/ (s.source_view # None /\ IndexIn(document, s.source_view) = 0))
      paths == {file.path : file \in ToSet(document.files)}
  IN [s EXCEPT !.document = document,
               !.source_view = IF drops THEN None ELSE @,
               !.diff_return = IF drops THEN None ELSE @,
               !.reference = IF Survives(s, document, targetChanged) THEN @ ELSE None,
               !.expansions = RetainedExpansions(s, document),
               !.full_files = @ \cap paths, !.collapsed_files = @ \cap paths,
               !.back = VisitsAfter(@, document, targetChanged),
               !.forward = VisitsAfter(@, document, targetChanged)]

\* The file that was selected, or the first; and the place that waits, if its file is still there.
Reselected(s, path) ==
  [s EXCEPT !.file = Max({1, FileIndex(s, path)}),
            !.pending_source_restore = IF @ # None /\ FileIndex(s, @.path) # 0 THEN @ ELSE None]

ReplaceDocument(s, document, targetChanged) ==
  Rebuild(Reselected(
    Carried(s, document, targetChanged,
            IsOpen(s) /\ (Joins(s, document, targetChanged) \/ Survives(s, document, targetChanged))),
    Captured(s).path))

SetDocument(s, document) ==
  LET Replaced(t) == IF document = s.document THEN t ELSE ReplaceDocument(t, document, document.target # s.document.target)
  IN Replaced([s EXCEPT !.draft = IF document.target # s.document.target THEN None ELSE @,
                        !.comments = Reconcile(@, document)])

-----------------------------------------------------------------------------
(* Navigation.                                                              *)

\* A result: whether the operation succeeded, and the session either way.
Result(ok, s) == [ok |-> ok, s |-> s]

CurrentLocation(s) == IF IsPending(s) THEN s.reference.target ELSE SourceOf(s.row)

InGap(file, place) ==
  place.line > InHunk(file, place.side) /\ place.line <= LineCount(file, place.side)

LeaveOtherSource(s, path) ==
  IF s.source_view \in {None, path} THEN CancelPendingReference(s)
  ELSE Rebuild([s EXCEPT !.source_view = None, !.reference = None, !.diff_return = None])

\* Opens what hides a line of file i.
Uncover(s, place, i) ==
  IF RowsShowingSource(s, place) # {} THEN s
  ELSE Rebuild([s EXCEPT !.collapsed_files = @ \ {place.path},
                         !.expansions = IF InGap(File(s, i), place) THEN @ \cup {i} ELSE @])

SelectFound(s, rows) ==
  IF rows = {} THEN Result(FALSE, s) ELSE Result(TRUE, SelectRow(s, CHOOSE row \in rows : TRUE))
SelectPlace(s, place) == SelectFound(s, RowsShowingSource(s, place))

RevealIn(s, place, i) == IF i = 0 THEN Result(FALSE, s) ELSE SelectPlace(Uncover(s, place, i), place)
RevealHere(s, place) == RevealIn(s, place, FileIndex(s, place.path))

\* Leaves another source view, opens what hides the line, and selects it.  A failure keeps what was opened.
RevealSource(s, place) == RevealHere(LeaveOtherSource(s, place.path), place)

\* Shows a place of the document or of the open reference, or makes a reference to another file.
Show(s, target) ==
  IF FileIndex(s, target.path) # 0 THEN RevealSource(s, target)
  ELSE IF target.side = Old \/ target.line = 0 THEN Result(FALSE, s)
  ELSE Result(TRUE, [(IF IsOpen(s) THEN ToggleSourceView(s) ELSE s) EXCEPT !.reference = Pending(target)])

\* After a jump that is made, where it was made from can be gone back to.
Remember(shown, origin, target) ==
  IF ~shown.ok THEN shown
  ELSE Result(TRUE, [shown.s EXCEPT !.back = IF origin \in {None, target} THEN @ ELSE Append(@, origin),
                                    !.forward = <<>>])

JumpTo(s, target) ==
  IF s.draft # None THEN Result(FALSE, s) ELSE Remember(Show(s, target), CurrentLocation(s), target)

\* Takes the last visit from one stack; the place it is left from goes to the other if the visit can be shown.
Leave(shown, origin, to) ==
  IF shown.ok /\ origin # None THEN Result(TRUE, [shown.s EXCEPT ![to] = Append(@, origin)]) ELSE shown
Visit(s, target, to) == Leave(Show(s, target), CurrentLocation(s), to)
NavigateOnce(tried, from, to) ==
  IF tried.ok THEN tried ELSE Visit([tried.s EXCEPT ![from] = Front(@)], Last(tried.s[from]), to)

\* Visits are taken until one can be shown.
Navigate(s, from, to) ==
  LET After[k \in 0..Len(s[from])] == IF k = 0 THEN Result(FALSE, s) ELSE NavigateOnce(After[k - 1], from, to)
  IN After[Len(s[from])]

ReferenceFailed(s, path) ==
  IF IsPending(s) /\ s.reference.target.path = path THEN [s EXCEPT !.reference.error = TRUE] ELSE s

\* The file of a reference was read: `count` unchanged lines.
OpenReference(s, path, count) ==
  LET line == IF IsPending(s) THEN s.reference.target.line
              ELSE IF SourceOf(s.row) = None THEN 1 ELSE s.row.line
      opened == [s EXCEPT !.diff_return = IF s.source_view = None THEN CaptureBookmark(s) ELSE @,
                          !.reference = Open(Unchanged(path, count)),
                          !.source_view = path,
                          !.file = Len(s.document.files) + 1,
                          !.pending_source_restore = Location(path, New, line)]
  IN IF s.reference = None THEN s
     ELSE IF ReferencePath(s) # path THEN s
     ELSE IF IndexIn(s.document, path) # 0 THEN RevealSource(s, Location(path, New, line)).s
     ELSE Rebuild(opened)

-----------------------------------------------------------------------------
NewSession(document) ==
  SelectFirstRow([document |-> document, row |-> None, file |-> 1, source_view |-> None, reference |-> None,
                  expansions |-> {}, full_files |-> {}, collapsed_files |-> {},
                  pending_source_restore |-> None, diff_return |-> None, back |-> <<>>, forward |-> <<>>,
                  draft |-> None, comments |-> {}, next_id |-> 0])
=============================================================================
