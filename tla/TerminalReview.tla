---------------------------- MODULE TerminalReview ----------------------------
(***************************************************************************)
(* A review in the terminal (crates/diff/ratatui and crates/diff/cli's      *)
(* tui): the session and the lookups of names, driven by one loop that      *)
(* takes the answers to lookups, then what the client last knew, then what  *)
(* the reader does.  Documents wait while the reader writes a comment or an *)
(* overlay is open.                                                        *)
(*                                                                         *)
(* A document carries the number of the snapshot it came as, to say which   *)
(* is the newer.  Focus, scrolling, the file drawer, themes and hovering    *)
(* are left out: a file picked in the drawer is any file.                   *)
(***************************************************************************)
EXTENDS NameLookups

CONSTANTS
  Documents,     \* snapshots the server may send
  NoDocument,    \* the empty document a review starts with
  JumpTargets,   \* places where names are defined, in documents or not
  Externals,     \* paths of files outside the repository
  SourceCounts,  \* how long a file may be when it is read
  MaxSnapshots,  \* bound: snapshots received
  MaxCommands,   \* bound: what the reader does
  MaxComments,   \* bound: comments made
  Commands       \* bound: which of AllCommands the reader uses in a run

AllCommands == {"Select", "SelectFile", "SourceView", "Fold", "Comment", "Define", "History", "Overlay", "Emit"}

ASSUME ConstantsAssumption ==
  /\ \A document \in Documents \cup {NoDocument} : document.files \in Seq(Files)
  /\ NoDocument.files = <<>>
  /\ JumpTargets \subseteq Locations
  /\ SourceCounts \subseteq Nat
  /\ MaxSnapshots \in Nat /\ MaxCommands \in Nat /\ MaxComments \in Nat
  /\ Commands \subseteq AllCommands

VARIABLES
  session, names,  \* DiffReviewState's ReviewSession and NameLookup
  overlay,         \* its overlay: a prompt for a commit or a discard, or another
  deferred,        \* its deferred_document, with its number
  operation,       \* its repository_status
  client,          \* what the client's state holds: snapshot, number, connection
  applied,         \* what was last taken from it: the number, and what it is capable of
  asked,           \* lookups that the client has
  answered,        \* the channel of their replies
  stage,           \* where the loop is: taking "replies", reading "input", or "done"
  installed,       \* history: the number of the document installed, and the next token then
  commands         \* counter for the bound

vars == <<session, names, overlay, deferred, operation, client, applied, asked, answered, stage, installed, commands>>

Init ==
  /\ session = NewSession(NoDocument)
  /\ names = NoLookups
  /\ overlay = None /\ deferred = None /\ operation = "idle"
  /\ client = [snapshot |-> None, number |-> 0, connected |-> FALSE]
  /\ applied = [number |-> 0, connected |-> FALSE, repository |-> FALSE]
  /\ asked = {} /\ answered = <<>>
  /\ stage = "replies"
  /\ installed = [number |-> 0, token |-> 0] /\ commands = 0

-----------------------------------------------------------------------------
(* The client.                                                              *)

Receive(document) ==
  /\ stage = "replies" /\ client.number < MaxSnapshots
  /\ client' = [snapshot |-> document, number |-> client.number + 1, connected |-> TRUE]
  /\ UNCHANGED <<session, names, overlay, deferred, operation, applied, asked, answered, stage, installed, commands>>

Disconnect ==
  /\ stage = "replies" /\ client.connected
  /\ client' = [client EXCEPT !.connected = FALSE]
  /\ UNCHANGED <<session, names, overlay, deferred, operation, applied, asked, answered, stage, installed, commands>>

\* Results a lookup may have: lines of a source, a resolution; an error at any time.
Results(lookup) ==
  IF lookup.request.kind = "Source"
  THEN {None} \cup (IF client.connected THEN SourceCounts ELSE {})
  ELSE {Failed} \cup (IF client.connected THEN {Found(target) : target \in JumpTargets} \cup {Unavailable} ELSE {})

Answer(lookup, result) ==
  /\ asked' = asked \ {lookup}
  /\ answered' = Append(answered, [lookup |-> lookup, result |-> result])
  /\ UNCHANGED <<session, names, overlay, deferred, operation, client, applied, stage, installed, commands>>

-----------------------------------------------------------------------------
(* The loop.                                                                *)

Browsing(s, shown) == shown = None /\ s.draft = None
Capable == applied.connected

\* capabilities(): the repository can be changed while the working tree is reviewed.
CanChange == client.connected /\ (client.snapshot = None \/ client.snapshot.target.commit = None)
Installed(number) == [number |-> number, token |-> names.next_token]

Become(after) == session' = after.s /\ names' = after.n

\* The end of a command: the document that waited is installed once nothing is open.
Handled(s, n, shown) ==
  LET due == deferred # None /\ Browsing(s, shown)
  IN /\ Become(IF due THEN DocumentChanged(SetDocument(s, deferred.document), n, Capable) ELSE [s |-> s, n |-> n])
     /\ overlay' = shown
     /\ deferred' = IF due THEN None ELSE deferred
     /\ installed' = IF due THEN Installed(deferred.number) ELSE installed

\* A jump or a visit is over: a reference that it made is asked for.
Arrived(shown, n) == IF shown.ok THEN Navigated(shown.s, n, Capable) ELSE [s |-> shown.s, n |-> n]
Settled(after, shown) == Handled(after.s, after.n, shown)

\* The JumpTo command, where it is enabled.
Jump(s, n, target) ==
  Settled(IF Browsing(s, overlay) THEN Arrived(JumpTo(s, target), n) ELSE [s |-> s, n |-> n], overlay)

FinishDefinitionLookup(n, target) ==
  IF target # None THEN Jump(session, CloseCard(n), target)
  ELSE names' = n /\ UNCHANGED <<session, overlay, deferred, installed>>

FinishSourceLookup(n, lookup, count) ==
  Become([s |-> FinishSource(session, lookup, count), n |-> n]) /\ UNCHANGED <<overlay, deferred, installed>>

FinishLookup ==
  /\ stage = "replies" /\ answered # <<>>
  /\ answered' = Tail(answered)
  /\ LET lookup == Head(answered).lookup
         result == Head(answered).result
         resolved == FinishDefinition(Settles(names, lookup), lookup, result)
     IN CASE ~Waited(names, lookup) -> UNCHANGED <<session, names, overlay, deferred, installed>>
          [] Waited(names, lookup) /\ lookup.request.kind = "Source" ->
               FinishSourceLookup(Settles(names, lookup), lookup, result)
          [] Waited(names, lookup) /\ lookup.request.kind = "Definition" ->
               FinishDefinitionLookup(resolved, Followed(resolved, lookup))
  /\ UNCHANGED <<operation, client, applied, asked, stage, commands>>

\* The lookups that are to be sent are.
Sent(after) ==
  /\ Become([after EXCEPT !.n.outgoing = {}])
  /\ asked' = asked \cup after.n.outgoing

\* The client's state, the lookups to send, the end of an operation, and on to the input.
Synchronize ==
  /\ stage = "replies" /\ answered = <<>>
  /\ LET shown == IF ~CanChange /\ overlay = "Prompt" THEN None ELSE overlay
         newer == client.number # applied.number
         install == newer /\ Browsing(session, shown)
     IN /\ Sent(IF install THEN DocumentChanged(SetDocument(session, client.snapshot), names, client.connected)
                ELSE [s |-> session, n |-> names])
        /\ installed' = IF install THEN Installed(client.number) ELSE installed
        /\ deferred' = IF newer /\ ~install THEN [document |-> client.snapshot, number |-> client.number] ELSE deferred
        /\ \E ended \in IF operation = "pending" THEN {"pending", "idle", "failed"} ELSE {operation} :
             /\ operation' = ended
             /\ overlay' = IF operation = "pending" /\ ended = "failed" /\ shown = "Prompt" THEN None ELSE shown
  /\ applied' = [number |-> client.number, connected |-> client.connected, repository |-> CanChange]
  /\ stage' = "input"
  /\ UNCHANGED <<client, answered, commands>>

\* No input is left, or enough was read.
Poll ==
  /\ stage = "input" /\ stage' = "replies"
  /\ UNCHANGED <<session, names, overlay, deferred, operation, client, applied, asked, answered, installed, commands>>

-----------------------------------------------------------------------------
(* The reader's commands.                                                   *)

Command(kind) ==
  /\ stage = "input" /\ commands < MaxCommands /\ kind \in Commands
  /\ commands' = commands + 1
  /\ UNCHANGED <<client, applied, asked, answered>>

\* Nothing is open, or the palette, which closes before the command picked there runs (run_palette_entry).
Ready(kind) ==
  /\ Command(kind) /\ session.draft = None /\ overlay # "Prompt"
  /\ UNCHANGED <<operation, stage>>
ReadyInDiff(kind) == Ready(kind) /\ ~ShowsSource(session)
DocumentFiles == DOMAIN session.document.files

\* Any command that goes to a row: by one or many, to an end, by a click.
Select == Ready("Select") /\ \E row \in Selectable(session) : Handled(SelectRow(session, row), CloseCard(names), None)

ChooseFile ==
  Ready("SelectFile") /\ \E i \in DocumentFiles : Handled(SelectFile(session, i), CloseCard(names), None)

\* From the drawer the file picked there is selected first.
SourceView ==
  /\ Ready("SourceView")
  /\ \E i \in DocumentFiles \cup {session.file} :
       LET s == IF i = session.file \/ session.source_view # None THEN session ELSE SelectFile(session, i)
       IN Handled(ToggleSourceView(s), CloseCard(names), None)

FullFile ==
  /\ ReadyInDiff("Fold") /\ session.file \in DocumentFiles
  /\ Handled(ToggleFullFile(session), CloseCard(names), None)

\* By a command the selected file; by a click (select_clicked_row) any, even while a reference is awaited.
Collapse ==
  /\ Ready("Fold") /\ session.source_view = None
  /\ \E i \in DocumentFiles :
       /\ overlay # None => i = session.file /\ ~ShowsSource(session)
       /\ CanToggleCollapsed(session, i)
       /\ Handled(ToggleFileCollapsed(session, i), CloseCard(names), None)

RevealGap ==
  /\ ReadyInDiff("Fold") /\ session.row # None
  /\ Handled(RevealSelectedGap(session), CloseCard(names), None)

BeginComment ==
  /\ ReadyInDiff("Comment") /\ AnchorAt(session.row) # None /\ session.next_id < MaxComments
  /\ Handled(BeginDraft(session, None), CloseCard(names), None)

EditComment ==
  /\ ReadyInDiff("Comment") /\ CommentsAtSelection(session) # {}
  /\ Handled(BeginDraft(session, LastOf(CommentsAtSelection(session)).id), CloseCard(names), None)

\* The comment at the selection, or the last one.
DropComment ==
  /\ ReadyInDiff("Comment")
  /\ \E choice \in {CommentsAtSelection(session), {c \in session.comments : Shown(session, c)}} :
       choice # {} /\ Handled(RemoveComment(session, LastOf(choice)), CloseCard(names), None)

SubmitComment ==
  /\ Command("Comment") /\ session.draft # None /\ overlay = None
  /\ Handled(SubmitDraft(session), CloseCard(names), overlay)
  /\ UNCHANGED <<operation, stage>>

\* A click on another row while the draft has no text: the draft moves there, where there is a line to comment on.
MoveDraft ==
  /\ Command("Comment") /\ session.draft # None /\ overlay = None /\ session.next_id < MaxComments
  /\ \E row \in {r \in Selectable(session) : r.kind # "ExpandGap"} :
       LET s == SelectRow(session, row)
       IN Handled(IF row.anchor # None THEN BeginDraft(s, None) ELSE s, names, None)
  /\ UNCHANGED <<operation, stage>>

\* A name of the selected line, which the document may define, too.
ShowDefinition ==
  /\ Ready("Define") /\ SourceOf(session.row) # None
  /\ \E near \in {None} \cup {target \in JumpTargets : FileIndex(session, target.path) # 0} :
       Handled(session, ShowCard(names, NewCard(SourceOf(session.row), near), session, Capable, Externals), None)

Follow(n) ==
  IF n.card.following THEN Handled(session, n, overlay)
  ELSE IF Target(n.card) = None THEN Handled(session, CloseCard(n), overlay)
  ELSE Jump(session, CloseCard(n), Target(n.card))

GoToDefinition ==
  Ready("Define") /\ overlay = None /\ names.card # None /\ Follow(Activate(names, session, Capable, Externals))

NavigateHistory ==
  /\ Ready("History")
  /\ \E way \in {<<"back", "forward">>, <<"forward", "back">>} :
       /\ session[way[1]] # <<>>
       /\ Settled(Arrived(Navigate(session, way[1], way[2]), CloseCard(names)), None)

\* A prompt asks for a commit's message or whether to discard; the others are help and the pickers.
OpenOverlay ==
  /\ Ready("Overlay")
  /\ \E shown \in {"Prompt", "Picker"} :
       (shown = "Prompt" => applied.repository /\ operation # "pending") /\ Handled(session, CloseCard(names), shown)

\* The prompt is answered, perhaps with an empty message.
SubmitPrompt ==
  /\ Command("Overlay") /\ overlay = "Prompt" /\ stage' = stage
  /\ operation' \in {"failed", IF applied.repository /\ operation # "pending" THEN "pending" ELSE operation}
  /\ Handled(session, CloseCard(names), None)

\* A refresh, another target (a picker may offer it) or an action on the repository goes to the client.
Emit ==
  /\ Command("Emit") /\ (Browsing(session, overlay) \/ overlay = "Picker") /\ stage' = stage
  /\ Capable /\ operation # "pending" /\ operation' = "pending"
  /\ Handled(session, CloseCard(names), None)

\* Closes what is open: an overlay, else the draft.
Cancel ==
  /\ \E kind \in {"Overlay", "Comment"} : Command(kind)
  /\ ~Browsing(session, overlay) /\ UNCHANGED <<operation, stage>>
  /\ Handled(IF overlay = None THEN CancelDraft(session) ELSE session, CloseCard(names), None)

\* Scrolling, moving the focus, hovering: nothing of this changes, but a document may be installed.
OtherInput == Command("Select") /\ UNCHANGED <<operation, stage>> /\ Handled(session, names, overlay)

\* The review is submitted or cancelled, or the client takes no more commands.
Quit ==
  /\ stage = "input" /\ stage' = "done"
  /\ UNCHANGED <<session, names, overlay, deferred, operation, client, applied, asked, answered, installed, commands>>

Loop == FinishLookup \/ Synchronize \/ Poll
Reader ==
  \/ Select \/ ChooseFile \/ SourceView \/ FullFile \/ Collapse \/ RevealGap
  \/ BeginComment \/ EditComment \/ DropComment \/ SubmitComment \/ MoveDraft
  \/ ShowDefinition \/ GoToDefinition \/ NavigateHistory
  \/ OpenOverlay \/ SubmitPrompt \/ Emit \/ Cancel \/ OtherInput \/ Quit
AnswerSome == \E lookup \in asked : \E result \in Results(lookup) : Answer(lookup, result)
Next == Loop \/ Reader \/ AnswerSome \/ Disconnect \/ \E document \in Documents : Receive(document)

Spec == Init /\ [][Next]_vars

\* A turn of the loop, by Synchronize once no answer is left, or by Poll.
Turn == stage # "done" /\ stage' = IF stage = "replies" THEN "input" ELSE "replies"

\* The loop goes round as long as the review lasts, and the client answers every lookup.
FairSpec == Spec /\ WF_stage(Turn) /\ WF_asked(AnswerSome)

-----------------------------------------------------------------------------
(* Properties.                                                              *)

\* Every variable holds what it should.
TypeOK ==
  /\ session.document \in Documents \cup {NoDocument}
  /\ session.file \in Nat \ {0} /\ session.next_id \in 0..MaxComments
  /\ \A path \in session.full_files \cup session.collapsed_files : IndexIn(session.document, path) # 0
  /\ \A c \in session.comments : c.id < session.next_id /\ c.outdated \in BOOLEAN
  /\ \A w \in names.waiting \cup names.outgoing \cup asked : w.token < names.next_token
  /\ overlay \in {None, "Prompt", "Picker"}
  /\ deferred # None => deferred.document \in Documents /\ deferred.number \in 1..client.number
  /\ operation \in {"idle", "pending", "failed"}
  /\ client.snapshot \in Documents \cup {None}
  /\ client.number \in 0..MaxSnapshots /\ applied.number \in 0..client.number
  /\ stage \in {"replies", "input", "done"}
  /\ installed.number \in 0..client.number
  /\ commands \in 0..MaxCommands

\* The selected row is one of those displayed, and in the source view one of the file in view.
SelectionIsShown ==
  /\ Displayed(session) # <<>> => session.row \in Rows(session)
  /\ session.row # None /\ session.source_view # None => session.row.path = session.source_view

\* The source view shows a file there is: one of the document, or the open reference, which it never leaves behind.
SourceViewHasFile ==
  /\ session.source_view # None => FileIndex(session, session.source_view) # 0
  /\ IsOpen(session) => /\ session.source_view = session.reference.file.path
                        /\ IndexIn(session.document, session.source_view) = 0

\* A reference that says it is being opened is being asked for.
ReferenceIsAwaited ==
  IsPending(session) /\ ~session.reference.error =>
    \E w \in names.waiting :
      /\ w.request = SourceRequest(session.reference.target.path)
      /\ w \in names.outgoing \cup asked \cup {answered[i].lookup : i \in DOMAIN answered}

\* A comment being written is about a line that the diff has and shows as it was when the comment was begun.
DraftIsOnItsLine ==
  session.draft # None =>
    /\ session.draft.anchor \in Anchors(session.document)
    /\ \E row \in Rows(session) : row.anchor = session.draft.anchor
    /\ ~ShowsSource(session)

\* A comment on what is shown is on a line of it, unless no line of its file has its text.
CommentsAreOnTheirLines ==
  \A c \in session.comments : Shown(session, c) =>
    IF c.outdated
    THEN \A a \in Anchors(session.document) : a.path = c.anchor.path => ~SameContent(a, c.anchor)
    ELSE c.anchor \in Anchors(session.document)

\* Another document takes no comment away, and leaves those of other commits as they were.
ReviewOutlivesDocuments ==
  [][installed' # installed /\ ~DropComment =>
       \A c \in session.comments : \E d \in session'.comments :
         d.id = c.id /\ (~Shown(session', c) => d = c)]_vars

\* An answer to a lookup that was asked before the document was installed changes nothing.
LateAnswersAreIgnored ==
  [][FinishLookup /\ Head(answered).lookup.token < installed.token => UNCHANGED <<session, names>>]_vars

\* The document shown is never replaced by an older one.
DocumentsDoNotGoBack == [][installed'.number >= installed.number]_vars

\* A reference is opened, given up or found to have failed.
ReferencesSettle ==
  IsPending(session) /\ ~session.reference.error ~> ~(IsPending(session) /\ ~session.reference.error) \/ stage = "done"
=============================================================================
