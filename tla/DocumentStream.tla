--------------------------- MODULE DocumentStream ---------------------------
(***************************************************************************)
(* Documents on their way from a server's session to its client: the       *)
(* sender's record of what the client holds (SentDocument), updates that   *)
(* name a file instead of sending it again, and the client's replica       *)
(* (DocumentReplica), over a connection that carries whole messages or     *)
(* lines of bytes (StreamTransport, crates/diff/protocol).                 *)
(*                                                                         *)
(* A line may arrive in pieces: its head, then its tail.  The client reads *)
(* in one arm of a select, and the future of an arm that loses is dropped  *)
(* with the part of the line it has read.  The server reads its client's   *)
(* commands with the same read_line in the same way.                       *)
(***************************************************************************)
EXTENDS Integers, Sequences

CONSTANTS
  Paths, Contents,  \* of files; a content stands for all of a file but its path
  Targets,          \* review targets; the commits and the root go with them
  Documents,        \* the documents a run publishes
  Lines,            \* the transport is a stream of bytes, not of messages
  MaxDocuments,     \* bound: documents published
  Disturbances      \* bound: which of PossibleDisturbances happen in a run

PossibleDisturbances == {"OtherArms", "SendIsCut", "ServerStops"}

File == [path: Paths, content: Contents]
Elements(files) == {files[i] : i \in 1..Len(files)}

\* A document may list a path twice: git gives a change of a file's type as a deletion
\* and a creation of one path.
DistinctPaths(files) == \A i, j \in 1..Len(files) : files[i].path = files[j].path => i = j

\* What a map of the files by path holds: the last of each path.
ByPath(files) == {files[i] : i \in {k \in 1..Len(files) : \A j \in k + 1..Len(files) : files[j].path # files[k].path}}

ASSUME ConstantsAssumption ==
  /\ \A d \in Documents :
       /\ d.target \in Targets /\ d.files \in Seq(File)
       /\ d = [target |-> d.target, files |-> d.files]
  /\ Lines \in BOOLEAN
  /\ MaxDocuments \in Nat
  /\ Disturbances \subseteq PossibleDisturbances

VARIABLES
  sent,       \* SentDocument.files
  server,     \* the server's end: "open", "cut" in the middle of a send, or "closed"
  wire,       \* pieces written and not yet read
  line,       \* what the pending read_line has read
  document,   \* DocumentReplica.document
  client,     \* the client's end: "open", or why it ended
  published,  \* history: the documents the server sent
  received    \* history: the documents the client was given

vars == <<sent, server, wire, line, document, client, published, received>>

-----------------------------------------------------------------------------
(* Messages.                                                                *)

Changed(file) == [kind |-> "Changed", file |-> file]
Unchanged(file) == [kind |-> "Unchanged", path |-> file.path]
Entry == [kind: {"Changed"}, file: File] \cup [kind: {"Unchanged"}, path: Paths]
Update == [kind: {"Document"}, target: Targets, files: Seq(Entry)]
Error == [kind |-> "Error"]

Piece == [part: {"whole", "head", "tail"}, message: Update \cup {Error}]
Whole(message) == <<[part |-> "whole", message |-> message]>>
Start(message) == <<[part |-> "head", message |-> message]>>
InTwo(message) == Start(message) \o <<[part |-> "tail", message |-> message]>>

Document == [target: Targets, files: Seq(File)]

Init ==
  /\ sent = {} /\ server = "open"
  /\ wire = <<>> /\ line = <<>>
  /\ document \in [target: Targets, files: {<<>>}]
  /\ client = "open"
  /\ published = <<>> /\ received = <<>>

-----------------------------------------------------------------------------
(* The server.                                                              *)

\* Mutant: a file is taken for held by its path alone.
HeldByPath(file) == \E held \in sent : held.path = file.path
Held(file) == file \in sent

Encode(d) ==
  [kind |-> "Document", target |-> d.target,
   files |-> [i \in 1..Len(d.files) |->
                IF Held(d.files[i]) THEN Unchanged(d.files[i]) ELSE Changed(d.files[i])]]

\* encode replaces the record before anything is written.
\* Mutant: files that left the document stay in the record.
RememberAll(d) ==
  sent' = ByPath(d.files) \cup {held \in sent : \A file \in Elements(d.files) : file.path # held.path}
Remember(d) == sent' = ByPath(d.files)

Publish(d) ==
  /\ server = "open" /\ Len(published) < MaxDocuments
  /\ Remember(d)
  /\ wire' \in {wire \o Whole(Encode(d))} \cup (IF Lines THEN {wire \o InTwo(Encode(d))} ELSE {})
  /\ published' = Append(published, d)
  /\ UNCHANGED <<server, line, document, client, received>>

\* SEND_TIMEOUT passes or the session is dropped inside a send: what was written so
\* far stays written.  A timeout is reported in an Error of its own.
SendIsCut(d) ==
  /\ "SendIsCut" \in Disturbances
  /\ server = "open" /\ Len(published) < MaxDocuments
  /\ Remember(d)
  /\ server' = "cut"
  /\ \E report \in {<<>>, Whole(Error)} :
       \/ wire' = wire \o report /\ UNCHANGED published
       \/ Lines /\ wire' = wire \o Start(Encode(d)) \o report /\ UNCHANGED published
       \/ wire' = wire \o Whole(Encode(d)) \o report /\ published' = Append(published, d)
  /\ UNCHANGED <<line, document, client, received>>

\* The session ends between two sends.
ServerStops ==
  /\ "ServerStops" \in Disturbances
  /\ server = "open"
  /\ server' = "closed"
  /\ wire' \in {wire, wire \o Whole(Error)}
  /\ UNCHANGED <<sent, line, document, client, published, received>>

-----------------------------------------------------------------------------
(* The client.                                                              *)

Names(entry) == entry.kind = "Unchanged"
Known(entry) == Names(entry) => \E file \in Elements(document.files) : file.path = entry.path
FileOf(entry) ==
  IF Names(entry) THEN CHOOSE file \in Elements(document.files) : file.path = entry.path
  ELSE entry.file
Rebuilt(update) ==
  [target |-> update.target, files |-> [i \in 1..Len(update.files) |-> FileOf(update.files[i])]]

Applies(update) ==
  /\ \A i \in 1..Len(update.files) : Known(update.files[i])
  /\ DistinctPaths(Rebuilt(update).files)

\* DocumentReplica::apply_event, and what the connection makes of its outcome.
Receive(message) ==
  \/ /\ message.kind = "Error"
     /\ client' = "told"
     /\ UNCHANGED <<document, received>>
  \/ /\ message.kind = "Document" /\ Applies(message)
     /\ document' = Rebuilt(message)
     /\ received' = Append(received, document')
     /\ UNCHANGED client
  \/ /\ message.kind = "Document" /\ ~Applies(message)
     /\ client' = "refuses"
     /\ UNCHANGED <<document, received>>

\* The piece completes the line that was begun, or is a line of its own.
Completes(piece) ==
  \/ line = <<>> /\ piece.part = "whole"
  \/ line # <<>> /\ piece.part = "tail"

\* read_line reads on to the end of a line; what it got is decoded.
Read ==
  /\ client = "open" /\ wire # <<>>
  /\ wire' = Tail(wire)
  /\ LET piece == Head(wire) IN
       \/ /\ piece.part = "head"
          /\ line' = Append(line, piece)
          /\ UNCHANGED <<document, client, received>>
       \/ /\ piece.part # "head" /\ Completes(piece)
          /\ line' = <<>>
          /\ Receive(piece.message)
       \/ /\ piece.part # "head" /\ ~Completes(piece)
          /\ line' = <<>>
          /\ client' = "malformed"
          /\ UNCHANGED <<document, received>>
  /\ UNCHANGED <<sent, server, published>>

\* Another arm of the select is taken while a line is half read.
OtherArm ==
  /\ "OtherArms" \in Disturbances
  /\ client = "open" /\ line # <<>>
  /\ line' = <<>>
  /\ UNCHANGED <<sent, server, wire, document, client, published, received>>

\* The stream ends; read_line returns a last line that has no end.
ReadEnds ==
  /\ client = "open" /\ wire = <<>> /\ server # "open"
  /\ client' = IF line = <<>> THEN "closed" ELSE "malformed"
  /\ UNCHANGED <<sent, server, wire, line, document, published, received>>

\* Everything was read, or the client is gone.
Quiet ==
  /\ client # "open" \/ (wire = <<>> /\ server = "open" /\ Len(published) = MaxDocuments)
  /\ UNCHANGED vars

Next ==
  \/ \E d \in Documents : Publish(d) \/ SendIsCut(d)
  \/ ServerStops
  \/ Read \/ OtherArm \/ ReadEnds
  \/ Quiet

Spec == Init /\ [][Next]_vars

-----------------------------------------------------------------------------
(* Properties.                                                              *)

TypeOK ==
  /\ sent \subseteq File
  /\ server \in {"open", "cut", "closed"}
  /\ wire \in Seq(Piece) /\ line \in Seq(Piece)
  /\ document \in Document
  /\ client \in {"open", "closed", "told", "malformed", "refuses"}
  /\ published \in Seq(Document) /\ received \in Seq(Document)

\* The client is given the documents the server published, each of them, whole and in
\* order, as far as it gets: however files come, go, move and return, a file that is
\* only named is never rebuilt from an older content.
ReceivedIsPublished ==
  /\ Len(received) <= Len(published)
  /\ \A i \in 1..Len(received) : received[i] = published[i]

\* A client refuses an update only for what its document is, one that lists a path twice:
\* no update names a file that its client does not hold, however files come, go and return.
UpdatesApply ==
  client = "refuses" => \E n \in 1..Len(published) :
    n = Len(received) + 1 /\ ~DistinctPaths(published[n].files)

\* A client that is served until it hangs up never finds a malformed line, unless the
\* server was cut off inside a send.
LinesAreWhole == client = "malformed" => server = "cut"
=============================================================================
