-------------------------- MODULE DocumentStreamProofs --------------------------
(***************************************************************************)
(* Proofs about DocumentStream, for any files, documents and number of     *)
(* them, over messages or lines: the client is given the documents the     *)
(* server published, and refuses only one that lists a path twice.         *)
(***************************************************************************)
EXTENDS DocumentStream, SequenceTheorems, TLAPS

-----------------------------------------------------------------------------
(* Documents and their updates.                                             *)

\* The files of document n by their paths, which both ends hold after it.
HeldAfter(docs, n) == IF n = 0 THEN {} ELSE ByPath(docs[n].files)

\* What encode writes for a client that holds some files.
EncodedFrom(held, d) ==
  [kind |-> "Document", target |-> d.target,
   files |-> [i \in 1..Len(d.files) |->
                IF d.files[i] \in held THEN Unchanged(d.files[i]) ELSE Changed(d.files[i])]]

LEMMA DocumentTypes ==
  ASSUME NEW d \in Documents
  PROVE  /\ d \in Document
         /\ d.target \in Targets /\ d.files \in Seq(File) /\ d = [target |-> d.target, files |-> d.files]
BY ConstantsAssumption DEF Document

LEMMA EncodeEncodes ==
  ASSUME NEW d
  PROVE  Encode(d) = EncodedFrom(sent, d)
BY DEF Encode, EncodedFrom, Held

LEMMA ByPathTypes ==
  ASSUME NEW files \in Seq(File)
  PROVE  ByPath(files) \subseteq File
BY DEF ByPath

\* A replica holds every file of the document it was given.
LEMMA ByPathIsAll ==
  ASSUME NEW files \in Seq(File), DistinctPaths(files)
  PROVE  ByPath(files) = Elements(files)
<1>1. Len(files) \in Nat
  OBVIOUS
<1>2. ASSUME NEW k \in 1..Len(files), NEW j \in k + 1..Len(files)
      PROVE  files[j].path # files[k].path
  BY <1>1 DEF DistinctPaths
<1> QED BY <1>2 DEF ByPath, Elements

LEMMA EncodedType ==
  ASSUME NEW d \in Documents, NEW held
  PROVE  EncodedFrom(held, d) \in Update
<1> DEFINE entry(i) == IF d.files[i] \in held THEN Unchanged(d.files[i]) ELSE Changed(d.files[i])
           entries == [i \in 1..Len(d.files) |-> entry(i)]
<1>1. d.target \in Targets /\ d.files \in Seq(File) /\ Len(d.files) \in Nat
  BY DocumentTypes
<1>2. ASSUME NEW i \in 1..Len(d.files) PROVE entry(i) \in Entry
  <2>1. d.files[i] \in File
    BY <1>1
  <2>2. d.files[i].path \in Paths
    BY <2>1 DEF File
  <2> QED BY <2>1, <2>2 DEF Entry, Unchanged, Changed
<1>3. entries \in Seq(Entry)
  <2> HIDE DEF entry
  <2> QED BY <1>1, <1>2
<1>4. EncodedFrom(held, d) = [kind |-> "Document", target |-> d.target, files |-> entries]
  BY DEF EncodedFrom
<1> HIDE DEF entries
<1> QED BY <1>1, <1>3, <1>4 DEF Update

\* An update is rebuilt into the document it was encoded from by a replica that holds what the sender
\* says it does, and refused only if that lists a path twice.
LEMMA RebuiltIsEncoded ==
  ASSUME NEW d \in Documents, document \in Document, DistinctPaths(document.files),
         NEW update, update = EncodedFrom(Elements(document.files), d)
  PROVE  Rebuilt(update) = d /\ (Applies(update) <=> DistinctPaths(d.files))
<1>1. /\ d.files \in Seq(File) /\ Len(d.files) \in Nat /\ document.files \in Seq(File)
      /\ Len(document.files) \in Nat
      /\ d = [target |-> d.target, files |-> d.files]
  BY DocumentTypes DEF Document
<1>2. /\ update.target = d.target /\ Len(update.files) = Len(d.files)
      /\ \A i \in 1..Len(d.files) :
           update.files[i] = IF d.files[i] \in Elements(document.files) THEN Unchanged(d.files[i])
                             ELSE Changed(d.files[i])
  BY <1>1 DEF EncodedFrom
<1>3. ASSUME NEW file \in Elements(document.files), NEW other \in Elements(document.files), file.path = other.path
      PROVE  file = other
  BY <1>1, <1>3 DEF Elements, DistinctPaths
<1>4. ASSUME NEW i \in 1..Len(d.files)
      PROVE  Known(update.files[i]) /\ FileOf(update.files[i]) = d.files[i]
  <2>1. CASE d.files[i] \in Elements(document.files)
    <3>0. update.files[i] = Unchanged(d.files[i])
      BY <1>2, <2>1
    <3>1. Names(update.files[i]) /\ update.files[i].path = d.files[i].path
      BY <3>0 DEF Names, Unchanged
    <3>2. (CHOOSE file \in Elements(document.files) : file.path = d.files[i].path) = d.files[i]
      BY <1>3, <2>1
    <3> QED BY <2>1, <3>1, <3>2 DEF Known, FileOf
  <2>2. CASE d.files[i] \notin Elements(document.files)
    <3>1. update.files[i] = Changed(d.files[i])
      BY <1>2, <2>2
    <3>2. ~Names(update.files[i]) /\ update.files[i].file = d.files[i]
      BY <3>1 DEF Names, Changed
    <3> QED BY <3>2 DEF Known, FileOf
  <2> QED BY <2>1, <2>2
<1>5. Rebuilt(update).files = d.files
  <2>1. Rebuilt(update).files = [i \in 1..Len(d.files) |-> FileOf(update.files[i])]
    BY <1>2 DEF Rebuilt
  <2>2. Rebuilt(update).files = [i \in 1..Len(d.files) |-> d.files[i]]
    BY <1>4, <2>1
  <2> QED BY <1>1, <2>2
<1>6. Rebuilt(update) = [target |-> d.target, files |-> Rebuilt(update).files]
  BY <1>2 DEF Rebuilt
<1> QED BY <1>1, <1>2, <1>4, <1>5, <1>6 DEF Applies

-----------------------------------------------------------------------------
(* What is on the wire.                                                     *)

\* The piece completes the update of a document.
Ends(piece) == piece.part # "head" /\ piece.message.kind = "Document"

\* f numbers the pieces with the documents that they bring, from `first` on: each is an update from the
\* document before it, and the last piece brings the last document.
Numbers(f, pieces, first, docs) ==
  /\ f[1] = first
  /\ f[Len(pieces) + 1] = Len(docs) + 1
  /\ \A i \in 1..Len(pieces) : f[i + 1] = IF Ends(pieces[i]) THEN f[i] + 1 ELSE f[i]
  /\ \A i \in 1..Len(pieces) : Ends(pieces[i]) =>
       /\ f[i] \in 1..Len(docs)
       /\ pieces[i].message = EncodedFrom(HeldAfter(docs, f[i] - 1), docs[f[i]])

Carries(pieces, first, docs) == \E f \in [1..Len(pieces) + 1 -> Nat] : Numbers(f, pieces, first, docs)

LEMMA CarriesMore ==
  ASSUME NEW pieces \in Seq(Piece), NEW first, NEW docs, Carries(pieces, first, docs),
         NEW piece \in Piece, ~Ends(piece)
  PROVE  Carries(Append(pieces, piece), first, docs)
<1> DEFINE more == Append(pieces, piece)
           n == Len(pieces)
<1>1. PICK f \in [1..n + 1 -> Nat] : Numbers(f, pieces, first, docs)
  BY DEF Carries
<1>2. /\ n \in Nat /\ Len(more) = n + 1 /\ more[n + 1] = piece
      /\ \A i \in 1..n : more[i] = pieces[i]
  OBVIOUS
<1> DEFINE g == [i \in 1..n + 2 |-> IF i = n + 2 THEN f[n + 1] ELSE f[i]]
<1>3. g \in [1..Len(more) + 1 -> Nat] /\ \A i \in 1..n + 1 : g[i] = f[i]
  BY <1>2
<1>4. g[n + 2] = f[n + 1] /\ g[1] = f[1]
  BY <1>2
<1> HIDE DEF more, n, g
<1>5. \A i \in 1..n + 1 : g[i + 1] = IF Ends(more[i]) THEN g[i] + 1 ELSE g[i]
  <2> TAKE i \in 1..n + 1
  <2>1. CASE i = n + 1
    BY <1>2, <1>3, <1>4, <2>1
  <2>2. CASE i \in 1..n
    BY <1>1, <1>2, <1>3, <2>2 DEF Numbers, n
  <2> QED BY <1>2, <2>1, <2>2
<1>6. \A i \in 1..n + 1 : Ends(more[i]) =>
        /\ g[i] \in 1..Len(docs)
        /\ more[i].message = EncodedFrom(HeldAfter(docs, g[i] - 1), docs[g[i]])
  <2> TAKE i \in 1..n + 1
  <2> HAVE Ends(more[i])
  <2>1. i \in 1..n
    BY <1>2
  <2> QED BY <1>1, <1>2, <1>3, <2>1 DEF Numbers, n
<1>7. g[1] = first /\ g[Len(more) + 1] = Len(docs) + 1
  BY <1>1, <1>2, <1>4 DEF Numbers, n
<1>8. Numbers(g, more, first, docs)
  BY <1>2, <1>5, <1>6, <1>7 DEF Numbers
<1> QED BY <1>3, <1>8 DEF Carries, more

LEMMA CarriesDocument ==
  ASSUME NEW pieces \in Seq(Piece), NEW first, NEW docs \in Seq(Document), Carries(pieces, first, docs),
         NEW d \in Document, NEW piece \in Piece, Ends(piece),
         piece.message = EncodedFrom(HeldAfter(docs, Len(docs)), d)
  PROVE  Carries(Append(pieces, piece), first, Append(docs, d))
<1> DEFINE more == Append(pieces, piece)
           longer == Append(docs, d)
           n == Len(pieces)
           m == Len(docs)
<1>1. PICK f \in [1..n + 1 -> Nat] : Numbers(f, pieces, first, docs)
  BY DEF Carries
<1>2. /\ n \in Nat /\ Len(more) = n + 1 /\ more[n + 1] = piece
      /\ \A i \in 1..n : more[i] = pieces[i]
  OBVIOUS
<1>3. /\ m \in Nat /\ Len(longer) = m + 1 /\ longer[m + 1] = d
      /\ \A k \in 1..m : longer[k] = docs[k]
  OBVIOUS
<1> DEFINE g == [i \in 1..n + 2 |-> IF i = n + 2 THEN m + 2 ELSE f[i]]
<1>4. g \in [1..Len(more) + 1 -> Nat] /\ \A i \in 1..n + 1 : g[i] = f[i]
  BY <1>2, <1>3
<1>5. g[n + 2] = m + 2 /\ g[1] = f[1] /\ g[n + 1] = f[n + 1]
  BY <1>2
<1>6. f[n + 1] = m + 1 /\ f[1] = first
  BY <1>1 DEF Numbers
<1> HIDE DEF more, longer, n, m, g
<1>7. \A k \in 0..m : HeldAfter(longer, k) = HeldAfter(docs, k)
  BY <1>3 DEF HeldAfter
<1>8. \A i \in 1..n + 1 : g[i + 1] = IF Ends(more[i]) THEN g[i] + 1 ELSE g[i]
  <2> TAKE i \in 1..n + 1
  <2>1. CASE i = n + 1
    BY <1>2, <1>3, <1>5, <1>6, <2>1
  <2>2. CASE i \in 1..n
    BY <1>1, <1>2, <1>4, <2>2 DEF Numbers, n
  <2> QED BY <1>2, <2>1, <2>2
<1>9. \A i \in 1..n + 1 : Ends(more[i]) =>
        /\ g[i] \in 1..Len(longer)
        /\ more[i].message = EncodedFrom(HeldAfter(longer, g[i] - 1), longer[g[i]])
  <2> TAKE i \in 1..n + 1
  <2> HAVE Ends(more[i])
  <2>1. CASE i = n + 1
    <3>1. g[i] = m + 1 /\ g[i] - 1 = m /\ more[i] = piece /\ longer[g[i]] = d
      BY <1>2, <1>3, <1>5, <1>6, <2>1
    <3>2. HeldAfter(longer, g[i] - 1) = HeldAfter(docs, m)
      BY <1>3, <1>7, <3>1
    <3> QED BY <1>3, <3>1, <3>2 DEF m
  <2>2. CASE i \in 1..n
    <3>1. g[i] \in 1..m /\ more[i].message = EncodedFrom(HeldAfter(docs, g[i] - 1), docs[g[i]])
      BY <1>1, <1>2, <1>4, <2>2 DEF Numbers, n, m
    <3>2. g[i] - 1 \in 0..m /\ longer[g[i]] = docs[g[i]]
      BY <1>3, <3>1
    <3> QED BY <1>3, <1>7, <3>1, <3>2
  <2> QED BY <1>2, <2>1, <2>2
<1>10. g[1] = first /\ g[Len(more) + 1] = Len(longer) + 1
  BY <1>2, <1>3, <1>5, <1>6
<1>11. Numbers(g, more, first, longer)
  BY <1>2, <1>8, <1>9, <1>10 DEF Numbers
<1> QED BY <1>4, <1>11 DEF Carries, more, longer

\* What a piece that was read leaves to carry.
LEMMA CarriesRest ==
  ASSUME NEW pieces \in Seq(Piece), pieces # <<>>, NEW first \in Nat, NEW docs, Carries(pieces, first, docs)
  PROVE  Carries(Tail(pieces), IF Ends(Head(pieces)) THEN first + 1 ELSE first, docs)
<1> DEFINE rest == Tail(pieces)
           n == Len(pieces)
           next == IF Ends(Head(pieces)) THEN first + 1 ELSE first
<1>1. PICK f \in [1..n + 1 -> Nat] : Numbers(f, pieces, first, docs)
  BY DEF Carries
<1>2. /\ n \in Nat \ {0} /\ Len(rest) = n - 1 /\ Head(pieces) = pieces[1]
      /\ \A i \in 1..n - 1 : rest[i] = pieces[i + 1]
  OBVIOUS
<1> DEFINE g == [i \in 1..n |-> f[i + 1]]
<1>3. g \in [1..Len(rest) + 1 -> Nat] /\ \A i \in 1..n : g[i] = f[i + 1]
  BY <1>2
<1> HIDE DEF rest, n, g, next
<1>4. g[1] = next /\ g[Len(rest) + 1] = Len(docs) + 1
  BY <1>1, <1>2, <1>3 DEF Numbers, n, next
<1>5. ASSUME NEW i \in 1..n - 1
      PROVE  /\ g[i + 1] = IF Ends(rest[i]) THEN g[i] + 1 ELSE g[i]
             /\ Ends(rest[i]) =>
                  /\ g[i] \in 1..Len(docs)
                  /\ rest[i].message = EncodedFrom(HeldAfter(docs, g[i] - 1), docs[g[i]])
  <2>1. i + 1 \in 1..n /\ i + 1 + 1 = i + 2 /\ i \in 1..n /\ rest[i] = pieces[i + 1]
    BY <1>2
  <2>2. g[i] = f[i + 1] /\ g[i + 1] = f[i + 2]
    BY <1>2, <1>3, <2>1
  <2> QED BY <1>1, <2>1, <2>2 DEF Numbers, n
<1>6. Numbers(g, rest, next, docs)
  BY <1>2, <1>4, <1>5 DEF Numbers
<1> QED BY <1>3, <1>6 DEF Carries, rest, next

\* The first update on the wire is of the next document.
LEMMA CarriesNext ==
  ASSUME NEW pieces \in Seq(Piece), pieces # <<>>, NEW first \in Nat, NEW docs, Carries(pieces, first, docs),
         Ends(Head(pieces))
  PROVE  first \in 1..Len(docs) /\ Head(pieces).message = EncodedFrom(HeldAfter(docs, first - 1), docs[first])
<1>1. PICK f \in [1..Len(pieces) + 1 -> Nat] : Numbers(f, pieces, first, docs)
  BY DEF Carries
<1>2. 1 \in 1..Len(pieces) /\ Head(pieces) = pieces[1]
  OBVIOUS
<1> QED BY <1>1, <1>2 DEF Numbers

-----------------------------------------------------------------------------
(* The invariant.                                                           *)

\* The server's record is of the document it sent last, while it may send another.
RecordInv == server = "open" => sent = HeldAfter(published, Len(published))

\* What is on its way to a client that reads is what it is to be given next.
WireInv == client = "open" => Carries(wire, Len(received) + 1, published)

\* The replica holds the document that was given last.
ReplicaInv ==
  /\ DistinctPaths(document.files)
  /\ received = <<>> => document.files = <<>>
  /\ received # <<>> => document = received[Len(received)]

IInv ==
  /\ TypeOK
  /\ \A i \in 1..Len(published) : published[i] \in Documents
  /\ ReceivedIsPublished /\ UpdatesApply
  /\ RecordInv /\ WireInv /\ ReplicaInv

LEMMA InitIInv == Init => IInv
<1> SUFFICES ASSUME Init PROVE IInv
  OBVIOUS
<1>1. Carries(<<>>, 1, <<>>)
  <2> DEFINE f == [i \in 1..1 |-> 1]
  <2>1. f \in [1..Len(<<>>) + 1 -> Nat] /\ f[1] = 1
    OBVIOUS
  <2>2. Numbers(f, <<>>, 1, <<>>)
    BY <2>1 DEF Numbers
  <2> HIDE DEF f
  <2> QED BY <2>1, <2>2 DEF Carries
<1>2. Len(received) + 1 = 1 /\ Len(published) = 0 /\ Len(received) = 0
  BY DEF Init
<1>3. TypeOK
  <2>1. PICK t \in Targets : document = [target |-> t, files |-> <<>>]
    <3>1. document \in [target: Targets, files: {<<>>}]
      BY DEF Init
    <3> QED BY <3>1
  <2>2. document \in Document
    BY <2>1 DEF Document
  <2> QED BY <2>2 DEF Init, TypeOK
<1>4. RecordInv /\ WireInv
  BY <1>1, <1>2 DEF Init, RecordInv, WireInv, HeldAfter
<1>5. ReplicaInv /\ ReceivedIsPublished /\ UpdatesApply
  <2>1. DistinctPaths(document.files)
    BY DEF Init, DistinctPaths
  <2> QED BY <1>2, <2>1 DEF Init, ReplicaInv, ReceivedIsPublished, UpdatesApply
<1> QED BY <1>2, <1>3, <1>4, <1>5 DEF IInv

LEMMA PieceTypes ==
  ASSUME NEW message \in Update \cup {Error}, NEW part \in {"whole", "head", "tail"}
  PROVE  [part |-> part, message |-> message] \in Piece
BY DEF Piece

\* What Whole, Start and InTwo write.
LEMMA Written ==
  ASSUME NEW message
  PROVE  /\ wire \in Seq(Piece) => wire \o Whole(message) = Append(wire, [part |-> "whole", message |-> message])
         /\ wire \in Seq(Piece) => wire \o Start(message) = Append(wire, [part |-> "head", message |-> message])
         /\ wire \in Seq(Piece) =>
              wire \o InTwo(message) = Append(Append(wire, [part |-> "head", message |-> message]),
                                              [part |-> "tail", message |-> message])
  BY DEF Whole, Start, InTwo

\* An update of the next document that is written whole, in one piece or two.
LEMMA CarriesUpdate ==
  ASSUME NEW d \in Documents, NEW message, TypeOK, RecordInv, server = "open", message = Encode(d),
         Carries(wire, Len(received) + 1, published), NEW next, next \in {wire \o Whole(message), wire \o InTwo(message)}
  PROVE  next \in Seq(Piece) /\ Carries(next, Len(received) + 1, Append(published, d))
<1> DEFINE whole == [part |-> "whole", message |-> message]
           head == [part |-> "head", message |-> message]
           tail == [part |-> "tail", message |-> message]
<1>1. wire \in Seq(Piece) /\ published \in Seq(Document) /\ d \in Document
  BY DocumentTypes DEF TypeOK
<1>2. message = EncodedFrom(HeldAfter(published, Len(published)), d) /\ message \in Update
  BY EncodeEncodes, EncodedType DEF RecordInv
<1>3. whole \in Piece /\ head \in Piece /\ tail \in Piece
  BY <1>2, PieceTypes
<1>4. Ends(whole) /\ Ends(tail) /\ ~Ends(head)
  BY <1>2 DEF Ends, EncodedFrom
<1>5. whole.message = message /\ tail.message = message
  OBVIOUS
<1>6. next = Append(wire, whole) \/ next = Append(Append(wire, head), tail)
  BY <1>1, Written
<1> HIDE DEF whole, head, tail
<1>7. CASE next = Append(wire, whole)
  BY <1>1, <1>2, <1>3, <1>4, <1>5, <1>7, CarriesDocument
<1>8. CASE next = Append(Append(wire, head), tail)
  <2> DEFINE begun == Append(wire, head)
  <2>1. begun \in Seq(Piece) /\ Carries(begun, Len(received) + 1, published) /\ next = Append(begun, tail)
    BY <1>1, <1>3, <1>4, <1>8, CarriesMore
  <2> HIDE DEF begun
  <2>2. next \in Seq(Piece)
    BY <1>3, <2>1
  <2>3. tail.message = EncodedFrom(HeldAfter(published, Len(published)), d)
    BY <1>2, <1>5
  <2>4. Carries(Append(begun, tail), Len(received) + 1, Append(published, d))
    BY <1>1, <1>3, <1>4, <2>1, <2>3, CarriesDocument
  <2> QED BY <2>1, <2>2, <2>4
<1> QED BY <1>6, <1>7, <1>8

LEMMA CarriesReport ==
  ASSUME NEW pieces \in Seq(Piece), NEW first, NEW docs, NEW report \in {<<>>, Whole(Error)}
  PROVE  /\ pieces \o report \in Seq(Piece)
         /\ Carries(pieces, first, docs) => Carries(pieces \o report, first, docs)
<1> DEFINE error == [part |-> "whole", message |-> Error]
<1>1. error \in Piece /\ ~Ends(error)
  BY PieceTypes DEF Ends, Error
<1>2. pieces \o <<>> = pieces
  BY ConcatEmptySeq
<1>3. pieces \o Whole(Error) = Append(pieces, error)
  BY DEF Whole
<1> HIDE DEF error
<1>4. Append(pieces, error) \in Seq(Piece)
  BY <1>1
<1>5. Carries(pieces, first, docs) => Carries(Append(pieces, error), first, docs)
  BY <1>1, CarriesMore
<1>6. CASE report = <<>>
  BY <1>2, <1>6
<1>7. CASE report = Whole(Error)
  BY <1>3, <1>4, <1>5, <1>7
<1> QED BY <1>6, <1>7

\* Documents published do not move what was received.
LEMMA PublishedMore ==
  ASSUME IInv, NEW d \in Documents, published' = Append(published, d), UNCHANGED <<received, document, client>>
  PROVE  /\ (\A i \in 1..Len(published) : published[i] \in Documents)' /\ published' \in Seq(Document)
         /\ ReceivedIsPublished' /\ UpdatesApply' /\ ReplicaInv'
         /\ HeldAfter(published, Len(published))' = ByPath(d.files)
<1>1. published \in Seq(Document) /\ d \in Document /\ received \in Seq(Document)
  BY DocumentTypes DEF IInv, TypeOK
<1>2. /\ Len(published) \in Nat /\ Len(published') = Len(published) + 1 /\ published'[Len(published) + 1] = d
      /\ \A i \in 1..Len(published) : published'[i] = published[i]
      /\ Len(received) \in Nat
  BY <1>1
<1>3. (\A i \in 1..Len(published) : published[i] \in Documents)'
  BY <1>2 DEF IInv
<1>4. ReceivedIsPublished'
  <2>1. Len(received) <= Len(published) /\ \A i \in 1..Len(received) : received[i] = published[i]
    BY DEF IInv, ReceivedIsPublished
  <2>2. \A i \in 1..Len(received) : i \in 1..Len(published)
    BY <1>2, <2>1
  <2> QED BY <1>2, <2>1, <2>2 DEF ReceivedIsPublished
<1>5. UpdatesApply' /\ ReplicaInv'
  <2>1. ASSUME NEW n \in 1..Len(published), n = Len(received) + 1, ~DistinctPaths(published[n].files)
        PROVE  n \in 1..Len(published') /\ n = Len(received') + 1 /\ ~DistinctPaths(published'[n].files)
    BY <1>2, <2>1
  <2>2. UpdatesApply'
    BY <2>1 DEF IInv, UpdatesApply
  <2> QED BY <2>2 DEF IInv, ReplicaInv
<1>6. HeldAfter(published, Len(published))' = ByPath(d.files)
  BY <1>2 DEF HeldAfter
<1> QED BY <1>1, <1>3, <1>4, <1>5, <1>6

LEMMA PublishStep ==
  ASSUME IInv, NEW d \in Documents, Publish(d)
  PROVE  IInv'
<1>1. /\ server = "open" /\ sent' = ByPath(d.files) /\ published' = Append(published, d)
      /\ UNCHANGED <<server, line, document, client, received>>
      /\ wire' \in {wire \o Whole(Encode(d)), wire \o InTwo(Encode(d))}
  BY DEF Publish, Remember
<1>2. TypeOK /\ RecordInv /\ (client = "open" => Carries(wire, Len(received) + 1, published))
  BY DEF IInv, WireInv
<1>3. WireInv'
  BY <1>1, <1>2, CarriesUpdate DEF WireInv
<1>4. wire' \in Seq(Piece)
  <2>1. Encode(d) \in Update
    BY EncodeEncodes, EncodedType
  <2>2. wire \in Seq(Piece)
    BY DEF IInv, TypeOK
  <2> DEFINE piece(part) == [part |-> part, message |-> Encode(d)]
  <2>3. piece("whole") \in Piece /\ piece("head") \in Piece /\ piece("tail") \in Piece
    BY <2>1, PieceTypes
  <2>4. wire' = Append(wire, piece("whole")) \/ wire' = Append(Append(wire, piece("head")), piece("tail"))
    BY <1>1, <2>2, Written
  <2> HIDE DEF piece
  <2>5. Append(wire, piece("head")) \in Seq(Piece)
    BY <2>2, <2>3
  <2> QED BY <2>2, <2>3, <2>4, <2>5
<1>5. sent' \subseteq File
  BY <1>1, DocumentTypes, ByPathTypes
<1> QED BY <1>1, <1>2, <1>3, <1>4, <1>5, PublishedMore DEF IInv, TypeOK, RecordInv

LEMMA CutStep ==
  ASSUME IInv, NEW d \in Documents, SendIsCut(d)
  PROVE  IInv'
<1>1. /\ server = "open" /\ server' = "cut" /\ sent' = ByPath(d.files)
      /\ UNCHANGED <<line, document, client, received>>
  BY DEF SendIsCut, Remember
<1>2. PICK report \in {<<>>, Whole(Error)} :
        \/ wire' = wire \o report /\ UNCHANGED published
        \/ wire' = wire \o Start(Encode(d)) \o report /\ UNCHANGED published
        \/ wire' = wire \o Whole(Encode(d)) \o report /\ published' = Append(published, d)
  BY DEF SendIsCut
<1>3. TypeOK /\ RecordInv /\ wire \in Seq(Piece) /\ Encode(d) \in Update
  BY EncodeEncodes, EncodedType DEF IInv, TypeOK
<1>4. sent' \subseteq File /\ RecordInv'
  BY <1>1, DocumentTypes, ByPathTypes DEF RecordInv
<1> DEFINE head == [part |-> "head", message |-> Encode(d)]
           whole == [part |-> "whole", message |-> Encode(d)]
<1>5. head \in Piece /\ ~Ends(head) /\ wire \o Start(Encode(d)) = Append(wire, head)
  BY <1>3, PieceTypes, Written DEF Ends
<1>6. whole \in Piece /\ wire \o Whole(Encode(d)) = Append(wire, whole)
  BY <1>3, PieceTypes, Written
<1> HIDE DEF head, whole
<1>7. CASE UNCHANGED published
  <2>1. PICK pieces \in {wire, Append(wire, head)} : wire' = pieces \o report
    <3>1. published # Append(published, d)
      <4>1. published \in Seq(Document) /\ d \in Document
        BY <1>3, DocumentTypes DEF TypeOK
      <4>2. Len(Append(published, d)) # Len(published)
        BY <4>1
      <4> QED BY <4>2
    <3> QED BY <1>2, <1>5, <1>7, <3>1
  <2>2. pieces \in Seq(Piece) /\ (client = "open" => Carries(pieces, Len(received) + 1, published))
    <3>1. client = "open" => Carries(wire, Len(received) + 1, published)
      BY DEF IInv, WireInv
    <3>2. Append(wire, head) \in Seq(Piece)
      BY <1>3, <1>5
    <3>3. client = "open" => Carries(Append(wire, head), Len(received) + 1, published)
      BY <1>3, <1>5, <3>1, CarriesMore
    <3> QED BY <1>3, <3>1, <3>2, <3>3
  <2>3. wire' \in Seq(Piece) /\ WireInv'
    BY <1>1, <1>7, <2>1, <2>2, CarriesReport DEF WireInv
  <2> QED BY <1>1, <1>4, <1>7, <2>3 DEF IInv, TypeOK, ReceivedIsPublished, UpdatesApply, ReplicaInv
<1>8. CASE wire' = wire \o Whole(Encode(d)) \o report /\ published' = Append(published, d)
  <2>1. Append(wire, whole) \in Seq(Piece) /\ wire' = Append(wire, whole) \o report
    BY <1>3, <1>6, <1>8
  <2>2. client = "open" => Carries(Append(wire, whole), Len(received) + 1, published')
    BY <1>1, <1>3, <1>6, <1>8, CarriesUpdate DEF IInv, WireInv
  <2>3. wire' \in Seq(Piece) /\ WireInv'
    BY <1>1, <2>1, <2>2, CarriesReport DEF WireInv
  <2> QED BY <1>1, <1>3, <1>4, <1>8, <2>3, PublishedMore DEF IInv, TypeOK
<1> QED BY <1>2, <1>7, <1>8

LEMMA ReadStep ==
  ASSUME IInv, Read
  PROVE  IInv'
<1> DEFINE piece == Head(wire)
<1>1. /\ client = "open" /\ wire # <<>> /\ wire' = Tail(wire) /\ UNCHANGED <<sent, server, published>>
      /\ TypeOK /\ wire \in Seq(Piece) /\ published \in Seq(Document) /\ received \in Seq(Document)
      /\ Len(received) \in Nat /\ Len(published) \in Nat
  BY DEF Read, IInv, TypeOK
<1>2. piece \in Piece /\ wire' \in Seq(Piece) /\ line \in Seq(Piece)
  BY <1>1 DEF TypeOK
<1>3. line' \in Seq(Piece)
  <2>1. line' = <<>> \/ line' = Append(line, piece)
    BY DEF Read
  <2> HIDE DEF piece
  <2>2. Append(line, piece) \in Seq(Piece) /\ <<>> \in Seq(Piece)
    BY <1>2
  <2> QED BY <2>1, <2>2
<1>4. Carries(wire, Len(received) + 1, published)
  BY <1>1 DEF IInv, WireInv
<1>5. Carries(wire', IF Ends(piece) THEN Len(received) + 2 ELSE Len(received) + 1, published)
  BY <1>1, <1>4, CarriesRest
<1> HIDE DEF piece
<1>6. RecordInv' /\ (\A i \in 1..Len(published) : published[i] \in Documents)'
  BY <1>1 DEF IInv, RecordInv
<1>7. CASE UNCHANGED <<document, received>> /\ client' \in {"open", "told", "malformed"} /\ ~Ends(piece)
  BY <1>1, <1>2, <1>3, <1>5, <1>6, <1>7 DEF IInv, TypeOK, WireInv, ReceivedIsPublished, UpdatesApply, ReplicaInv
<1>8. CASE UNCHANGED <<document, received>> /\ client' = "malformed"
  BY <1>1, <1>2, <1>3, <1>6, <1>8 DEF IInv, TypeOK, WireInv, ReceivedIsPublished, UpdatesApply, ReplicaInv
<1>9. CASE Ends(piece) /\ Receive(piece.message)
  <2> DEFINE n == Len(received)
             d == published[n + 1]
  <2>1. n + 1 \in 1..Len(published) /\ piece.message = EncodedFrom(HeldAfter(published, n), d)
    <3>1. n + 1 \in Nat /\ n + 1 - 1 = n /\ Carries(wire, n + 1, published) /\ Ends(Head(wire))
      BY <1>1, <1>4, <1>9 DEF piece
    <3>2. n + 1 \in 1..Len(published)
          /\ Head(wire).message = EncodedFrom(HeldAfter(published, (n + 1) - 1), published[n + 1])
      <4> HIDE DEF n
      <4> QED BY <1>1, <3>1, CarriesNext
    <3> QED BY <3>1, <3>2 DEF piece
  <2>2. d \in Documents
    BY <2>1 DEF IInv
  <2>3. document \in Document /\ DistinctPaths(document.files) /\ Elements(document.files) = HeldAfter(published, n)
    <3>1. CASE n = 0
      <4>1. received = <<>>
        BY <1>1, <3>1
      <4>2. document.files = <<>>
        BY <4>1 DEF IInv, ReplicaInv
      <4> QED BY <1>1, <3>1, <4>2 DEF TypeOK, DistinctPaths, Elements, HeldAfter
    <3>2. CASE n # 0
      <4>1. n \in 1..Len(published) /\ received # <<>>
        BY <1>1, <2>1, <3>2
      <4>2. document = published[n]
        BY <1>1, <4>1 DEF IInv, ReplicaInv, ReceivedIsPublished
      <4>3. document \in Documents /\ DistinctPaths(document.files)
        BY <4>1, <4>2 DEF IInv, ReplicaInv
      <4>4. ByPath(document.files) = Elements(document.files)
        BY <4>3, DocumentTypes, ByPathIsAll
      <4> QED BY <3>2, <4>2, <4>3, <4>4, DocumentTypes DEF HeldAfter
    <3> QED BY <3>1, <3>2
  <2>4. Rebuilt(piece.message) = d /\ (Applies(piece.message) <=> DistinctPaths(d.files))
    <3> HIDE DEF d, n
    <3> QED BY <2>1, <2>2, <2>3, RebuiltIsEncoded
  <2>5. CASE ~DistinctPaths(d.files)
    <3>1. UNCHANGED <<document, received>> /\ client' = "refuses"
      BY <1>9, <2>4, <2>5 DEF Receive, Ends
    <3>2. UpdatesApply'
      BY <1>1, <2>1, <2>5, <3>1 DEF UpdatesApply
    <3> QED BY <1>1, <1>2, <1>3, <1>6, <3>1, <3>2 DEF IInv, TypeOK, WireInv, ReceivedIsPublished, ReplicaInv
  <2>6. CASE DistinctPaths(d.files)
    <3>1. document' = d /\ received' = Append(received, d) /\ client' = "open"
      <4> HIDE DEF d, n
      <4>1. piece.message.kind = "Document" /\ Receive(piece.message) /\ Applies(piece.message)
        BY <1>9, <2>4, <2>6 DEF Ends
      <4>2. piece.message.kind # "Error"
        BY <4>1
      <4> QED BY <1>1, <2>4, <4>1, <4>2 DEF Receive
    <3>2. d \in Document
      BY <2>2, DocumentTypes
    <3>3. Len(received') = n + 1 /\ received'[n + 1] = d /\ \A i \in 1..n : received'[i] = received[i]
      BY <1>1, <3>1, <3>2
    <3>4. WireInv'
      BY <1>1, <1>5, <1>9, <3>3 DEF WireInv
    <3>5. ReceivedIsPublished'
      <4>1. \A i \in 1..n + 1 : received'[i] = published[i]
        <5>1. \A i \in 1..n : received[i] = published[i]
          BY DEF IInv, ReceivedIsPublished
        <5>2. \A i \in 1..n : received'[i] = published[i]
          BY <3>3, <5>1
        <5>3. received'[n + 1] = published[n + 1]
          BY <3>3
        <5> QED BY <1>1, <5>2, <5>3
      <4> QED BY <1>1, <2>1, <3>3, <4>1 DEF ReceivedIsPublished
    <3>6. ReplicaInv' /\ UpdatesApply'
      BY <1>1, <2>6, <3>1, <3>3 DEF ReplicaInv, UpdatesApply
    <3>7. TypeOK'
      BY <1>1, <1>2, <1>3, <3>1, <3>2 DEF TypeOK
    <3> QED BY <1>6, <3>4, <3>5, <3>6, <3>7 DEF IInv
  <2> QED BY <2>5, <2>6
<1>10. piece.part # "head" /\ ~Ends(piece) => piece.message.kind # "Document"
  BY DEF Ends
<1>11. CASE piece.part = "head"
  BY <1>1, <1>7, <1>11 DEF Read, piece, Ends
<1>12. CASE piece.part # "head"
  <2>1. Receive(piece.message) \/ (UNCHANGED <<document, received>> /\ client' = "malformed")
    BY <1>12 DEF Read, piece
  <2>2. CASE Receive(piece.message) /\ ~Ends(piece)
    BY <1>7, <1>10, <1>12, <2>2 DEF Receive
  <2> QED BY <1>8, <1>9, <2>1, <2>2
<1> QED BY <1>11, <1>12

LEMMA StepIInv == IInv /\ [Next]_vars => IInv'
<1> SUFFICES ASSUME IInv, [Next]_vars PROVE IInv'
  OBVIOUS
<1>1. ASSUME NEW d \in Documents, Publish(d) \/ SendIsCut(d) PROVE IInv'
  BY <1>1, PublishStep, CutStep
<1>2. CASE Read
  BY <1>2, ReadStep
<1>3. CASE ServerStops
  <2>1. PICK report \in {<<>>, Whole(Error)} : wire' = wire \o report
    <3>1. wire = wire \o <<>>
      BY ConcatEmptySeq DEF IInv, TypeOK
    <3> QED BY <1>3, <3>1 DEF ServerStops
  <2>2. wire' \in Seq(Piece) /\ WireInv'
    BY <1>3, <2>1, CarriesReport DEF ServerStops, IInv, TypeOK, WireInv
  <2> QED BY <1>3, <2>2 DEF ServerStops, IInv, TypeOK, RecordInv, ReceivedIsPublished, UpdatesApply, ReplicaInv
<1>4. CASE OtherArm
  BY <1>4 DEF OtherArm, IInv, TypeOK, RecordInv, WireInv, ReceivedIsPublished, UpdatesApply, ReplicaInv
<1>5. CASE ReadEnds
  BY <1>5 DEF ReadEnds, IInv, TypeOK, RecordInv, WireInv, ReceivedIsPublished, UpdatesApply, ReplicaInv
<1>6. CASE Quiet \/ UNCHANGED vars
  BY <1>6 DEF Quiet, vars, IInv, TypeOK, RecordInv, WireInv, ReceivedIsPublished, UpdatesApply, ReplicaInv
<1> QED BY <1>1, <1>2, <1>3, <1>4, <1>5, <1>6 DEF Next

\* The inductive invariant: the server's record is of the document it sent last, the replica holds the one it
\* was given last, and the updates on the wire lead from the one to the other.
THEOREM Invariance == Spec => []IInv
BY InitIInv, StepIInv, PTL DEF Spec

\* Every variable of the stream stays in its type, for any files, documents and number of them.
THEOREM TypeCorrectness == Spec => []TypeOK
<1>1. IInv => TypeOK
  BY DEF IInv
<1> QED BY <1>1, Invariance, PTL

\* The client is given the documents the server published, each whole and in order, as far as it gets: what
\* SentDocument::encode leaves out is what DocumentReplica holds.
THEOREM ReceivedIsPublishedHolds == Spec => []ReceivedIsPublished
<1>1. IInv => ReceivedIsPublished
  BY DEF IInv
<1> QED BY <1>1, Invariance, PTL

\* A client refuses an update only if its document lists a path twice: no update names a file that the
\* client does not hold, though the record is replaced before the update is written and a send may be cut.
THEOREM UpdatesApplyHolds == Spec => []UpdatesApply
<1>1. IInv => UpdatesApply
  BY DEF IInv
<1> QED BY <1>1, Invariance, PTL
=============================================================================
