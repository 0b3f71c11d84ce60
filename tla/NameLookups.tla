----------------------------- MODULE NameLookups -----------------------------
(***************************************************************************)
(* Looking names up (crates/diff/symbols: NameLookup, DefinitionCard and    *)
(* LookupCache), as operators from one state to the next: the card shown,   *)
(* the answers kept, the lookups waited for by request, and those that the  *)
(* front end has still to send.  An answer's lookup is told from a later   *)
(* one for the same request by its token.                                  *)
(***************************************************************************)
EXTENDS ReviewSession

\* A card's answer: nothing beyond the document, not yet, or a resolution.
Local == [status |-> "Local", target |-> None]
Waiting == [status |-> "Pending", target |-> None]
Found(target) == [status |-> "Complete", target |-> target]
Unavailable == [status |-> "Unavailable", target |-> None]
Failed == [status |-> "Failed", target |-> None]

NoLookups == [card |-> None, answers |-> {}, waiting |-> {}, outgoing |-> {}, next_token |-> 0]

\* Of a source that is read: all of the file.  Of a definition: the line, and the text it was found in.
SourceRequest(path) == [kind |-> "Source", path |-> path]
DefinitionRequest(place, content) == [kind |-> "Definition", path |-> place.path, at |-> place, content |-> content]

NewText(file) ==
  [lines |-> LET kept == SelectSeq(file.hunk, LAMBDA line : OnSide(line, New)) IN [i \in DOMAIN kept |-> kept[i].text],
   rest |-> file.rest]

\* Lines of the old side alone, and files outside the repository, cannot be looked up.
RequestFor(s, origin, externals) ==
  LET i == FileIndex(s, origin.path)
  IN IF i = 0 \/ origin.side = Old \/ (IsOpen(s) /\ s.reference.file.path = origin.path /\ origin.path \in externals)
     THEN None ELSE DefinitionRequest(origin, NewText(Displayed(s)[i]))

IssueUnnumbered(n, request) ==
  LET lookup == [token |-> n.next_token, request |-> request]
  IN [n EXCEPT !.waiting = {w \in @ : w.request # request} \cup {lookup}, !.outgoing = @ \cup {lookup}]

Issue(n, request) ==
  LET lookup == [token |-> n.next_token, request |-> request]
  IN [n EXCEPT !.waiting = {w \in @ : w.request # request} \cup {lookup},
               !.outgoing = @ \cup {lookup}, !.next_token = @ + 1]

\* A card for a name; `near` is where the document itself defines it, if it does.
NewCard(origin, near) == [origin |-> origin, near |-> near, following |-> FALSE, request |-> None, answer |-> Local]

Target(card) == IF card.answer.target # None THEN card.answer.target ELSE card.near

\* LookupCache::show: from the cache, from a lookup already waited for, or by a new one.
Ask(n, card, s, externals) ==
  LET request == RequestFor(s, card.origin, externals)
      kept == {a \in n.answers : a.request = request}
      waiting == \E w \in n.waiting : w.request = request
      shown == [n EXCEPT !.card = [card EXCEPT !.request = request,
                  !.answer = IF kept = {} THEN Waiting ELSE (CHOOSE a \in kept : TRUE).resolution]]
  IN CASE request = None -> [n EXCEPT !.card = [card EXCEPT !.answer = Local]]
       [] request # None /\ (kept # {} \/ waiting) -> shown
       [] OTHER -> Issue(shown, request)

ShowCard(n, card, s, enabled, externals) ==
  IF enabled THEN Ask(n, card, s, externals) ELSE [n EXCEPT !.card = card]

CloseCard(n) == [n EXCEPT !.card = None]

\* NameLookup::activate: a failed lookup is asked again, and one that pends will be followed.
Activate(n, s, enabled, externals) ==
  LET retry == enabled /\ n.card.answer = Failed /\ Target(n.card) = None
      asked == IF retry THEN Ask(n, n.card, s, externals) ELSE n
  IN [asked EXCEPT !.card.following = asked.card.answer = Waiting]

\* LookupCache::source: reads the file of the reference, or says that it cannot.
AskSource(s, n, enabled) ==
  IF s.reference = None THEN [s |-> s, n |-> n]
  ELSE IF enabled THEN [s |-> s, n |-> Issue(n, SourceRequest(ReferencePath(s)))]
  ELSE [s |-> ReferenceFailed(s, ReferencePath(s)), n |-> n]

Navigated(s, n, enabled) ==
  IF IsPending(s) THEN AskSource(s, CloseCard(n), enabled) ELSE [s |-> s, n |-> CloseCard(n)]

KeepWaiting(s, n, enabled) == AskSource(s, [n EXCEPT !.card = None, !.answers = {}], enabled)
ForgetReference(s, n, enabled) == [s |-> s, n |-> [n EXCEPT !.card = None, !.answers = {}, !.waiting = {}]]

\* A document was installed: nothing answered or asked before counts.
DocumentChanged(s, n, enabled) == AskSource(s, [n EXCEPT !.card = None, !.answers = {}, !.waiting = {}], enabled)

Waited(n, lookup) == lookup \in n.waiting
Settles(n, lookup) == [n EXCEPT !.waiting = @ \ {lookup}]

FinishReadSource(s, lookup, count) ==
  IF count = None THEN s ELSE OpenReference(s, lookup.request.path, count)

\* A source's answer: its number of lines, or None for an error.
FinishSource(s, lookup, count) ==
  IF count = None THEN ReferenceFailed(s, lookup.request.path) ELSE OpenReference(s, lookup.request.path, count)

\* The answer to a card that asked for it, unless it has one.
AnswerCard(card, lookup, resolution) ==
  IF card # None /\ card.request = lookup.request /\ card.answer \in {Local, Waiting}
  THEN [card EXCEPT !.answer = resolution] ELSE card

\* Answers the card, and is kept unless it may be better another time.
FinishDefinition(n, lookup, resolution) ==
  [n EXCEPT !.card = AnswerCard(@, lookup, resolution),
            !.answers = IF resolution.status = "Failed" THEN @
                        ELSE {a \in @ : a.request # lookup.request}
                             \cup {[request |-> lookup.request, resolution |-> resolution]}]

\* The place to jump to once a lookup that is followed is answered.
Followed(n, lookup) ==
  IF n.card # None /\ n.card.request = lookup.request /\ n.card.following THEN Target(n.card) ELSE None
=============================================================================
