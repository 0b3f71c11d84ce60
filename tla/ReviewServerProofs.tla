------------------------- MODULE ReviewServerProofs -------------------------
(***************************************************************************)
(* Proofs about ReviewServer, for any set of connections and targets and   *)
(* any bounds: its types and the single completion of its review.          *)
(***************************************************************************)
EXTENDS ReviewServer, SequenceTheorems, TLAPS

-----------------------------------------------------------------------------
(* Types.                                                                   *)

\* A session that publishes its completion carries one: `finished` was set by the
\* command that reserved it, and nothing else is polled while it is published.
CompletingCarries == \A c \in Connections : phase[c] = "completing" => CarriesCompletion(finished[c])

LEMMA Constants ==
  /\ OwnTarget \in Targets /\ FileChanges \subseteq Nat /\ Capacity \in Nat \ {0}
  /\ NoDocument \in Document /\ Unsubscribed \in State /\ NoRun \in Run
BY ConstantsAssumption DEF NoDocument, Document, Unsubscribed, State, NoRun, Run, Kinds

LEMMA SnapshotType ==
  ASSUME TypeOK, NEW c \in Connections
  PROVE  Snapshot(c) \in Document
BY DEF TypeOK, Snapshot, Document, State

\* Whatever a session publishes is an event of the wire.
LEMMA EventTypes ==
  /\ [kind |-> "Initialize"] \in Event
  /\ \A d \in Document : [kind |-> "Document", doc |-> d] \in Event
  /\ \A n \in Nat : [kind |-> "Files", loaded |-> n] \in Event
  /\ \A e \in BOOLEAN : [kind |-> "Health", error |-> e] \in Event
  /\ \A n \in Nat, ok \in BOOLEAN : [kind |-> "RequestResult", number |-> n, ok |-> ok] \in Event
  /\ \A n \in Nat, b \in BOOLEAN : [kind |-> "Lookup", number |-> n, busy |-> b] \in Event
  /\ \A code \in ErrorCodes : [kind |-> "Error", code |-> code] \in Event
BY DEF Event

LEMMA PublishType ==
  ASSUME TypeOK, NEW c \in Connections, NEW event \in Event, Publish(c, event)
  PROVE  outbox' \in [Connections -> Seq(Event)]
<1>1. outbox \in [Connections -> Seq(Event)]
  BY DEF TypeOK
<1>2. Append(outbox[c], event) \in Seq(Event)
  BY <1>1, AppendProperties
<1> QED BY <1>1, <1>2 DEF Publish

LEMMA ReceiveType ==
  ASSUME TypeOK, NEW c \in Connections, inbox[c] # <<>>
  PROVE  Head(inbox[c]) \in Command /\ (Receive(c) => inbox' \in [Connections -> Seq(Command)])
<1>1. inbox \in [Connections -> Seq(Command)]
  BY DEF TypeOK
<1>2. Head(inbox[c]) \in Command /\ Tail(inbox[c]) \in Seq(Command)
  BY <1>1, HeadTailProperties
<1> QED BY <1>1, <1>2 DEF Receive

\* A session that ends leaves well-typed variables behind, whatever they held.
LEMMA EndSessionType ==
  ASSUME TypeOK, NEW c \in Connections, NEW to \in Phases, EndSession(c, to)
  PROVE  /\ phase' \in [Connections -> Phases]
         /\ target' \in [Connections -> Targets]
         /\ current' \in [Connections -> State]
         /\ published' \in [Connections -> Document]
         /\ listed' \in [Connections -> Nat \cup {-1}]
         /\ health' \in [Connections -> BOOLEAN]
         /\ queued' \in [Connections -> Seq(Command)]
         /\ run' \in [Connections -> Run]
         /\ finished' \in [Connections -> Run]
         /\ lookups' \in [Connections -> SUBSET LookupTask]
         /\ reply' \in [Connections -> Seq(Event)]
         /\ shown' \in [Connections -> Document]
<1>1. /\ phase' \in [Connections -> Phases] /\ target' \in [Connections -> Targets]
      /\ current' \in [Connections -> State] /\ published' \in [Connections -> Document]
  BY Constants DEF TypeOK, EndSession
<1>2. /\ listed' \in [Connections -> Nat \cup {-1}] /\ health' \in [Connections -> BOOLEAN]
      /\ queued' \in [Connections -> Seq(Command)] /\ run' \in [Connections -> Run]
      /\ finished' \in [Connections -> Run]
  BY Constants DEF TypeOK, EndSession
<1>3. /\ lookups' \in [Connections -> SUBSET LookupTask] /\ reply' \in [Connections -> Seq(Event)]
      /\ shown' \in [Connections -> Document]
  BY Constants DEF TypeOK, EndSession
<1> QED BY <1>1, <1>2, <1>3

LEMMA FailType ==
  ASSUME TypeOK, NEW c \in Connections, NEW code \in ErrorCodes, Fail(c, code),
         /\ accepted' \in BOOLEAN /\ stop' \in BOOLEAN /\ gaveUp' \in BOOLEAN /\ watcherUp' \in BOOLEAN
         /\ completions' \in Seq(Completion) /\ delivered' \in Seq(Completion)
         /\ repo' \in Nat
         /\ channel' \in [Targets -> State]
         /\ inbox' \in [Connections -> Seq(Command)]
         /\ link' \in [Connections -> {"up", "down"}]
         /\ sent' \in [Connections -> [requests: Nat, lookups: Nat]]
         /\ outbox' \in [Connections -> Seq(Event)]
         /\ answered' \in [Connections -> Nat]
         /\ acked' \in [Connections -> BOOLEAN]
  PROVE  TypeOK'
<1>1. failure' \in [Connections -> ErrorCodes]
  BY DEF TypeOK, Fail
<1>2. EndSession(c, "failed") /\ "failed" \in Phases
  BY DEF Fail, Phases
<1> QED BY <1>1, <1>2, EndSessionType DEF TypeOK

LEMMA InitType == Init => TypeOK
<1> SUFFICES ASSUME Init PROVE TypeOK
  OBVIOUS
<1>1. completions \in Seq(Completion) /\ delivered \in Seq(Completion)
  BY DEF Init
<1>2. channel \in [Targets -> State]
  BY DEF Init, Unsubscribed, State
<1>3. /\ inbox \in [Connections -> Seq(Command)]
      /\ outbox \in [Connections -> Seq(Event)]
      /\ queued \in [Connections -> Seq(Command)]
      /\ reply \in [Connections -> Seq(Event)]
  BY DEF Init
<1>4. /\ sent \in [Connections -> [requests: Nat, lookups: Nat]]
      /\ lookups \in [Connections -> SUBSET LookupTask]
  BY DEF Init
<1>5. /\ phase \in [Connections -> Phases]
      /\ failure \in [Connections -> ErrorCodes]
  BY DEF Init, Phases, ErrorCodes
<1>6. /\ target \in [Connections -> Targets]
      /\ current \in [Connections -> State]
      /\ published \in [Connections -> Document]
      /\ listed \in [Connections -> Nat \cup {-1}]
      /\ health \in [Connections -> BOOLEAN]
      /\ run \in [Connections -> Run]
      /\ finished \in [Connections -> Run]
      /\ shown \in [Connections -> Document]
      /\ answered \in [Connections -> Nat]
      /\ acked \in [Connections -> BOOLEAN]
      /\ link \in [Connections -> {"up", "down"}]
  BY Constants DEF Init
<1> QED BY <1>1, <1>2, <1>3, <1>4, <1>5, <1>6 DEF Init, TypeOK

LEMMA ClientType ==
  ASSUME TypeOK, NEW c \in Connections, Client(c)
  PROVE  TypeOK'
<1> USE DEF hostVars, repoVars, clientVars, lifeVars, viewVars, sentVars, workVars, ackVars, sessionVars
<1>1. CASE ClientSends(c)
  <2>1. PICK kind \in RequestKinds, t \in Targets :
          /\ inbox' = [inbox EXCEPT ![c] = Append(@, [kind |-> kind,
                number |-> IF kind = "Lookup" THEN sent[c].lookups + 1 ELSE sent[c].requests + 1,
                target |-> t])]
          /\ sent' = IF kind = "Lookup" THEN [sent EXCEPT ![c].lookups = sent[c].lookups + 1]
                     ELSE [sent EXCEPT ![c].requests = sent[c].requests + 1]
    BY <1>1 DEF ClientSends
  <2>2. inbox' \in [Connections -> Seq(Command)]
    <3>1. [kind |-> kind, number |-> IF kind = "Lookup" THEN sent[c].lookups + 1 ELSE sent[c].requests + 1,
           target |-> t] \in Command
      BY ConstantsAssumption DEF TypeOK, Command
    <3>2. inbox \in [Connections -> Seq(Command)]
      BY DEF TypeOK
    <3>3. Append(inbox[c], [kind |-> kind, number |-> IF kind = "Lookup" THEN sent[c].lookups + 1 ELSE sent[c].requests + 1,
           target |-> t]) \in Seq(Command)
      BY <3>1, <3>2, AppendProperties
    <3> QED BY <2>1, <3>2, <3>3
  <2>3. sent' \in [Connections -> [requests: Nat, lookups: Nat]]
    <3>1. sent \in [Connections -> [requests: Nat, lookups: Nat]]
      BY DEF TypeOK
    <3>2. sent[c].requests + 1 \in Nat /\ sent[c].lookups + 1 \in Nat
      BY <3>1
    <3> QED BY <2>1, <3>1, <3>2
  <2> QED BY <1>1, <2>2, <2>3 DEF TypeOK, ClientSends
<1>2. CASE ClientReads(c)
  BY <1>2, HeadTailProperties DEF TypeOK, ClientReads
<1>3. CASE ClientHangsUp(c)
  BY <1>3 DEF TypeOK, ClientHangsUp
<1> QED BY <1>1, <1>2, <1>3 DEF Client
LEMMA SubscribeToType ==
  ASSUME TypeOK, NEW t \in Targets, SubscribeTo(t)
  PROVE  channel' \in [Targets -> State]
BY DEF TypeOK, SubscribeTo, State

LEMMA EstablishType ==
  ASSUME TypeOK, NEW c \in Connections, Connect(c) \/ Establish(c)
  PROVE  TypeOK'
<1> USE DEF hostVars, repoVars, clientVars, lifeVars, viewVars, sentVars, workVars, ackVars, sessionVars
<1>0. \A code \in {"Cancelled", "Watcher", "Protocol", "UnsupportedVersion"} : code \in ErrorCodes
  BY DEF ErrorCodes
<1>1. CASE Connect(c)
  BY <1>1 DEF TypeOK, Connect, Phases
<1>2. CASE ReceiveHello(c)
  <2> DEFINE hello == Head(inbox[c])
  <2>1. hello \in Command /\ inbox' \in [Connections -> Seq(Command)]
    BY <1>2, ReceiveType DEF ReceiveHello
  <2>2. CASE hello.kind = "Initialize"
    BY <1>2, <2>1, <2>2 DEF TypeOK, ReceiveHello, Command, Phases
  <2>3. CASE hello.kind # "Initialize"
    <3>1. PICK code \in ErrorCodes : Fail(c, code)
      BY <1>0, <1>2, <2>3 DEF ReceiveHello
    <3> QED BY <1>2, <2>1, <2>3, <3>1, FailType DEF TypeOK, ReceiveHello
  <2> QED BY <2>2, <2>3
<1>3. CASE HelloFails(c)
  BY <1>0, <1>3, FailType DEF TypeOK, HelloFails
<1>4. CASE Greet(c)
  <2>1. CASE Publish(c, [kind |-> "Initialize"]) /\ phase' = [phase EXCEPT ![c] = "subscribing"]
             /\ UNCHANGED <<failure, sessionVars>>
    BY <1>4, <2>1, PublishType, EventTypes DEF TypeOK, Greet, Phases
  <2>2. CASE Fail(c, "Cancelled") /\ UNCHANGED outbox
    BY <1>0, <1>4, <2>2, FailType DEF TypeOK, Greet
  <2> QED BY <1>4, <2>1, <2>2 DEF Greet
<1>5. CASE Subscribe(c)
  <2>0. target[c] \in Targets
    BY DEF TypeOK
  <2>1. CASE SubscribeTo(target[c]) /\ phase' = [phase EXCEPT ![c] = "serving"]
             /\ current' = [current EXCEPT ![c] = channel'[target[c]]]
             /\ UNCHANGED <<failure, target, sentVars, workVars, shown>>
    <3>1. channel' \in [Targets -> State]
      BY <2>0, <2>1, SubscribeToType
    <3>2. current' \in [Connections -> State]
      BY <2>0, <2>1, <3>1 DEF TypeOK
    <3>3. phase' \in [Connections -> Phases]
      BY <2>1 DEF TypeOK, Phases
    <3> QED BY <1>5, <2>1, <3>1, <3>2, <3>3 DEF TypeOK, Subscribe
  <2>2. CASE Fail(c, "Watcher") /\ UNCHANGED channel
    BY <1>0, <1>5, <2>2, FailType DEF TypeOK, Subscribe
  <2> QED BY <1>5, <2>1, <2>2 DEF Subscribe
<1> QED BY <1>1, <1>2, <1>3, <1>4, <1>5 DEF Establish

LEMMA LoopBodyType ==
  ASSUME TypeOK, CompletingCarries, NEW c \in Connections, LoopBody(c)
  PROVE  TypeOK'
<1> USE DEF hostVars, repoVars, clientVars, lifeVars, viewVars, sentVars, workVars, ackVars, sessionVars
<1>0. "Cancelled" \in ErrorCodes /\ "Protocol" \in ErrorCodes
  BY DEF ErrorCodes
<1>00. current[c] \in State /\ finished[c] \in Run /\ reply[c] \in Seq(Event)
  BY DEF TypeOK
<1>1. CASE PublishDocument(c)
  <2>1. [kind |-> "Document", doc |-> Snapshot(c)] \in Event /\ Snapshot(c) \in Document
    BY SnapshotType, EventTypes
  <2> QED BY <1>1, <2>1, PublishType DEF TypeOK, PublishDocument
<1>2. CASE PublishFiles(c)
  <2>1. current[c].loaded \in Nat
    BY <1>00 DEF State
  <2>2. [kind |-> "Files", loaded |-> current[c].loaded] \in Event
    BY <2>1, EventTypes
  <2> QED BY <1>2, <2>1, <2>2, PublishType DEF TypeOK, PublishFiles
<1>3. CASE PublishHealth(c)
  <2>1. current[c].error \in BOOLEAN
    BY <1>00 DEF State
  <2>2. [kind |-> "Health", error |-> current[c].error] \in Event
    BY <2>1, EventTypes
  <2> QED BY <1>3, <2>1, <2>2, PublishType DEF TypeOK, PublishHealth
<1>4. CASE PublishFails(c)
  BY <1>0, <1>4, FailType DEF TypeOK, PublishFails
<1>5. CASE AnswerRequest(c)
  <2>1. finished[c].number \in Nat /\ finished[c].ok \in BOOLEAN
    BY <1>00 DEF Run
  <2>2. [kind |-> "RequestResult", number |-> finished[c].number, ok |-> finished[c].ok] \in Event
    BY <2>1, EventTypes
  <2>3. CASE Publish(c, [kind |-> "RequestResult", number |-> finished[c].number, ok |-> finished[c].ok])
             /\ answered' = [answered EXCEPT ![c] = finished[c].number]
             /\ phase' = [phase EXCEPT ![c] = "completing"]
             /\ acked' = [acked EXCEPT ![c] = TRUE]
             /\ UNCHANGED <<finished, failure, viewVars, sentVars, queued, run, lookups, reply, shown>>
    BY <1>5, <2>1, <2>2, <2>3, PublishType DEF TypeOK, AnswerRequest, Phases
  <2>4. CASE Publish(c, [kind |-> "RequestResult", number |-> finished[c].number, ok |-> finished[c].ok])
             /\ answered' = [answered EXCEPT ![c] = finished[c].number]
             /\ finished' = [finished EXCEPT ![c] = NoRun]
             /\ UNCHANGED <<phase, acked, failure, viewVars, sentVars, queued, run, lookups, reply, shown>>
    BY <1>5, <2>1, <2>2, <2>4, PublishType, Constants DEF TypeOK, AnswerRequest
  <2>5. CASE phase' = [phase EXCEPT ![c] = "completing"]
             /\ UNCHANGED <<outbox, failure, sessionVars, ackVars>>
    BY <1>5, <2>5 DEF TypeOK, AnswerRequest, Phases
  <2>6. CASE Fail(c, "Cancelled") /\ UNCHANGED <<outbox, ackVars>>
    BY <1>0, <1>5, <2>6, FailType DEF TypeOK, AnswerRequest
  <2> QED BY <1>5, <2>3, <2>4, <2>5, <2>6 DEF AnswerRequest
<1>6. CASE PublishCompletion(c)
  <2>1. CompletionOf(c, finished[c]) \in Completion
    BY <1>00, <1>6 DEF PublishCompletion, CompletingCarries, CarriesCompletion, CompletionOf, Completion, Run
  <2>2. Append(completions, CompletionOf(c, finished[c])) \in Seq(Completion)
    BY <2>1, AppendProperties DEF TypeOK
  <2>3. completions' \in Seq(Completion)
    BY <1>6, <2>2 DEF TypeOK, PublishCompletion
  <2>4. CASE EndSession(c, "closing") /\ UNCHANGED failure
    <3>1. "closing" \in Phases
      BY DEF Phases
    <3> QED BY <1>6, <2>3, <2>4, <3>1, EndSessionType DEF TypeOK, PublishCompletion
  <2>5. CASE Fail(c, "Cancelled")
    BY <1>0, <1>6, <2>3, <2>5, FailType DEF TypeOK, PublishCompletion
  <2> QED BY <1>6, <2>4, <2>5 DEF PublishCompletion
<1>7. CASE StartQueued(c)
  <2> DEFINE command == Head(queued[c])
             started == [stage |-> "requested", kind |-> command.kind, number |-> command.number,
                         target |-> target[c], next |-> command.target, ok |-> FALSE, since |-> repo]
  <2>1. queued[c] \in Seq(Command) /\ queued[c] # <<>>
    BY <1>7 DEF TypeOK, StartQueued, StartDue
  <2>2. command \in Command /\ Tail(queued[c]) \in Seq(Command)
    BY <2>1, HeadTailProperties
  <2>3. started \in Run
    BY <2>2 DEF TypeOK, Command, Run
  <2>4. [started EXCEPT !.stage = "done", !.ok = Reserves(command.kind)] \in Run
    BY <2>3, <2>2 DEF Run, Command, Reserves, TypeOK
  <2>5. CASE Fail(c, "Protocol") /\ UNCHANGED accepted
    BY <1>0, <1>7, <2>5, FailType DEF TypeOK, StartQueued
  <2>6. CASE /\ run' = [run EXCEPT ![c] = started]
             /\ queued' = [queued EXCEPT ![c] = Tail(@)]
             /\ UNCHANGED <<accepted, lifeVars, viewVars, sentVars, finished, lookups, reply, shown>>
    <3>1. run' \in [Connections -> Run] /\ queued' \in [Connections -> Seq(Command)]
      BY <2>2, <2>3, <2>6 DEF TypeOK
    <3> QED BY <1>7, <2>6, <3>1 DEF TypeOK, StartQueued
  <2>7. CASE /\ run' = [run EXCEPT ![c] = [started EXCEPT !.stage = "done", !.ok = Reserves(command.kind)]]
             /\ accepted' = TRUE
             /\ queued' = [queued EXCEPT ![c] = Tail(@)]
             /\ UNCHANGED <<lifeVars, viewVars, sentVars, finished, lookups, reply, shown>>
    <3>1. run' \in [Connections -> Run] /\ queued' \in [Connections -> Seq(Command)]
      BY <2>2, <2>4, <2>7 DEF TypeOK
    <3> QED BY <1>7, <2>7, <3>1 DEF TypeOK, StartQueued
  <2> QED BY <1>7, <2>5, <2>6, <2>7 DEF StartQueued
<1>8. CASE PublishReply(c)
  <2>1. Head(reply[c]) \in Event
    BY <1>00, <1>8, HeadTailProperties DEF PublishReply
  <2>2. CASE Publish(c, Head(reply[c])) /\ reply' = [reply EXCEPT ![c] = <<>>] /\ Borrow(c)
             /\ UNCHANGED <<lifeVars, target, sentVars, queued, run, finished, lookups, shown>>
    <3>1. outbox' \in [Connections -> Seq(Event)]
      BY <2>1, <2>2, PublishType
    <3>2. current' \in [Connections -> State] /\ reply' \in [Connections -> Seq(Event)]
      BY <2>2 DEF TypeOK, Borrow
    <3> QED BY <1>8, <2>2, <3>1, <3>2 DEF TypeOK, PublishReply
  <2>3. CASE Fail(c, "Cancelled") /\ UNCHANGED outbox
    BY <1>0, <1>8, <2>3, FailType DEF TypeOK, PublishReply
  <2> QED BY <1>8, <2>2, <2>3 DEF PublishReply
<1> QED BY <1>1, <1>2, <1>3, <1>4, <1>5, <1>6, <1>7, <1>8 DEF LoopBody

LEMMA LoadType ==
  ASSUME TypeOK, NEW t \in Targets, LoadInto(t) \/ LoadFailsInto(t)
  PROVE  channel' \in [Targets -> State]
<1>1. channel[t] \in State /\ repo \in Nat
  BY DEF TypeOK
<1>2. /\ [live |-> TRUE, loaded |-> repo, error |-> FALSE] \in State
      /\ [channel[t] EXCEPT !.error = TRUE] \in State
  BY <1>1 DEF State
<1> QED BY <1>1, <1>2 DEF TypeOK, LoadInto, LoadFailsInto

LEMMA CommandFutureType ==
  ASSUME TypeOK, NEW c \in Connections, CommandFuture(c)
  PROVE  TypeOK'
<1> USE DEF hostVars, repoVars, clientVars, lifeVars, viewVars, sentVars, workVars, ackVars, sessionVars
<1>0. run[c] \in Run /\ run[c].target \in Targets /\ run[c].next \in Targets
  BY DEF TypeOK, Run
<1>1. ASSUME NEW ok \in BOOLEAN, Done(c, ok)
      PROVE  run' \in [Connections -> Run]
  <2>1. [run[c] EXCEPT !.stage = "done", !.ok = ok] \in Run
    BY <1>0 DEF Run
  <2> QED BY <1>1, <2>1 DEF TypeOK, Done
<1>2. CASE SwitchTarget(c)
  <2>1. channel' \in [Targets -> State]
    BY <1>0, <1>2, SubscribeToType DEF SwitchTarget, TypeOK
  <2>2. run' \in [Connections -> Run]
    BY <1>1, <1>2 DEF SwitchTarget
  <2> QED BY <1>2, <2>1, <2>2 DEF TypeOK, SwitchTarget
<1>3. CASE RefreshTarget(c)
  <2>1. channel' \in [Targets -> State]
    BY <1>0, <1>3, LoadType DEF RefreshTarget, TypeOK
  <2>2. run' \in [Connections -> Run]
    BY <1>1, <1>3 DEF RefreshTarget
  <2> QED BY <1>3, <2>1, <2>2 DEF TypeOK, RefreshTarget
<1>4. CASE ApplyAction(c)
  <2>0. repo \in Nat /\ repo + 1 \in Nat
    BY DEF TypeOK
  <2>1. repo' \in Nat
    BY <1>4, <2>0 DEF ApplyAction
  <2>2. CASE run' = [run EXCEPT ![c] = [@ EXCEPT !.stage = "refreshing", !.since = repo + 1]]
    <3>1. [run[c] EXCEPT !.stage = "refreshing", !.since = repo + 1] \in Run
      BY <1>0, <2>0 DEF Run
    <3>2. run' \in [Connections -> Run]
      BY <2>2, <3>1 DEF TypeOK
    <3> QED BY <1>4, <2>1, <3>2 DEF TypeOK, ApplyAction
  <2>3. CASE Done(c, FALSE)
    <3>1. run' \in [Connections -> Run]
      BY <1>1, <2>3
    <3> QED BY <1>4, <2>1, <3>1 DEF TypeOK, ApplyAction
  <2> QED BY <1>4, <2>2, <2>3 DEF ApplyAction
<1> QED BY <1>2, <1>3, <1>4 DEF CommandFuture

LEMMA SelectType ==
  ASSUME TypeOK, NEW c \in Connections, Select(c)
  PROVE  TypeOK'
<1> USE DEF hostVars, repoVars, clientVars, lifeVars, viewVars, sentVars, workVars, ackVars, sessionVars
<1>0. "Cancelled" \in ErrorCodes /\ "Protocol" \in ErrorCodes
  BY DEF ErrorCodes
<1>00. Borrow(c) => current' \in [Connections -> State]
  BY DEF TypeOK, Borrow
<1>1. CASE StateChanged(c)
  BY <1>00, <1>1 DEF TypeOK, StateChanged
<1>2. CASE WatcherGone(c)
  BY <1>0, <1>2, FailType DEF TypeOK, WatcherGone
<1>3. CASE ReceiveRequest(c)
  <2>1. Head(inbox[c]) \in Command /\ inbox' \in [Connections -> Seq(Command)]
    BY <1>3, ReceiveType DEF ReceiveRequest
  <2>2. queued[c] \in Seq(Command)
    BY DEF TypeOK
  <2>3. Queue(c, Head(inbox[c])) \in Seq(Command)
    BY <2>1, <2>2, AppendProperties DEF Queue
  <2> QED BY <1>00, <1>3, <2>1, <2>3 DEF TypeOK, ReceiveRequest
<1>4. CASE ReceiveLookup(c)
  <2>1. Head(inbox[c]) \in Command /\ inbox' \in [Connections -> Seq(Command)]
    BY <1>4, ReceiveType DEF ReceiveLookup
  <2> DEFINE task == [number |-> Head(inbox[c]).number, doc |-> Snapshot(c),
                      busy |-> Cardinality(lookups[c]) >= MaxRunning]
  <2>2. lookups' = [lookups EXCEPT ![c] = @ \cup {task}]
    BY <1>4 DEF ReceiveLookup
  <2>3. task \in LookupTask
    BY <2>1, SnapshotType DEF Command, LookupTask
  <2>4. lookups[c] \cup {task} \in SUBSET LookupTask
    BY <2>3 DEF TypeOK
  <2> HIDE DEF task
  <2>5. lookups' \in [Connections -> SUBSET LookupTask]
    BY <2>2, <2>4 DEF TypeOK
  <2> QED BY <1>00, <1>4, <2>1, <2>5 DEF TypeOK, ReceiveLookup
<1>5. CASE ReceiveFails(c)
  <2>1. inbox' \in [Connections -> Seq(Command)]
    BY <1>5, ReceiveType DEF ReceiveFails, TypeOK
  <2>2. PICK code \in ErrorCodes : Fail(c, code)
    BY <1>0, <1>5 DEF ReceiveFails
  <2> QED BY <1>5, <2>1, <2>2, FailType DEF TypeOK, ReceiveFails
<1>6. CASE LookupEnds(c)
  <2>1. PICK task \in lookups[c] :
          /\ lookups' = [lookups EXCEPT ![c] = @ \ {task}]
          /\ reply' = [reply EXCEPT ![c] = <<[kind |-> "Lookup", number |-> task.number, busy |-> task.busy]>>]
    BY <1>6 DEF LookupEnds
  <2>2. task \in LookupTask
    BY DEF TypeOK
  <2>3. [kind |-> "Lookup", number |-> task.number, busy |-> task.busy] \in Event
    BY <2>2, EventTypes DEF LookupTask
  <2> QED BY <1>6, <2>1, <2>3 DEF TypeOK, LookupEnds
<1>7. CASE Heartbeat(c)
  <2>1. [kind |-> "Health", error |-> health[c]] \in Event
    BY EventTypes DEF TypeOK
  <2> QED BY <1>7, <2>1 DEF TypeOK, Heartbeat
<1>8. CASE CommandEnds(c)
  <2>1. run[c] \in Run /\ run[c].next \in Targets
    BY DEF TypeOK, Run
  <2>2. CASE run[c].kind = "SetTarget" /\ run[c].ok
    <3>0. /\ target' = [target EXCEPT ![c] = run[c].next]
          /\ current' = [current EXCEPT ![c] = channel[run[c].next]]
          /\ published' = [published EXCEPT ![c] = NoDocument]
          /\ health' = [health EXCEPT ![c] = FALSE]
      BY <1>8, <2>2 DEF CommandEnds
    <3>1. /\ target' \in [Connections -> Targets] /\ current' \in [Connections -> State]
          /\ published' \in [Connections -> Document] /\ health' \in [Connections -> BOOLEAN]
      BY <2>1, <3>0, Constants DEF TypeOK
    <3>2. finished' \in [Connections -> Run] /\ run' \in [Connections -> Run]
      BY <1>8, <2>1, Constants DEF TypeOK, CommandEnds
    <3> QED BY <1>8, <3>1, <3>2 DEF TypeOK, CommandEnds
  <2>3. CASE ~(run[c].kind = "SetTarget" /\ run[c].ok)
    BY <1>00, <1>8, <2>1, <2>3, Constants DEF TypeOK, CommandEnds
  <2> QED BY <2>2, <2>3
<1> QED BY <1>1, <1>2, <1>3, <1>4, <1>5, <1>6, <1>7, <1>8 DEF Select

LEMMA CloseType ==
  ASSUME TypeOK, NEW c \in Connections, Close(c)
  PROVE  TypeOK'
<1> USE DEF hostVars, repoVars, clientVars, lifeVars, viewVars, sentVars, workVars, ackVars, sessionVars
<1>0. "closing" \in Phases /\ "closed" \in Phases
  BY DEF Phases
<1>1. CASE ReportFailure(c)
  <2>1. [kind |-> "Error", code |-> failure[c]] \in Event
    BY EventTypes DEF TypeOK
  <2>2. outbox' \in [Connections -> Seq(Event)]
    BY <1>1, <2>1, PublishType DEF TypeOK, ReportFailure
  <2> QED BY <1>0, <1>1, <2>2 DEF TypeOK, ReportFailure
<1>2. CASE DropSession(c)
  BY <1>0, <1>2, EndSessionType DEF TypeOK, DropSession
<1>3. CASE CloseTransport(c)
  <2>1. inbox' \in [Connections -> Seq(Command)] /\ phase' \in [Connections -> Phases]
    BY <1>0, <1>3 DEF TypeOK, CloseTransport
  <2> QED BY <1>3, <2>1 DEF TypeOK, CloseTransport
<1> QED BY <1>1, <1>2, <1>3 DEF Close

LEMMA HostType ==
  ASSUME TypeOK, NextReview \/ StopServer \/ GiveUp \/ RepositoryChanges \/ Watcher \/ WatcherStops \/ Terminated
  PROVE  TypeOK'
<1> USE DEF hostVars, repoVars, clientVars, lifeVars, viewVars, sentVars, workVars, ackVars, sessionVars
<1>1. CASE NextReview
  <2>1. Head(completions) \in Completion /\ Tail(completions) \in Seq(Completion)
    BY <1>1, HeadTailProperties DEF TypeOK, NextReview
  <2>2. Append(delivered, Head(completions)) \in Seq(Completion)
    BY <2>1, AppendProperties DEF TypeOK
  <2> QED BY <1>1, <2>1, <2>2 DEF TypeOK, NextReview
<1>2. CASE StopServer \/ GiveUp
  BY <1>2 DEF TypeOK, StopServer, GiveUp
<1>3. CASE RepositoryChanges
  BY <1>3 DEF TypeOK, RepositoryChanges
<1>4. CASE Watcher
  <2>1. PICK t \in Targets : WatcherLoads(t) \/ WatcherForgets(t)
    BY <1>4 DEF Watcher
  <2>2. channel' \in [Targets -> State]
    BY <2>1, LoadType, Constants DEF TypeOK, WatcherLoads, WatcherForgets
  <2> QED BY <2>1, <2>2 DEF TypeOK, WatcherLoads, WatcherForgets
<1>5. CASE WatcherStops
  BY <1>5 DEF TypeOK, WatcherStops
<1>6. CASE Terminated
  BY <1>6 DEF TypeOK, Terminated, vars
<1> QED BY <1>1, <1>2, <1>3, <1>4, <1>5, <1>6

LEMMA TypeStep ==
  ASSUME TypeOK, CompletingCarries, [Next]_vars
  PROVE  TypeOK'
<1>1. CASE UNCHANGED vars
  BY <1>1 DEF TypeOK, vars, hostVars, repoVars, clientVars, lifeVars, viewVars, sentVars, workVars,
              ackVars, sessionVars
<1>2. ASSUME NEW c \in Connections,
             Client(c) \/ Connect(c) \/ Establish(c) \/ LoopBody(c) \/ CommandFuture(c) \/ Select(c) \/ Close(c)
      PROVE  TypeOK'
  BY <1>2, ClientType, EstablishType, LoopBodyType, CommandFutureType, SelectType, CloseType
<1> QED BY <1>1, <1>2, HostType DEF Next

-----------------------------------------------------------------------------
(* The one completion.                                                      *)

\* A completion is reserved by setting `accepted`, which is never reset: before that
\* nobody holds one and none was published.
NothingBeforeReservation ==
  ~accepted => /\ completions = <<>> /\ delivered = <<>>
               /\ \A c \in Connections : ~Holds(c)

\* Only an Apply has a second stage, so no command future ends as a completion.
RefreshingApplies == \A c \in Connections : run[c].stage = "refreshing" => run[c].kind = "Apply"

\* The part of the inductive invariant that is about the completion.
CompletionInv ==
  /\ CompletingCarries
  /\ NothingBeforeReservation
  /\ RefreshingApplies
  /\ OneReview
  /\ AcknowledgedReviewIsKept

IInv == TypeOK /\ CompletionInv

LEMMA InitIInv == Init => IInv
<1> SUFFICES ASSUME Init PROVE IInv
  OBVIOUS
<1>1. \A c \in Connections : ~Holds(c)
  BY DEF Init, Holds, CarriesCompletion, NoRun
<1>2. Len(completions) + Len(delivered) <= 1
  BY DEF Init
<1>3. CompletingCarries /\ RefreshingApplies /\ NothingBeforeReservation
  BY <1>1 DEF Init, CompletingCarries, RefreshingApplies, NothingBeforeReservation, NoRun
<1>4. OneReview
  BY <1>1, <1>2 DEF Init, OneReview, CarriesCompletion, NoRun
<1>5. AcknowledgedReviewIsKept
  BY DEF Init, AcknowledgedReviewIsKept
<1> QED BY <1>3, <1>4, <1>5, InitType DEF IInv, CompletionInv

\* The steps that touch neither a command nor a completion of any session.
LEMMA Untouched ==
  ASSUME IInv, UNCHANGED <<accepted, completions, delivered, run, finished, acked>>,
         stop => stop',
         \A c \in Connections : phase'[c] = "completing" <=> phase[c] = "completing"
  PROVE  CompletionInv'
<1>1. \A c \in Connections : Holds(c)' <=> Holds(c)
  BY DEF Holds, CarriesCompletion
<1>2. CompletingCarries' /\ NothingBeforeReservation' /\ RefreshingApplies'
  BY <1>1 DEF IInv, CompletionInv, CompletingCarries, NothingBeforeReservation, RefreshingApplies, CarriesCompletion
<1>3. OneReview'
  BY <1>1 DEF IInv, CompletionInv, OneReview, CarriesCompletion
<1>4. AcknowledgedReviewIsKept'
  BY <1>1 DEF IInv, CompletionInv, AcknowledgedReviewIsKept
<1> QED BY <1>2, <1>3, <1>4 DEF CompletionInv

\* A session that ends without publishing loses what it holds; the others keep theirs.
LEMMA Ended ==
  ASSUME IInv, NEW c \in Connections, NEW to \in {"failed", "closing"}, EndSession(c, to),
         UNCHANGED <<accepted, completions, delivered, stop, acked>>,
         phase[c] = "completing" => stop
  PROVE  CompletionInv'
<1>1. /\ run'[c] = NoRun /\ finished'[c] = NoRun /\ phase'[c] = to
      /\ \A d \in Connections \ {c} :
           run'[d] = run[d] /\ finished'[d] = finished[d] /\ phase'[d] = phase[d]
  BY DEF EndSession, IInv, TypeOK
<1>2. ~Holds(c)' /\ \A d \in Connections \ {c} : Holds(d)' <=> Holds(d)
  BY <1>1 DEF Holds, CarriesCompletion, NoRun
<1>3. CompletingCarries' /\ RefreshingApplies'
  BY <1>1 DEF IInv, CompletionInv, CompletingCarries, RefreshingApplies, CarriesCompletion, NoRun
<1>4. NothingBeforeReservation'
  BY <1>2 DEF IInv, CompletionInv, NothingBeforeReservation
<1>5. OneReview'
  BY <1>1, <1>2 DEF IInv, CompletionInv, OneReview, CarriesCompletion, NoRun
<1>6. AcknowledgedReviewIsKept'
  BY <1>1, <1>2 DEF IInv, CompletionInv, AcknowledgedReviewIsKept
<1> QED BY <1>3, <1>4, <1>5, <1>6 DEF CompletionInv

LEMMA ClientKeeps ==
  ASSUME IInv, NEW c \in Connections, Client(c)
  PROVE  CompletionInv'
BY Untouched DEF Client, ClientSends, ClientReads, ClientHangsUp, hostVars, lifeVars, sessionVars, workVars, ackVars

LEMMA EstablishKeeps ==
  ASSUME IInv, NEW c \in Connections, Connect(c) \/ Establish(c)
  PROVE  CompletionInv'
<1> USE DEF hostVars, sessionVars, workVars, ackVars
<1>0. phase \in [Connections -> Phases]
  BY DEF IInv, TypeOK
<1>1. CASE \E code \in ErrorCodes : Fail(c, code) /\ phase[c] # "completing"
                                 /\ UNCHANGED <<accepted, completions, delivered, stop, acked>>
  BY <1>1, Ended DEF Fail
<1>2. CASE Connect(c)
  BY <1>0, <1>2, Untouched DEF Connect
<1>3. CASE ReceiveHello(c)
  BY <1>0, <1>1, <1>3, Untouched DEF ReceiveHello, ErrorCodes
<1>4. CASE HelloFails(c)
  BY <1>1, <1>4 DEF HelloFails, ErrorCodes
<1>5. CASE Greet(c)
  BY <1>0, <1>1, <1>5, Untouched DEF Greet, ErrorCodes
<1>6. CASE Subscribe(c)
  BY <1>0, <1>1, <1>6, Untouched DEF Subscribe, ErrorCodes
<1> QED BY <1>2, <1>3, <1>4, <1>5, <1>6 DEF Establish

\* The acknowledgement moves the completion nowhere: a session that reserved it goes on
\* to publish it, told or not.
LEMMA AnswerKeeps ==
  ASSUME IInv, NEW c \in Connections, AnswerRequest(c)
  PROVE  CompletionInv'
<1> USE DEF hostVars, sessionVars, workVars, ackVars, lifeVars
<1>0. /\ phase \in [Connections -> Phases] /\ finished \in [Connections -> Run]
      /\ acked \in [Connections -> BOOLEAN]
  BY DEF IInv, TypeOK
<1>00. phase[c] = "serving" /\ "Cancelled" \in ErrorCodes
  BY DEF AnswerRequest, Serving, ErrorCodes
<1>1. CASE /\ CarriesCompletion(finished[c])
           /\ phase' = [phase EXCEPT ![c] = "completing"]
           /\ acked' = [acked EXCEPT ![c] = TRUE] \/ UNCHANGED acked
           /\ UNCHANGED <<run, finished>>
  <2>1. \A d \in Connections : Holds(d)' <=> Holds(d)
    BY <1>1 DEF Holds, CarriesCompletion
  <2>2. UNCHANGED <<accepted, completions, delivered, stop>>
    BY DEF AnswerRequest
  <2>3. CompletingCarries' /\ NothingBeforeReservation' /\ RefreshingApplies'
    BY <1>0, <1>1, <2>1, <2>2 DEF IInv, CompletionInv, CompletingCarries, NothingBeforeReservation,
                                  RefreshingApplies, CarriesCompletion
  <2>4. OneReview'
    BY <1>1, <2>1, <2>2 DEF IInv, CompletionInv, OneReview, CarriesCompletion
  <2>5. AcknowledgedReviewIsKept'
    BY <1>0, <1>1, <2>1, <2>2 DEF IInv, CompletionInv, AcknowledgedReviewIsKept, Holds
  <2> QED BY <2>3, <2>4, <2>5 DEF CompletionInv
<1>2. CASE /\ ~CarriesCompletion(finished[c])
           /\ finished' = [finished EXCEPT ![c] = NoRun]
           /\ UNCHANGED <<phase, acked, run>>
  <2>1. \A d \in Connections : CarriesCompletion(finished[d])' <=> CarriesCompletion(finished[d])
    BY <1>0, <1>2 DEF CarriesCompletion, NoRun
  <2>2. \A d \in Connections : CarriesCompletion(run[d])' <=> CarriesCompletion(run[d])
    BY <1>2 DEF CarriesCompletion
  <2>3. UNCHANGED <<accepted, completions, delivered, stop>>
    BY DEF AnswerRequest
  <2>4. CompletingCarries' /\ NothingBeforeReservation' /\ RefreshingApplies'
    BY <1>2, <2>1, <2>2, <2>3 DEF IInv, CompletionInv, CompletingCarries, NothingBeforeReservation,
                                  RefreshingApplies, Holds
  <2>5. OneReview'
    BY <2>1, <2>2, <2>3 DEF IInv, CompletionInv, OneReview, Holds
  <2>6. AcknowledgedReviewIsKept'
    BY <1>2, <2>1, <2>2, <2>3 DEF IInv, CompletionInv, AcknowledgedReviewIsKept, Holds
  <2> QED BY <2>4, <2>5, <2>6 DEF CompletionInv
<1>3. CASE Fail(c, "Cancelled") /\ UNCHANGED ackVars
  BY <1>00, <1>3, Ended DEF Fail, AnswerRequest
<1> QED BY <1>1, <1>2, <1>3 DEF AnswerRequest

LEMMA PublishKeeps ==
  ASSUME IInv, NEW c \in Connections, PublishCompletion(c)
  PROVE  CompletionInv'
<1> USE DEF hostVars, sessionVars, workVars, ackVars, lifeVars
<1>0. /\ phase[c] = "completing" /\ Holds(c) /\ accepted
      /\ completions = <<>> /\ delivered = <<>>
  BY DEF PublishCompletion, IInv, CompletionInv, CompletingCarries, Holds, NothingBeforeReservation, OneReview
<1>1. PICK to \in {"failed", "closing"} : EndSession(c, to)
  BY DEF PublishCompletion, Fail
<1>2. UNCHANGED <<accepted, delivered, stop, acked>>
  BY DEF PublishCompletion
<1>3. CASE UNCHANGED completions /\ stop
  BY <1>1, <1>2, <1>3, Ended
<1>4. CASE completions' = Append(completions, CompletionOf(c, finished[c]))
  <2>1. /\ run'[c] = NoRun /\ finished'[c] = NoRun /\ phase'[c] = to
        /\ \A d \in Connections \ {c} :
             run'[d] = run[d] /\ finished'[d] = finished[d] /\ phase'[d] = phase[d]
    BY <1>1 DEF EndSession, IInv, TypeOK
  <2>2. \A d \in Connections : ~Holds(d)'
    BY <1>0, <2>1 DEF IInv, CompletionInv, OneReview, Holds, CarriesCompletion, NoRun
  <2>3. /\ Len(completions') = 1 /\ Len(delivered') = 0
        /\ completions'[1] = CompletionOf(c, finished[c])
    BY <1>0, <1>2, <1>4
  <2>4. CompletingCarries' /\ RefreshingApplies' /\ NothingBeforeReservation'
    BY <1>0, <1>2, <2>1 DEF IInv, CompletionInv, CompletingCarries, RefreshingApplies, NothingBeforeReservation,
                            CarriesCompletion, NoRun
  <2>5. OneReview'
    BY <2>2, <2>3 DEF OneReview, Holds
  <2>6. AcknowledgedReviewIsKept'
    <3>1. SUFFICES ASSUME NEW d \in Connections, acked'[d], ~stop'
                   PROVE  d = c
      BY <2>3 DEF AcknowledgedReviewIsKept, CompletionOf
    <3>2. Holds(d)
      BY <1>0, <1>2, <3>1 DEF IInv, CompletionInv, AcknowledgedReviewIsKept
    <3> QED BY <1>0, <3>2 DEF IInv, CompletionInv, OneReview
  <2> QED BY <2>4, <2>5, <2>6 DEF CompletionInv
<1> QED BY <1>3, <1>4 DEF PublishCompletion, CompletionCanFail

\* A queued Submit or Cancel holds the completion exactly when it was the first to
\* reserve; every other command starts with nothing in its hands.
LEMMA StartKeeps ==
  ASSUME IInv, NEW c \in Connections, StartQueued(c)
  PROVE  CompletionInv'
<1> USE DEF hostVars, sessionVars, workVars, ackVars, lifeVars
<1>0. /\ phase[c] = "serving" /\ run[c].stage = "none" /\ finished[c].stage = "none"
      /\ UNCHANGED <<completions, delivered, stop, acked>>
      /\ run \in [Connections -> Run]
      /\ accepted \in BOOLEAN
  BY DEF StartQueued, StartDue, Serving, IInv, TypeOK
<1>1. CASE Fail(c, "Protocol") /\ UNCHANGED accepted
  BY <1>0, <1>1, Ended DEF Fail
<1>2. CASE /\ UNCHANGED <<phase, finished>>
           /\ \E r : /\ run' = [run EXCEPT ![c] = r]
                     /\ r.stage \in {"requested", "done"}
                     /\ \/ ~CarriesCompletion(r) /\ (accepted => accepted')
                        \/ CarriesCompletion(r) /\ ~accepted /\ accepted'
  <2>1. PICK r : /\ run' = [run EXCEPT ![c] = r]
                 /\ r.stage \in {"requested", "done"}
                 /\ \/ ~CarriesCompletion(r) /\ (accepted => accepted')
                    \/ CarriesCompletion(r) /\ ~accepted /\ accepted'
    BY <1>2
  <2>2. run'[c] = r /\ \A d \in Connections \ {c} : run'[d] = run[d]
    BY <1>0, <2>1
  <2>3. /\ \A d \in Connections \ {c} : Holds(d)' <=> Holds(d)
        /\ Holds(c)' <=> CarriesCompletion(r)
        /\ ~Holds(c)
    BY <1>0, <1>2, <2>2 DEF Holds, CarriesCompletion
  <2>4. CompletingCarries' /\ RefreshingApplies'
    BY <1>2, <2>1, <2>2 DEF IInv, CompletionInv, CompletingCarries, RefreshingApplies, CarriesCompletion
  <2>5. AcknowledgedReviewIsKept'
    BY <1>0, <1>2, <2>3 DEF IInv, CompletionInv, AcknowledgedReviewIsKept
  <2>6. NothingBeforeReservation'
    BY <1>0, <2>1, <2>3 DEF IInv, CompletionInv, NothingBeforeReservation
  <2>7. OneReview'
    <3>1. CASE ~CarriesCompletion(r)
      BY <1>0, <1>2, <2>2, <2>3, <3>1 DEF IInv, CompletionInv, OneReview, CarriesCompletion
    <3>2. CASE CarriesCompletion(r)
      <4>1. completions = <<>> /\ delivered = <<>> /\ \A d \in Connections : ~Holds(d)
        BY <2>1, <3>2 DEF IInv, CompletionInv, NothingBeforeReservation
      <4> QED BY <1>0, <1>2, <2>2, <2>3, <4>1 DEF IInv, CompletionInv, OneReview, CarriesCompletion, Holds
    <3> QED BY <3>1, <3>2
  <2> QED BY <2>4, <2>5, <2>6, <2>7 DEF CompletionInv
<1>3. ASSUME ~(Fail(c, "Protocol") /\ UNCHANGED accepted)
      PROVE  /\ UNCHANGED <<phase, finished>>
             /\ \E r : /\ run' = [run EXCEPT ![c] = r]
                       /\ r.stage \in {"requested", "done"}
                       /\ \/ ~CarriesCompletion(r) /\ (accepted => accepted')
                          \/ CarriesCompletion(r) /\ ~accepted /\ accepted'
  <2> DEFINE command == Head(queued[c])
             started == [stage |-> "requested", kind |-> command.kind, number |-> command.number,
                         target |-> target[c], next |-> command.target, ok |-> FALSE, since |-> repo]
             ended == [started EXCEPT !.stage = "done", !.ok = Reserves(command.kind)]
  <2>1. \/ run' = [run EXCEPT ![c] = started] /\ UNCHANGED <<accepted, phase, finished>>
        \/ /\ command.kind \in Completing /\ run' = [run EXCEPT ![c] = ended]
           /\ accepted' = TRUE /\ UNCHANGED <<phase, finished>>
    BY <1>0, <1>3 DEF StartQueued
  <2>2. started.stage = "requested" /\ ~CarriesCompletion(started)
    BY DEF CarriesCompletion
  <2>3. ended.stage = "done" /\ ended.kind = command.kind /\ ended.ok = Reserves(command.kind)
    OBVIOUS
  <2>4. command.kind \in Completing => (CarriesCompletion(ended) <=> ~accepted)
    BY <2>3 DEF CarriesCompletion, Reserves
  <2> HIDE DEF command, started, ended
  <2> QED BY <2>1, <2>2, <2>3, <2>4
<1> QED BY <1>1, <1>2, <1>3

\* A command's future never ends as a completion: those are ready when they start.
LEMMA CommandFutureKeeps ==
  ASSUME IInv, NEW c \in Connections, CommandFuture(c)
  PROVE  CompletionInv'
<1> USE DEF hostVars, sessionVars, workVars, ackVars, lifeVars
<1>0. /\ run \in [Connections -> Run]
      /\ UNCHANGED <<accepted, completions, delivered, stop, acked, phase, finished>>
  BY DEF CommandFuture, SwitchTarget, RefreshTarget, ApplyAction, IInv, TypeOK
<1>1. run[c].stage # "done" /\ run[c].kind \in {"SetTarget", "Refresh", "Apply"}
  BY DEF CommandFuture, SwitchTarget, RefreshTarget, ApplyAction, IInv, CompletionInv, RefreshingApplies
<1>2. /\ run'[c].kind = run[c].kind
      /\ run'[c].stage = "refreshing" => run[c].kind = "Apply"
      /\ \A d \in Connections \ {c} : run'[d] = run[d]
  <2>1. ASSUME NEW ok, Done(c, ok)
        PROVE  run'[c].kind = run[c].kind /\ run'[c].stage = "done" /\ \A d \in Connections \ {c} : run'[d] = run[d]
    <3>1. run'[c] = [run[c] EXCEPT !.stage = "done", !.ok = ok] /\ run[c] \in Run
      BY <1>0, <2>1 DEF Done
    <3> QED BY <1>0, <2>1, <3>1 DEF Done, Run
  <2>2. CASE SwitchTarget(c)
    BY <2>1, <2>2 DEF SwitchTarget
  <2>3. CASE RefreshTarget(c)
    BY <2>1, <2>3 DEF RefreshTarget
  <2>4. CASE ApplyAction(c)
    <3>1. CASE run' = [run EXCEPT ![c] = [@ EXCEPT !.stage = "refreshing", !.since = repo + 1]]
      BY <1>0, <2>4, <3>1 DEF ApplyAction, Run
    <3> QED BY <2>1, <2>4, <3>1 DEF ApplyAction
  <2> QED BY <2>2, <2>3, <2>4 DEF CommandFuture
<1>3. \A d \in Connections : /\ CarriesCompletion(run[d])' <=> CarriesCompletion(run[d])
                             /\ Holds(d)' <=> Holds(d)
  BY <1>0, <1>1, <1>2 DEF CarriesCompletion, Completing, Holds
<1>4. CompletingCarries' /\ NothingBeforeReservation' /\ RefreshingApplies'
  BY <1>0, <1>2, <1>3 DEF IInv, CompletionInv, CompletingCarries, NothingBeforeReservation, RefreshingApplies,
                          CarriesCompletion
<1>5. OneReview'
  BY <1>0, <1>3 DEF IInv, CompletionInv, OneReview, CarriesCompletion
<1>6. AcknowledgedReviewIsKept'
  BY <1>0, <1>3 DEF IInv, CompletionInv, AcknowledgedReviewIsKept
<1> QED BY <1>4, <1>5, <1>6 DEF CompletionInv

\* The completion of a command that ended moves from `running` to `finished`.
LEMMA CommandEndsKeeps ==
  ASSUME IInv, NEW c \in Connections, CommandEnds(c)
  PROVE  CompletionInv'
<1> USE DEF hostVars, lifeVars, ackVars
<1>0. /\ finished[c].stage = "none" /\ phase[c] = "serving"
      /\ finished' = [finished EXCEPT ![c] = run[c]] /\ run' = [run EXCEPT ![c] = NoRun]
      /\ UNCHANGED <<accepted, completions, delivered, stop, acked, phase>>
      /\ run \in [Connections -> Run] /\ finished \in [Connections -> Run]
  BY DEF CommandEnds, AtSelect, Serving, IInv, TypeOK
<1>1. /\ finished'[c] = run[c] /\ run'[c] = NoRun
      /\ \A d \in Connections \ {c} : finished'[d] = finished[d] /\ run'[d] = run[d]
  BY <1>0
<1>2. \A d \in Connections : Holds(d)' <=> Holds(d)
  BY <1>0, <1>1 DEF Holds, CarriesCompletion, NoRun
<1>3. CompletingCarries' /\ NothingBeforeReservation' /\ RefreshingApplies'
  BY <1>0, <1>1, <1>2 DEF IInv, CompletionInv, CompletingCarries, NothingBeforeReservation, RefreshingApplies,
                          CarriesCompletion, NoRun
<1>4. OneReview'
  BY <1>0, <1>1, <1>2 DEF IInv, CompletionInv, OneReview, CarriesCompletion, NoRun
<1>5. AcknowledgedReviewIsKept'
  BY <1>0, <1>2 DEF IInv, CompletionInv, AcknowledgedReviewIsKept
<1> QED BY <1>3, <1>4, <1>5 DEF CompletionInv

LEMMA LoopBodyKeeps ==
  ASSUME IInv, NEW c \in Connections, LoopBody(c)
  PROVE  CompletionInv'
<1> USE DEF hostVars, lifeVars, sessionVars, workVars, ackVars
<1>1. CASE PublishDocument(c) \/ PublishFiles(c) \/ PublishHealth(c)
  BY <1>1, Untouched DEF PublishDocument, PublishFiles, PublishHealth
<1>2. CASE PublishFails(c)
  BY <1>2, Ended DEF PublishFails, Fail, Serving
<1>3. CASE PublishReply(c)
  BY <1>3, Ended, Untouched DEF PublishReply, Fail
<1> QED BY <1>1, <1>2, <1>3, AnswerKeeps, PublishKeeps, StartKeeps DEF LoopBody

LEMMA SelectKeeps ==
  ASSUME IInv, NEW c \in Connections, Select(c)
  PROVE  CompletionInv'
<1> USE DEF hostVars, lifeVars, sessionVars, workVars, ackVars
<1>1. CASE StateChanged(c) \/ ReceiveRequest(c) \/ ReceiveLookup(c) \/ LookupEnds(c) \/ Heartbeat(c)
  BY <1>1, Untouched DEF StateChanged, ReceiveRequest, ReceiveLookup, LookupEnds, Heartbeat
<1>2. CASE WatcherGone(c) \/ ReceiveFails(c)
  BY <1>2, Ended DEF WatcherGone, ReceiveFails, Fail, AtSelect, Serving
<1> QED BY <1>1, <1>2, CommandEndsKeeps DEF Select

LEMMA CloseKeeps ==
  ASSUME IInv, NEW c \in Connections, Close(c)
  PROVE  CompletionInv'
<1> USE DEF hostVars, sessionVars, workVars, ackVars
<1>1. CASE ReportFailure(c)
  BY <1>1, Untouched DEF ReportFailure, IInv, TypeOK
<1>2. CASE DropSession(c)
  BY <1>2, Ended DEF DropSession
<1>3. CASE CloseTransport(c)
  BY <1>3, Untouched DEF CloseTransport, IInv, TypeOK
<1> QED BY <1>1, <1>2, <1>3 DEF Close

LEMMA HostKeeps ==
  ASSUME IInv, NextReview \/ StopServer \/ GiveUp \/ RepositoryChanges \/ Watcher \/ WatcherStops \/ Terminated
  PROVE  CompletionInv'
<1> USE DEF hostVars, lifeVars, sessionVars, workVars, ackVars
<1>1. CASE NextReview
  <2>0. /\ UNCHANGED <<accepted, stop, acked, phase, run, finished>>
        /\ completions # <<>> /\ completions \in Seq(Completion) /\ delivered \in Seq(Completion)
    BY <1>1 DEF NextReview, IInv, TypeOK
  <2>1. Len(completions) = 1 /\ Len(delivered) = 0
    <3>1. Len(completions) \in Nat \ {0} /\ Len(delivered) \in Nat
      <4>1. Len(completions) \in Nat /\ Len(delivered) \in Nat
        BY ONLY <2>0, LenProperties
      <4>2. Len(completions) # 0
        BY ONLY <2>0, EmptySeq
      <4> QED BY ONLY <4>1, <4>2
    <3>2. Len(completions) + Len(delivered) <= 1
      BY DEF IInv, CompletionInv, OneReview
    <3> QED BY ONLY <3>1, <3>2, SMTT(30)
  <2>2. /\ completions' = Tail(completions) /\ delivered' = Append(delivered, Head(completions))
        /\ completions' \in Seq(Completion) /\ delivered' \in Seq(Completion)
        /\ Len(completions') = 0 /\ Len(delivered') = 1
        /\ delivered'[1] = completions[1]
    <3>1. Head(completions) \in Completion /\ Head(completions) = completions[1]
      BY <2>0, HeadTailProperties
    <3> QED BY <1>1, <2>0, <2>1, <3>1, HeadTailProperties, AppendProperties DEF NextReview
  <2>3. \A c \in Connections : ~Holds(c) /\ ~Holds(c)'
    BY <2>0 DEF IInv, CompletionInv, OneReview, Holds, CarriesCompletion
  <2>4. CompletingCarries' /\ NothingBeforeReservation' /\ RefreshingApplies'
    BY <2>0 DEF IInv, CompletionInv, CompletingCarries, NothingBeforeReservation, RefreshingApplies,
                CarriesCompletion
  <2>5. OneReview'
    BY <2>2, <2>3 DEF OneReview, Holds
  <2>6. AcknowledgedReviewIsKept'
    BY <2>0, <2>1, <2>2, <2>3 DEF IInv, CompletionInv, AcknowledgedReviewIsKept
  <2> QED BY <2>4, <2>5, <2>6 DEF CompletionInv
<1>2. CASE StopServer \/ GiveUp
  BY <1>2, Untouched DEF StopServer, GiveUp
<1>3. CASE RepositoryChanges
  BY <1>3, Untouched DEF RepositoryChanges
<1>4. CASE Watcher
  BY <1>4, Untouched DEF Watcher, WatcherLoads, WatcherForgets
<1>5. CASE WatcherStops
  BY <1>5, Untouched DEF WatcherStops
<1>6. CASE Terminated
  BY <1>6, Untouched DEF Terminated, vars
<1> QED BY <1>1, <1>2, <1>3, <1>4, <1>5, <1>6

LEMMA CompletionStep ==
  ASSUME IInv, [Next]_vars
  PROVE  CompletionInv'
<1>1. CASE UNCHANGED vars
  BY <1>1, Untouched DEF vars, hostVars, lifeVars, sessionVars, workVars, ackVars
<1>2. ASSUME NEW c \in Connections,
             Client(c) \/ Connect(c) \/ Establish(c) \/ LoopBody(c) \/ CommandFuture(c) \/ Select(c) \/ Close(c)
      PROVE  CompletionInv'
  BY <1>2, ClientKeeps, EstablishKeeps, LoopBodyKeeps, CommandFutureKeeps, SelectKeeps, CloseKeeps
<1> QED BY <1>1, <1>2, HostKeeps DEF Next

\* The inductive invariant: types, the completion's place, and what ties the two together
\* (a session that publishes carries a completion of a well-formed kind and target).
THEOREM Invariance == Spec => []IInv
<1>1. Init => IInv
  BY InitIInv
<1>2. IInv /\ [Next]_vars => IInv'
  <2> SUFFICES ASSUME IInv, [Next]_vars PROVE IInv'
    OBVIOUS
  <2>1. TypeOK'
    BY TypeStep DEF IInv, CompletionInv
  <2>2. CompletionInv'
    BY CompletionStep
  <2> QED BY <2>1, <2>2 DEF IInv
<1> QED BY <1>1, <1>2, PTL DEF Spec

\* Every variable of the server keeps its type.
THEOREM TypeCorrectness == Spec => []TypeOK
<1>1. IInv => TypeOK
  BY DEF IInv
<1> QED BY <1>1, Invariance, PTL

\* Whatever connections submit or cancel, race, hang up or are dropped, the server never
\* holds or delivers two completions.
THEOREM OneReviewHolds == Spec => []OneReview
<1>1. IInv => OneReview
  BY DEF IInv, CompletionInv
<1> QED BY <1>1, Invariance, PTL

\* A client that was told its review was accepted is not betrayed while the server lives.
THEOREM AcknowledgedReviewHolds == Spec => []AcknowledgedReviewIsKept
<1>1. IInv => AcknowledgedReviewIsKept
  BY DEF IInv, CompletionInv
<1> QED BY <1>1, Invariance, PTL

=============================================================================
