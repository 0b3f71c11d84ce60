---------------------------- MODULE ReviewServer ----------------------------
(***************************************************************************)
(* The diff server: DiffServer, its completion sink and one session per    *)
(* connection (crates/diff/server), over the promise of the repository     *)
(* watcher (one retained snapshot and health per review target).           *)
(*                                                                         *)
(* A session is the loop of `serve`: it copies the newest watcher state    *)
(* into `current`, publishes what changed, answers the finished request,   *)
(* starts the next queued one and then waits in a select.  The order of    *)
(* the loop body is kept by the ...Due guards: each publishing step waits  *)
(* for the earlier ones, and the select is reached when nothing is due.    *)
(*                                                                         *)
(* Clients are the environment: they may send any command at any time,     *)
(* read their events or hang up.  A snapshot is its target and the         *)
(* repository version it was loaded at; a file list is identified by the   *)
(* changes that altered it; an error is present or not.                    *)
(***************************************************************************)
EXTENDS Integers, Sequences, FiniteSets

CONSTANTS
  Connections,   \* connections the clients may open
  Local,         \* those within the process; the others are streams or WebSockets
  Targets,       \* review targets
  OwnTarget,     \* the target the watcher itself keeps (DiffScope::Both)
  Scoped,        \* the targets of the working tree, which file events refresh
  RequestKinds,  \* kinds of command the clients of a run send
  FileChanges,   \* the repository versions that altered the worktree's file list
  Capacity,      \* messages a transport holds before a send blocks
  MaxRunning,    \* lookups a connection runs at once (MAX_RUNNING)
  MaxCommands,   \* bound: commands sent on one connection
  MaxChanges,    \* bound: changes made to the repository from outside
  Disturbances   \* bound: which of PossibleDisturbances happen in a run

Kinds == {"Initialize", "OldInitialize", "SetTarget", "Refresh", "Apply",
          "Submit", "Cancel", "Lookup", "Malformed"}

PossibleDisturbances == {"HangUp", "LoadFails", "WatcherStops", "Heartbeat", "Shutdown"}

ASSUME ConstantsAssumption ==
  /\ Local \subseteq Connections
  /\ Scoped \subseteq Targets
  /\ OwnTarget \in Scoped
  /\ RequestKinds \subseteq Kinds
  /\ FileChanges \subseteq Nat
  /\ Capacity \in Nat \ {0}
  /\ MaxRunning \in Nat \ {0}
  /\ MaxCommands \in Nat
  /\ MaxChanges \in Nat
  /\ Disturbances \subseteq PossibleDisturbances

VARIABLES
  accepted,     \* CompletionSink.accepted
  completions,  \* the mpsc channel of capacity 1 behind CompletionSink.sender
  delivered,    \* history: what next_review returned, in order
  stop,         \* the server's CancellationToken
  gaveUp,       \* DiffServer::shutdown returned before every task had
  watcherUp,    \* the watcher's actor is running
  repo,         \* the repository's version
  channel,      \* per target: the watch channel of RepositoryState
  inbox,        \* per connection: commands sent by the client, not yet received
  link,         \* per connection: "up" until the client hangs up
  sent,         \* per connection: how many requests and lookups the client sent
  outbox,       \* per connection: events sent, not yet read by the client
  phase,        \* per connection: where its task is
  failure,      \* per connection: the code of the error that ended the session
  target,       \* serve's `target`, and the channel its receiver `state` watches
  current,      \* serve's `current`: the state the last iteration borrowed
  published,    \* serve's `published`
  listed,       \* serve's `listed`: the version its list was loaded at
  health,       \* serve's `health`: an error was published last
  queued,       \* serve's `queued`
  run,          \* serve's `running` command, stage "none" when there is none
  finished,     \* serve's `finished`, stage "none" when there is none
  lookups,      \* Lookups.running
  reply,        \* the event a select arm is publishing, at most one
  shown,        \* history: the last Document event sent
  answered,     \* history: the number of the last request answered, the hello's first
  acked         \* history: a completing request was acknowledged with success

hostVars == <<accepted, completions, delivered, stop, gaveUp>>
repoVars == <<watcherUp, repo, channel>>
clientVars == <<inbox, link, sent>>
lifeVars == <<phase, failure>>
viewVars == <<target, current>>
sentVars == <<published, listed, health>>
workVars == <<queued, run, finished, lookups, reply>>
ackVars == <<answered, acked>>
\* What a session's future owns, and the history of what it sent.
sessionVars == <<viewVars, sentVars, workVars, shown>>
vars == <<hostVars, repoVars, clientVars, outbox, lifeVars, sessionVars, ackVars>>

-----------------------------------------------------------------------------
(* Data.                                                                    *)

Document == [target: Targets, loaded: Nat \cup {-1}]
NoDocument == [target |-> OwnTarget, loaded |-> -1]

State == [live: BOOLEAN, loaded: Nat, error: BOOLEAN]
Unsubscribed == [live |-> FALSE, loaded |-> 0, error |-> FALSE]

\* A worktree file list, identified by the changes that altered it.
FilesAt(version) == {v \in FileChanges : v <= version}

\* `number` counts the requests of a connection (lookups apart); the wire carries
\* it for lookups only, and a RequestResult names no request.
Command == [kind: Kinds, number: Nat, target: Targets]

Completing == {"Submit", "Cancel"}

\* CompletionSink::start, one compare_exchange: the first completing command reserves.
\* Mutant: the flag is read and written apart, and a second command reserves too.
ReservesAgain(kind) == kind \in Completing
Reserves(kind) == kind \in Completing /\ ~accepted

\* The channel behind CompletionSink.sender.  Mutant: a rendezvous channel.
NoCompletionCapacity == 0
CompletionCapacity == 1

\* A command future and its CommandResult: `target` is current_target at start,
\* `next` the target it switches to, `since` the version its outcome must show.
Run == [stage: {"none", "requested", "refreshing", "done"}, kind: Kinds, number: Nat,
        target: Targets, next: Targets, ok: BOOLEAN, since: Nat]
NoRun == [stage |-> "none", kind |-> "Refresh", number |-> 0, target |-> OwnTarget,
          next |-> OwnTarget, ok |-> FALSE, since |-> 0]

Completion == [by: Connections, kind: Completing, target: Targets]
CompletionOf(c, r) == [by |-> c, kind |-> r.kind, target |-> r.target]
CarriesCompletion(r) == r.stage = "done" /\ r.kind \in Completing /\ r.ok

LookupTask == [number: Nat, doc: Document, busy: BOOLEAN]

ErrorCodes == {"Protocol", "UnsupportedVersion", "Cancelled", "Watcher"}
Event == [kind: {"Initialize"}]
    \cup [kind: {"Document"}, doc: Document]
    \cup [kind: {"Files"}, loaded: Nat]
    \cup [kind: {"Health"}, error: BOOLEAN]
    \cup [kind: {"RequestResult"}, number: Nat, ok: BOOLEAN]
    \cup [kind: {"Lookup"}, number: Nat, busy: BOOLEAN]
    \cup [kind: {"Error"}, code: ErrorCodes]

Phases == {"unused", "handshake", "greeting", "subscribing", "serving", "completing",
           "failed", "closing", "closed"}

Init ==
  /\ accepted = FALSE
  /\ completions = <<>>
  /\ delivered = <<>>
  /\ stop = FALSE
  /\ gaveUp = FALSE
  /\ watcherUp = TRUE
  /\ repo = 0
  /\ channel = [t \in Targets |-> IF t = OwnTarget THEN [Unsubscribed EXCEPT !.live = TRUE]
                                                  ELSE Unsubscribed]
  /\ inbox = [c \in Connections |-> <<>>]
  /\ link = [c \in Connections |-> "up"]
  /\ sent = [c \in Connections |-> [requests |-> 0, lookups |-> 0]]
  /\ outbox = [c \in Connections |-> <<>>]
  /\ phase = [c \in Connections |-> "unused"]
  /\ failure = [c \in Connections |-> "Cancelled"]
  /\ target = [c \in Connections |-> OwnTarget]
  /\ current = [c \in Connections |-> Unsubscribed]
  /\ published = [c \in Connections |-> NoDocument]
  /\ listed = [c \in Connections |-> -1]
  /\ health = [c \in Connections |-> FALSE]
  /\ queued = [c \in Connections |-> <<>>]
  /\ run = [c \in Connections |-> NoRun]
  /\ finished = [c \in Connections |-> NoRun]
  /\ lookups = [c \in Connections |-> {}]
  /\ reply = [c \in Connections |-> <<>>]
  /\ shown = [c \in Connections |-> NoDocument]
  /\ answered = [c \in Connections |-> 0]
  /\ acked = [c \in Connections |-> FALSE]

-----------------------------------------------------------------------------
(* Clients.                                                                 *)

ClientSends(c) ==
  /\ phase[c] \notin {"unused", "closed"} /\ link[c] = "up"
  /\ Len(inbox[c]) < Capacity
  /\ sent[c].requests + sent[c].lookups < MaxCommands
  /\ \E kind \in RequestKinds, t \in Targets :
       LET lookup == kind = "Lookup"
           number == IF lookup THEN sent[c].lookups + 1 ELSE sent[c].requests + 1
       IN /\ kind \in {"Initialize", "SetTarget"} \/ t = OwnTarget
          /\ inbox' = [inbox EXCEPT ![c] = Append(@, [kind |-> kind, number |-> number, target |-> t])]
          /\ sent' = IF lookup THEN [sent EXCEPT ![c].lookups = number]
                               ELSE [sent EXCEPT ![c].requests = number]
  /\ UNCHANGED <<hostVars, repoVars, link, outbox, lifeVars, sessionVars, ackVars>>

ClientReads(c) ==
  /\ outbox[c] # <<>>
  /\ outbox' = [outbox EXCEPT ![c] = Tail(@)]
  /\ UNCHANGED <<hostVars, repoVars, clientVars, lifeVars, sessionVars, ackVars>>

ClientHangsUp(c) ==
  /\ "HangUp" \in Disturbances
  /\ phase[c] \notin {"unused", "closed"} /\ link[c] = "up"
  /\ link' = [link EXCEPT ![c] = "down"]
  /\ UNCHANGED <<hostVars, repoVars, inbox, sent, outbox, lifeVars, sessionVars, ackVars>>

-----------------------------------------------------------------------------
(* The transport under a session.  A send to a client that hung up may be   *)
(* accepted by the transport and go nowhere; one that finds the transport   *)
(* full waits, until SEND_TIMEOUT fails it.                                 *)

Publish(c, event) ==
  \/ /\ link[c] = "up" /\ Len(outbox[c]) < Capacity
     /\ outbox' = [outbox EXCEPT ![c] = Append(@, event)]
  \/ /\ link[c] = "down"
     /\ UNCHANGED outbox

\* Mutant: a send may fail for no reason.
PublishMayFail(c) == TRUE
PublishCanFail(c) == link[c] = "down" \/ Len(outbox[c]) = Capacity

\* transport.recv fails once the client is gone and what it sent is read.
ReceiveCanFail(c) == link[c] = "down" /\ inbox[c] = <<>>

Receive(c) == inbox' = [inbox EXCEPT ![c] = Tail(@)]

\* The session's future returns or is dropped, and its variables go with it.
EndSession(c, to) ==
  /\ phase' = [phase EXCEPT ![c] = to]
  /\ target' = [target EXCEPT ![c] = OwnTarget]
  /\ current' = [current EXCEPT ![c] = Unsubscribed]
  /\ published' = [published EXCEPT ![c] = NoDocument]
  /\ listed' = [listed EXCEPT ![c] = -1]
  /\ health' = [health EXCEPT ![c] = FALSE]
  /\ queued' = [queued EXCEPT ![c] = <<>>]
  /\ run' = [run EXCEPT ![c] = NoRun]
  /\ finished' = [finished EXCEPT ![c] = NoRun]
  /\ lookups' = [lookups EXCEPT ![c] = {}]
  /\ reply' = [reply EXCEPT ![c] = <<>>]
  /\ shown' = [shown EXCEPT ![c] = NoDocument]

Fail(c, code) ==
  /\ EndSession(c, "failed")
  /\ failure' = [failure EXCEPT ![c] = code]

-----------------------------------------------------------------------------
(* Accepting a connection and the handshake.                                *)

Connect(c) ==
  /\ phase[c] = "unused" /\ ~stop
  /\ phase' = [phase EXCEPT ![c] = "handshake"]
  /\ UNCHANGED <<hostVars, repoVars, clientVars, outbox, failure, sessionVars, ackVars>>

ReceiveHello(c) ==
  /\ phase[c] = "handshake" /\ inbox[c] # <<>>
  /\ Receive(c)
  /\ LET hello == Head(inbox[c]) IN
       \/ /\ hello.kind = "Initialize"
          /\ phase' = [phase EXCEPT ![c] = "greeting"]
          /\ target' = [target EXCEPT ![c] = hello.target]
          /\ answered' = [answered EXCEPT ![c] = hello.number]
          /\ UNCHANGED <<failure, current, sentVars, workVars, shown>>
       \/ /\ hello.kind # "Initialize"
          /\ Fail(c, IF hello.kind = "OldInitialize" THEN "UnsupportedVersion" ELSE "Protocol")
          /\ UNCHANGED answered
  /\ UNCHANGED <<hostVars, repoVars, link, sent, outbox, acked>>

\* HANDSHAKE_TIMEOUT passes, or the client is gone.
HelloFails(c) ==
  /\ phase[c] = "handshake" /\ inbox[c] = <<>>
  /\ Fail(c, "Cancelled")
  /\ UNCHANGED <<hostVars, repoVars, clientVars, outbox, ackVars>>

Greet(c) ==
  /\ phase[c] = "greeting"
  /\ \/ /\ Publish(c, [kind |-> "Initialize"])
        /\ phase' = [phase EXCEPT ![c] = "subscribing"]
        /\ UNCHANGED <<failure, sessionVars>>
     \/ /\ PublishCanFail(c)
        /\ Fail(c, "Cancelled")
        /\ UNCHANGED outbox
  /\ UNCHANGED <<hostVars, repoVars, clientVars, ackVars>>

\* RepositoryActor::subscribe: an existing channel is joined as it is, another is
\* created from a load, and no channel is left when the load fails.
SubscribeTo(t) ==
  /\ watcherUp
  /\ channel' = IF channel[t].live THEN channel
                ELSE [channel EXCEPT ![t] = [live |-> TRUE, loaded |-> repo, error |-> FALSE]]

SubscribeCanFail(t) == ~watcherUp \/ (~channel[t].live /\ "LoadFails" \in Disturbances)

Subscribe(c) ==
  /\ phase[c] = "subscribing"
  /\ \/ /\ SubscribeTo(target[c])
        /\ phase' = [phase EXCEPT ![c] = "serving"]
        /\ current' = [current EXCEPT ![c] = channel'[target[c]]]
        /\ UNCHANGED <<failure, target, sentVars, workVars, shown>>
     \/ /\ SubscribeCanFail(target[c])
        /\ Fail(c, "Watcher")
        /\ UNCHANGED channel
  /\ UNCHANGED <<hostVars, watcherUp, repo, clientVars, outbox, ackVars>>

-----------------------------------------------------------------------------
(* The body of the loop.                                                    *)

\* The task is in the body of the loop or at its select, not inside an arm of it.
Serving(c) == phase[c] = "serving" /\ reply[c] = <<>>
Snapshot(c) == [target |-> target[c], loaded |-> current[c].loaded]

DocumentDue(c) == published[c] # Snapshot(c)
FilesDue(c) ==
  /\ ~DocumentDue(c)
  /\ listed[c] = -1 \/ FilesAt(listed[c]) # FilesAt(current[c].loaded)
HealthDue(c) == ~DocumentDue(c) /\ ~FilesDue(c) /\ health[c] # current[c].error
UpToDate(c) == ~DocumentDue(c) /\ ~FilesDue(c) /\ ~HealthDue(c)
\* Mutant: the answer is sent before what it tells of is published.
AnswerDueFirst(c) == finished[c].stage = "done"
AnswerDue(c) == UpToDate(c) /\ finished[c].stage = "done"
\* Mutant: the next command starts before the last one's effect is published.
StartDueFirst(c) == run[c].stage = "none" /\ queued[c] # <<>>
\* Mutant: a command is started while another runs, whose future is dropped.
StartDueAtOnce(c) == UpToDate(c) /\ finished[c].stage = "none" /\ queued[c] # <<>>
StartDue(c) ==
  /\ UpToDate(c) /\ finished[c].stage = "none"
  /\ run[c].stage = "none" /\ queued[c] # <<>>
\* Mutant: the select is reached with something left to publish.
AtSelectEarly(c) == Serving(c) /\ finished[c].stage = "none"
AtSelect(c) ==
  /\ Serving(c) /\ UpToDate(c) /\ finished[c].stage = "none"
  /\ run[c].stage # "none" \/ queued[c] = <<>>

\* The next iteration begins: state.borrow_and_update().
\* Mutant: the state is borrowed once, before the loop.
BorrowNothing(c) == UNCHANGED current
Borrow(c) == current' = [current EXCEPT ![c] = channel[target[c]]]

PublishDocument(c) ==
  /\ Serving(c) /\ DocumentDue(c)
  /\ Publish(c, [kind |-> "Document", doc |-> Snapshot(c)])
  /\ published' = [published EXCEPT ![c] = Snapshot(c)]
  /\ shown' = [shown EXCEPT ![c] = Snapshot(c)]
  /\ UNCHANGED <<hostVars, repoVars, clientVars, lifeVars, viewVars, listed, health, workVars, ackVars>>

PublishFiles(c) ==
  /\ Serving(c) /\ FilesDue(c)
  /\ Publish(c, [kind |-> "Files", loaded |-> current[c].loaded])
  /\ listed' = [listed EXCEPT ![c] = current[c].loaded]
  /\ UNCHANGED <<hostVars, repoVars, clientVars, lifeVars, viewVars, published, health, workVars,
                 shown, ackVars>>

PublishHealth(c) ==
  /\ Serving(c) /\ HealthDue(c)
  /\ Publish(c, [kind |-> "Health", error |-> current[c].error])
  /\ health' = [health EXCEPT ![c] = current[c].error]
  /\ UNCHANGED <<hostVars, repoVars, clientVars, lifeVars, viewVars, published, listed, workVars,
                 shown, ackVars>>

\* A failed publish of a document, a file list or a health report leaves the loop
\* at once, and whatever `finished` holds is dropped with it.
PublishFails(c) ==
  /\ Serving(c) /\ ~UpToDate(c)
  /\ PublishCanFail(c)
  /\ Fail(c, "Cancelled")
  /\ UNCHANGED <<hostVars, repoVars, clientVars, outbox, ackVars>>

\* The RequestResult.  A completion is published whether or not the client could
\* be told; without one, a failed acknowledgement ends the session.
AnswerRequest(c) ==
  /\ Serving(c) /\ AnswerDue(c)
  /\ LET done == finished[c] IN
       \/ /\ Publish(c, [kind |-> "RequestResult", number |-> done.number, ok |-> done.ok])
          /\ answered' = [answered EXCEPT ![c] = done.number]
          /\ \/ /\ CarriesCompletion(done)
                /\ phase' = [phase EXCEPT ![c] = "completing"]
                /\ acked' = [acked EXCEPT ![c] = TRUE]
                /\ UNCHANGED finished
             \/ /\ ~CarriesCompletion(done)
                /\ finished' = [finished EXCEPT ![c] = NoRun]
                /\ UNCHANGED <<phase, acked>>
          /\ UNCHANGED <<failure, viewVars, sentVars, queued, run, lookups, reply, shown>>
       \/ /\ PublishCanFail(c) /\ CarriesCompletion(done)
          /\ phase' = [phase EXCEPT ![c] = "completing"]
          /\ UNCHANGED <<outbox, failure, sessionVars, ackVars>>
       \/ /\ PublishCanFail(c) /\ ~CarriesCompletion(done)
          /\ Fail(c, "Cancelled")
          /\ UNCHANGED <<outbox, ackVars>>
  /\ UNCHANGED <<hostVars, repoVars, clientVars>>

\* Mutant: a session that finds its client gone drops the completion.
CompletionDropped(c) == stop \/ link[c] = "down"
\* The host, and its end of the channel, may be gone.
CompletionCanFail(c) == stop

\* CompletionSink::publish waits for room in the channel; the session is over after
\* it, with the acknowledgement's error if that failed.
PublishCompletion(c) ==
  /\ phase[c] = "completing"
  /\ \/ /\ Len(completions) < CompletionCapacity
        /\ completions' = Append(completions, CompletionOf(c, finished[c]))
        /\ \/ acked[c] /\ EndSession(c, "closing") /\ UNCHANGED failure
           \/ ~acked[c] /\ Fail(c, "Cancelled")
     \/ /\ CompletionCanFail(c)
        /\ Fail(c, "Cancelled")
        /\ UNCHANGED completions
  /\ UNCHANGED <<accepted, delivered, stop, gaveUp, repoVars, clientVars, outbox, ackVars>>

\* `start`: Submit and Cancel reserve the one completion of the server when they
\* start, before anything is awaited; the other commands are futures to run.
StartQueued(c) ==
  /\ Serving(c) /\ StartDue(c)
  /\ LET command == Head(queued[c])
         started == [stage |-> "requested", kind |-> command.kind, number |-> command.number,
                     target |-> target[c], next |-> command.target, ok |-> FALSE, since |-> repo]
     IN \/ /\ command.kind \in {"SetTarget", "Refresh", "Apply"}
           /\ run' = [run EXCEPT ![c] = started]
           /\ queued' = [queued EXCEPT ![c] = Tail(@)]
           /\ UNCHANGED <<accepted, lifeVars, viewVars, sentVars, finished, lookups, reply, shown>>
        \/ /\ command.kind \in Completing
           /\ run' = [run EXCEPT ![c] = [started EXCEPT !.stage = "done", !.ok = Reserves(command.kind)]]
           /\ accepted' = TRUE
           /\ queued' = [queued EXCEPT ![c] = Tail(@)]
           /\ UNCHANGED <<lifeVars, viewVars, sentVars, finished, lookups, reply, shown>>
        \/ /\ command.kind \in {"Initialize", "OldInitialize"}
           /\ Fail(c, "Protocol")
           /\ UNCHANGED accepted
  /\ UNCHANGED <<completions, delivered, stop, gaveUp, repoVars, clientVars, outbox, ackVars>>

-----------------------------------------------------------------------------
(* Command futures.  Their work is done by the watcher's actor and by git,  *)
(* whatever the loop is doing.                                              *)

Done(c, ok) == run' = [run EXCEPT ![c] = [@ EXCEPT !.stage = "done", !.ok = ok]]

SwitchTarget(c) ==
  /\ run[c].stage = "requested" /\ run[c].kind = "SetTarget"
  /\ \/ SubscribeTo(run[c].next) /\ Done(c, TRUE)
     \/ SubscribeCanFail(run[c].next) /\ Done(c, FALSE) /\ UNCHANGED channel
  /\ UNCHANGED <<hostVars, watcherUp, repo, clientVars, outbox, lifeVars, viewVars, sentVars,
                 queued, finished, lookups, reply, shown, ackVars>>

\* RepositoryActor::refresh_target folds one load into the target's channel: the
\* repository as it is, or an error that keeps the last snapshot.
LoadInto(t) ==
  channel' = [channel EXCEPT ![t] = IF @.live THEN [live |-> TRUE, loaded |-> repo, error |-> FALSE] ELSE @]
LoadFailsInto(t) ==
  /\ "LoadFails" \in Disturbances
  /\ channel' = [channel EXCEPT ![t] = IF @.live THEN [@ EXCEPT !.error = TRUE] ELSE @]

\* Refresh reports the load's outcome; Apply refreshes too, and ignores it.
RefreshTarget(c) ==
  /\ \/ run[c].stage = "requested" /\ run[c].kind = "Refresh"
     \/ run[c].stage = "refreshing"
  /\ LET ignored == run[c].kind = "Apply" IN
       \/ watcherUp /\ LoadInto(run[c].target) /\ Done(c, TRUE)
       \/ watcherUp /\ LoadFailsInto(run[c].target) /\ Done(c, ignored)
       \/ ~watcherUp /\ UNCHANGED channel /\ Done(c, ignored)
  /\ UNCHANGED <<hostVars, watcherUp, repo, clientVars, outbox, lifeVars, viewVars, sentVars,
                 queued, finished, lookups, reply, shown, ackVars>>

\* GitRepository::apply; one that fails may have changed the repository by then.
ApplyAction(c) ==
  /\ run[c].stage = "requested" /\ run[c].kind = "Apply"
  /\ \/ /\ repo' = repo + 1
        /\ run' = [run EXCEPT ![c] = [@ EXCEPT !.stage = "refreshing", !.since = repo + 1]]
     \/ /\ repo' \in {repo, repo + 1}
        /\ Done(c, FALSE)
  /\ UNCHANGED <<hostVars, watcherUp, channel, clientVars, outbox, lifeVars, viewVars, sentVars,
                 queued, finished, lookups, reply, shown, ackVars>>

-----------------------------------------------------------------------------
(* The arms of the select.                                                  *)

StateChanged(c) ==
  /\ AtSelect(c) /\ current[c] # channel[target[c]]
  /\ Borrow(c)
  /\ UNCHANGED <<hostVars, repoVars, clientVars, outbox, lifeVars, target, sentVars, workVars,
                 shown, ackVars>>

\* The watcher is gone and its last state has been seen.
WatcherGone(c) ==
  /\ AtSelect(c) /\ ~watcherUp /\ current[c] = channel[target[c]]
  /\ Fail(c, "Cancelled")
  /\ UNCHANGED <<hostVars, repoVars, clientVars, outbox, ackVars>>

\* Mutant: a command that comes while another runs is not kept.
QueueWhenIdle(c, command) == IF run[c].stage = "none" THEN Append(queued[c], command) ELSE queued[c]
Queue(c, command) == Append(queued[c], command)

ReceiveRequest(c) ==
  /\ AtSelect(c) /\ inbox[c] # <<>>
  /\ Head(inbox[c]).kind \notin {"Lookup", "Malformed"}
  /\ Receive(c)
  /\ queued' = [queued EXCEPT ![c] = Queue(c, Head(inbox[c]))]
  /\ Borrow(c)
  /\ UNCHANGED <<hostVars, repoVars, link, sent, outbox, lifeVars, target, sentVars, run, finished,
                 lookups, reply, shown, ackVars>>

\* Lookups::submit: the lookup reads the snapshot of this iteration, and one that
\* comes while MaxRunning are running is answered Busy.
ReceiveLookup(c) ==
  /\ AtSelect(c) /\ inbox[c] # <<>> /\ Head(inbox[c]).kind = "Lookup"
  /\ Receive(c)
  /\ lookups' = [lookups EXCEPT ![c] = @ \cup
       {[number |-> Head(inbox[c]).number, doc |-> Snapshot(c), busy |-> Cardinality(@) >= MaxRunning]}]
  /\ Borrow(c)
  /\ UNCHANGED <<hostVars, repoVars, link, sent, outbox, lifeVars, target, sentVars, queued, run,
                 finished, reply, shown, ackVars>>

ReceiveFails(c) ==
  /\ AtSelect(c)
  /\ \/ ReceiveCanFail(c) /\ Fail(c, "Cancelled") /\ UNCHANGED inbox
     \/ /\ inbox[c] # <<>> /\ Head(inbox[c]).kind = "Malformed"
        /\ Receive(c)
        /\ Fail(c, "Protocol")
  /\ UNCHANGED <<hostVars, repoVars, link, sent, outbox, ackVars>>

\* Lookups end in any order.
LookupEnds(c) ==
  /\ AtSelect(c)
  /\ \E task \in lookups[c] :
       /\ lookups' = [lookups EXCEPT ![c] = @ \ {task}]
       /\ reply' = [reply EXCEPT ![c] = <<[kind |-> "Lookup", number |-> task.number, busy |-> task.busy]>>]
  /\ UNCHANGED <<hostVars, repoVars, clientVars, outbox, lifeVars, viewVars, sentVars, queued, run,
                 finished, shown, ackVars>>

Heartbeat(c) ==
  /\ "Heartbeat" \in Disturbances
  /\ AtSelect(c)
  /\ reply' = [reply EXCEPT ![c] = <<[kind |-> "Health", error |-> health[c]]>>]
  /\ UNCHANGED <<hostVars, repoVars, clientVars, outbox, lifeVars, viewVars, sentVars, queued, run,
                 finished, lookups, shown, ackVars>>

\* Inside the arm of a lookup or of the heartbeat nothing else is polled.
PublishReply(c) ==
  /\ phase[c] = "serving" /\ reply[c] # <<>>
  /\ \/ /\ Publish(c, Head(reply[c]))
        /\ reply' = [reply EXCEPT ![c] = <<>>]
        /\ Borrow(c)
        /\ UNCHANGED <<lifeVars, target, sentVars, queued, run, finished, lookups, shown>>
     \/ /\ PublishCanFail(c)
        /\ Fail(c, "Cancelled")
        /\ UNCHANGED outbox
  /\ UNCHANGED <<hostVars, repoVars, clientVars, ackVars>>

\* The command's future is ready.  A new target starts with nothing published, and
\* its state is borrowed before the result is answered.
CommandEnds(c) ==
  /\ AtSelect(c) /\ run[c].stage = "done"
  /\ finished' = [finished EXCEPT ![c] = run[c]]
  /\ run' = [run EXCEPT ![c] = NoRun]
  /\ IF run[c].kind = "SetTarget" /\ run[c].ok
     THEN /\ target' = [target EXCEPT ![c] = run[c].next]
          /\ current' = [current EXCEPT ![c] = channel[run[c].next]]
          /\ published' = [published EXCEPT ![c] = NoDocument]
          /\ health' = [health EXCEPT ![c] = FALSE]
     ELSE Borrow(c) /\ UNCHANGED <<target, published, health>>
  /\ UNCHANGED <<hostVars, repoVars, clientVars, outbox, lifeVars, listed, queued, lookups, reply,
                 shown, ackVars>>

-----------------------------------------------------------------------------
(* The end of a connection: `accept` reports the session's error and closes *)
(* the transport; a stopping server drops the session.  Once the session is  *)
(* over nobody listens to the stop token.                                    *)

ReportFailure(c) ==
  /\ phase[c] = "failed"
  /\ \/ Publish(c, [kind |-> "Error", code |-> failure[c]])
     \/ PublishCanFail(c) /\ UNCHANGED outbox
  /\ phase' = [phase EXCEPT ![c] = "closing"]
  /\ UNCHANGED <<hostVars, repoVars, clientVars, failure, sessionVars, ackVars>>

\* Mutant: the token is watched until the session serves, not after.
Establishing(c) == phase[c] \in {"handshake", "greeting", "subscribing"}
InSession(c) == phase[c] \in {"handshake", "greeting", "subscribing", "serving", "completing"}

DropSession(c) ==
  /\ InSession(c) /\ stop
  /\ EndSession(c, "closing")
  /\ UNCHANGED <<hostVars, repoVars, clientVars, outbox, failure, ackVars>>

\* transport.close() has no timeout: over a socket or a stream it waits as long as the
\* client is there and does not read.  What the client sent and nobody received is gone.
CanClose(c) == c \in Local \/ link[c] = "down" \/ Len(outbox[c]) < Capacity

CloseTransport(c) ==
  /\ phase[c] = "closing" /\ CanClose(c)
  /\ phase' = [phase EXCEPT ![c] = "closed"]
  /\ inbox' = [inbox EXCEPT ![c] = <<>>]
  /\ UNCHANGED <<hostVars, repoVars, link, sent, outbox, failure, sessionVars, ackVars>>

-----------------------------------------------------------------------------
(* The host and the repository.                                             *)

NextReview ==
  /\ completions # <<>> /\ ~stop
  /\ delivered' = Append(delivered, Head(completions))
  /\ completions' = Tail(completions)
  /\ UNCHANGED <<accepted, stop, gaveUp, repoVars, clientVars, outbox, lifeVars, sessionVars, ackVars>>

\* DiffServer::shutdown, or the server is dropped.
StopServer ==
  /\ "Shutdown" \in Disturbances
  /\ ~stop
  /\ stop' = TRUE
  /\ UNCHANGED <<accepted, completions, delivered, gaveUp, repoVars, clientVars, outbox, lifeVars,
                 sessionVars, ackVars>>

\* SHUTDOWN_GRACE passes before the tasks have returned.
Returned(c) == phase[c] \in {"unused", "closed"}

GiveUp ==
  /\ stop /\ ~gaveUp /\ \E c \in Connections : ~Returned(c)
  /\ gaveUp' = TRUE
  /\ UNCHANGED <<accepted, completions, delivered, stop, repoVars, clientVars, outbox, lifeVars,
                 sessionVars, ackVars>>

RepositoryChanges ==
  /\ repo < MaxChanges
  /\ repo' = repo + 1
  /\ UNCHANGED <<hostVars, watcherUp, channel, clientVars, outbox, lifeVars, sessionVars, ackVars>>

\* The watcher refreshes a target by itself, after a file event.  A commit is left alone.
WatcherLoads(t) ==
  /\ watcherUp /\ t \in Scoped /\ channel[t].live
  /\ LoadInto(t) \/ LoadFailsInto(t)
  /\ UNCHANGED <<hostVars, watcherUp, repo, clientVars, outbox, lifeVars, sessionVars, ackVars>>

Receives(c, t) ==
  \/ phase[c] = "serving" /\ target[c] = t
  \/ run[c].stage = "done" /\ run[c].kind = "SetTarget" /\ run[c].ok /\ run[c].next = t

\* refresh_active drops the channels nobody receives from.
WatcherForgets(t) ==
  /\ watcherUp /\ t # OwnTarget /\ channel[t].live
  /\ \A c \in Connections : ~Receives(c, t)
  /\ channel' = [channel EXCEPT ![t] = Unsubscribed]
  /\ UNCHANGED <<hostVars, watcherUp, repo, clientVars, outbox, lifeVars, sessionVars, ackVars>>

WatcherStops ==
  /\ "WatcherStops" \in Disturbances
  /\ watcherUp
  /\ watcherUp' = FALSE
  /\ UNCHANGED <<hostVars, repo, channel, clientVars, outbox, lifeVars, sessionVars, ackVars>>

\* The server stopped and every task returned: nothing more has to happen.
Terminated ==
  /\ stop /\ \A c \in Connections : Returned(c)
  /\ UNCHANGED vars

-----------------------------------------------------------------------------

Client(c) == ClientSends(c) \/ ClientReads(c) \/ ClientHangsUp(c)

Establish(c) ==
  \/ ReceiveHello(c) \/ HelloFails(c) \/ Greet(c) \/ Subscribe(c)

LoopBody(c) ==
  \/ PublishDocument(c) \/ PublishFiles(c) \/ PublishHealth(c) \/ PublishFails(c)
  \/ AnswerRequest(c) \/ PublishCompletion(c) \/ StartQueued(c) \/ PublishReply(c)

CommandFuture(c) == SwitchTarget(c) \/ RefreshTarget(c) \/ ApplyAction(c)

Select(c) ==
  \/ StateChanged(c) \/ WatcherGone(c) \/ ReceiveRequest(c) \/ ReceiveLookup(c)
  \/ ReceiveFails(c) \/ LookupEnds(c) \/ Heartbeat(c) \/ CommandEnds(c)

Close(c) == ReportFailure(c) \/ DropSession(c) \/ CloseTransport(c)

Watcher == \E t \in Targets : WatcherLoads(t) \/ WatcherForgets(t)

Next ==
  \/ \E c \in Connections :
       \/ Client(c) \/ Connect(c) \/ Establish(c) \/ LoopBody(c) \/ CommandFuture(c)
       \/ Select(c) \/ Close(c)
  \/ NextReview \/ StopServer \/ GiveUp
  \/ RepositoryChanges \/ Watcher \/ WatcherStops
  \/ Terminated

Spec == Init /\ [][Next]_vars

(***************************************************************************)
(* Fairness.  tokio polls a task whose future was woken, so a step of the   *)
(* loop, of the handshake or of the close is weakly fair; select! starts at *)
(* a random arm, so an arm that is ready again and again is taken: strong   *)
(* fairness.  The futures are driven by the watcher's actor and by git.     *)
(* Nothing is assumed of the clients, of file events or of the heartbeat: a *)
(* client may stay and never read again.                                   *)
(***************************************************************************)
Fairness ==
  /\ \A c \in Connections :
       /\ WF_vars(Establish(c)) /\ WF_vars(LoopBody(c)) /\ WF_vars(Close(c))
       /\ WF_vars(CommandFuture(c))
       /\ SF_vars(StateChanged(c)) /\ SF_vars(WatcherGone(c))
       /\ SF_vars(ReceiveRequest(c)) /\ SF_vars(ReceiveLookup(c)) /\ SF_vars(ReceiveFails(c))
       /\ SF_vars(LookupEnds(c)) /\ SF_vars(CommandEnds(c))
  /\ WF_vars(NextReview) /\ WF_vars(GiveUp)

FairSpec == Spec /\ Fairness

-----------------------------------------------------------------------------
(* Properties.                                                              *)

TypeOK ==
  /\ accepted \in BOOLEAN /\ stop \in BOOLEAN /\ gaveUp \in BOOLEAN /\ watcherUp \in BOOLEAN
  /\ completions \in Seq(Completion) /\ delivered \in Seq(Completion)
  /\ repo \in Nat
  /\ channel \in [Targets -> State]
  /\ inbox \in [Connections -> Seq(Command)]
  /\ link \in [Connections -> {"up", "down"}]
  /\ sent \in [Connections -> [requests: Nat, lookups: Nat]]
  /\ outbox \in [Connections -> Seq(Event)]
  /\ phase \in [Connections -> Phases]
  /\ failure \in [Connections -> ErrorCodes]
  /\ target \in [Connections -> Targets]
  /\ current \in [Connections -> State]
  /\ published \in [Connections -> Document]
  /\ listed \in [Connections -> Nat \cup {-1}]
  /\ health \in [Connections -> BOOLEAN]
  /\ queued \in [Connections -> Seq(Command)]
  /\ run \in [Connections -> Run]
  /\ finished \in [Connections -> Run]
  /\ lookups \in [Connections -> SUBSET LookupTask]
  /\ reply \in [Connections -> Seq(Event)]
  /\ shown \in [Connections -> Document]
  /\ answered \in [Connections -> Nat]
  /\ acked \in [Connections -> BOOLEAN]

\* A connection holds the review's completion between reserving and publishing it.
Holds(c) == CarriesCompletion(run[c]) \/ CarriesCompletion(finished[c])

\* However many clients submit or cancel at once, over however many connections, one
\* completion at most exists in the server, from its reservation to the host: two
\* connections never hold one, a connection never holds one that is already in the
\* channel, and the host never receives a second.
OneReview ==
  /\ \A c, d \in Connections : Holds(c) /\ Holds(d) => c = d
  /\ \A c \in Connections : ~(CarriesCompletion(run[c]) /\ CarriesCompletion(finished[c]))
  /\ (\E c \in Connections : Holds(c)) => completions = <<>> /\ delivered = <<>>
  /\ Len(completions) + Len(delivered) <= 1

\* Where the review's one completion is: the abstract view of ReviewCompletion.
Completed ==
  IF delivered # <<>> THEN Head(delivered)
  ELSE IF completions # <<>> THEN Head(completions)
  ELSE IF \E c \in Connections : Holds(c)
       THEN LET c == CHOOSE d \in Connections : Holds(d)
            IN CompletionOf(c, IF CarriesCompletion(run[c]) THEN run[c] ELSE finished[c])
  ELSE [by |-> "nobody", kind |-> "none", target |-> "none"]

ReviewStatus ==
  IF delivered # <<>> THEN "delivered"
  ELSE IF completions # <<>> \/ \E c \in Connections : Holds(c) THEN "reserved"
  ELSE IF accepted THEN "lost" ELSE "open"

Decision == INSTANCE ReviewCompletion WITH status <- ReviewStatus, review <- Completed

\* The server implements ReviewCompletion: whatever connections race, hang up or are
\* dropped, the host is handed at most one completion, the very one (connection, kind
\* and target) that was reserved first, and nothing after a completion was lost.
ReviewIsDecidedOnce == Decision!Spec

\* A client that was told its review was accepted is believed: until the server is
\* stopped its completion is on the way to the host, in the channel, or delivered,
\* even if the client hangs up right after the acknowledgement.
AcknowledgedReviewIsKept ==
  \A c \in Connections : acked[c] /\ ~stop =>
    \/ phase[c] = "completing" /\ Holds(c)
    \/ \E i \in 1..Len(completions) : completions[i].by = c
    \/ \E i \in 1..Len(delivered) : delivered[i].by = c

\* A review is completed for the target its connection was shown last when the
\* command started: a SetTarget before it in the queue has had its document
\* published by then, one behind it has not begun.
ReviewIsOfShownTarget ==
  \A c \in Connections :
    /\ CarriesCompletion(run[c]) => run[c].target = shown[c].target
    /\ CarriesCompletion(finished[c]) => finished[c].target = shown[c].target

\* When a SetTarget is answered with success, the document of the new target has
\* been sent before the answer.
SwitchIsShownBeforeItsAnswer ==
  \A c \in Connections :
    Serving(c) /\ AnswerDue(c) /\ finished[c].kind = "SetTarget" /\ finished[c].ok
      => shown[c].target = finished[c].next /\ shown[c].loaded >= 0

\* When a Refresh is answered with success the client has been sent a document at
\* least as new as the repository was when the refresh began.  When an Apply is, it
\* has been sent the outcome of the action, or told that it could not be loaded,
\* unless the watcher is gone.
RefreshIsShownBeforeItsAnswer ==
  \A c \in Connections : Serving(c) /\ AnswerDue(c) /\ finished[c].ok =>
    /\ finished[c].kind = "Refresh" => shown[c].loaded >= finished[c].since
    /\ finished[c].kind = "Apply" =>
         shown[c].loaded >= finished[c].since \/ health[c] \/ ~watcherUp

\* The RequestResults of a connection answer its requests one by one, in the order
\* they were sent: a RequestResult names no request, and this is what lets the client
\* tell which one it answers.
AnswersFollowRequests ==
  [][\A c \in Connections : answered'[c] # answered[c] => answered'[c] = answered[c] + 1]_vars

\* A lookup reads the snapshot its client was shown last, never one the client has
\* yet to see.
LookupReadsShownSnapshot ==
  [][\A c \in Connections : \A task \in lookups'[c] \ lookups[c] : task.doc = shown[c]]_vars

\* A reserved completion is lost only if its client is gone, does not read or sent a
\* malformed frame, if the watcher is gone or the server stopped; a change of the
\* repository, a failing load or another client never makes the server forget it.
ReviewIsLostOnlyToDisruption ==
  [][\A c \in Connections : Holds(c) /\ ~Holds(c)' /\ completions' = completions =>
       \/ link[c] = "down" \/ Len(outbox[c]) = Capacity
       \/ inbox[c] # inbox'[c]
       \/ ~watcherUp \/ stop]_vars

\* A request that reached a session is answered, or the session ends.
RequestsAreAnswered ==
  \A c \in Connections : \A n \in 1..MaxCommands :
    (phase[c] = "serving" /\ sent[c].requests >= n)
      ~> (answered[c] >= n \/ phase[c] \in {"completing", "failed", "closing", "closed"})

\* A client that stays is brought up to date: what a target's channel holds last
\* is published to each session of that target.
SessionsConverge ==
  \A c \in Connections :
    <>[](phase[c] = "serving" =>
           shown[c] = [target |-> target[c], loaded |-> channel[target[c]].loaded])

\* A reserved completion reaches the host, or its connection ended.
ReservedReviewArrives ==
  \A c \in Connections :
    Holds(c) ~> (delivered # <<>> \/ phase[c] \in {"failed", "closing", "closed"})

\* Shutting down ends every session, whatever it is waiting for: a connection is left only if
\* it is closing its transport and its client is there and does not read.  Then the
\* shutdown gives up; otherwise every connection is closed.
ShutdownClosesConnections ==
  stop ~> /\ \A c \in Connections : Returned(c) \/ (phase[c] = "closing" /\ ~CanClose(c))
          /\ gaveUp \/ \A c \in Connections : Returned(c)
=============================================================================
