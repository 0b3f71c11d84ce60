----------------------------- MODULE DiffClient -----------------------------
(***************************************************************************)
(* The diff client: a DiffClient handle, the worker behind it and the      *)
(* connections the worker makes one after the other (crates/diff/client).  *)
(*                                                                         *)
(* A caller puts its call into a queue and waits for the reply.  The       *)
(* worker sends one request at a time, any number of lookups beside it,    *)
(* and answers both from the server's events; when a connection ends it    *)
(* settles what was in flight and connects again, or stops.                *)
(*                                                                         *)
(* The server is the environment: a session that greets, answers each      *)
(* request once and publishes documents of its target (what ReviewServer   *)
(* promises), that may die at any time and leave commands it had received  *)
(* running.  A lookup's id is abstracted by its call: no id is used twice. *)
(***************************************************************************)
EXTENDS Integers, Sequences, FiniteSets

CONSTANTS
  Calls,           \* calls the holders of the client may make, each once
  Targets,         \* review targets
  FirstTarget,     \* ClientOptions.target
  CallKinds,       \* kinds of call made in a run
  Capacity,        \* messages a transport holds before a send blocks
  Reconnects,      \* transport.reconnects() under ReconnectPolicy::Retry
  MaxConnections,  \* bound: connections made
  MaxEvents,       \* bound: events a server publishes of its own accord
  Disturbances     \* bound: which of PossibleDisturbances happen in a run

Kinds == {"SetTarget", "Refresh", "Apply", "Submit", "Cancel", "Lookup", "Close"}

PossibleDisturbances ==
  {"ServerDies", "ServerFails", "ServerMisbehaves", "Idle", "WriteTimeout", "Rejects", "HandleDrops"}

NoCall == "no call"
NoTarget == "no target"

ASSUME ConstantsAssumption ==
  /\ FirstTarget \in Targets /\ NoTarget \notin Targets
  /\ NoCall \notin Calls
  /\ CallKinds \subseteq Kinds
  /\ Capacity \in Nat \ {0}
  /\ Reconnects \in BOOLEAN
  /\ MaxConnections \in Nat /\ MaxEvents \in Nat
  /\ Disturbances \subseteq PossibleDisturbances

VARIABLES
  calls,       \* per call: what was asked, and the reply the caller got
  handle,      \* a DiffClient is alive: the senders of both queues exist
  commands,    \* the queue of commands, as the calls that wait in it
  lookups,     \* the queue of lookups
  worker,      \* where the worker's task is
  result,      \* how the last connection ended: "ok", "lost" or "terminal"
  sending,     \* the call whose command is being sent
  pending,     \* Worker.pending, as the call
  outstanding, \* Worker.outstanding, as the calls
  initialized, \* Handshake.initialized
  closed,      \* Worker.closed
  ready,       \* the oneshot of `start`: "waiting", "ok" or "failed"
  view,        \* the published ClientState
  resume,      \* Worker.options.target
  link,        \* the connection under the transport: "up" or "cut"
  toServer, toClient,  \* messages in flight on it
  session,     \* the server's end of it
  late,        \* commands of ended connections the server may still run
  outcomes,    \* history: what the server did of each call, in order
  switched,    \* history: the target the last acknowledged SetTarget switched to
  connections, published,  \* counters for the bounds
  written      \* history: calls whose own send failed with the command on its way

callerVars == <<calls, handle, commands, lookups>>
flightVars == <<sending, pending, outstanding>>
stateVars == <<view, resume, switched>>
linkVars == <<link, toServer, toClient>>
serverVars == <<session, late, outcomes>>
boundVars == <<connections, published, written>>
vars == <<callerVars, worker, result, flightVars, initialized, closed, ready, stateVars, linkVars,
          serverVars, boundVars>>

-----------------------------------------------------------------------------
(* Data.                                                                    *)

Replies == {"ok", "rejected", "Disconnected", "OutcomeUnknown"}
Call == [kind: Kinds, target: Targets, held: BOOLEAN, reply: {"unused", "waiting"} \cup Replies]
Unused == [kind |-> "Refresh", target |-> FirstTarget, held |-> FALSE, reply |-> "unused"]

Waiting(c) == calls[c].reply = "waiting"
IsRequest(c) == calls[c].kind \notin {"Lookup", "Close"}
\* Request::outcome_unknown_on_disconnect.  Mutant: changes of the repository are left out.
OnlyReviews(kind) == kind \in {"Submit", "Cancel"}
MayHaveCompleted(kind) == kind \in {"Apply", "Submit", "Cancel"}

Workers == {"greeting", "serving", "sending", "closing", "reconnecting", "stopped"}

\* protocol::client::capabilities.
Capabilities(connection, snapshot) ==
  [act |-> connection = "Connected", submit |-> snapshot # NoTarget]
View == [connection: {"Connecting", "Connected", "Failed"}, snapshot: Targets \cup {NoTarget},
         error: BOOLEAN, able: [act: BOOLEAN, submit: BOOLEAN]]
FirstView == [connection |-> "Connecting", snapshot |-> NoTarget, error |-> FALSE,
              able |-> Capabilities("Connecting", NoTarget)]

Hello(t) == [call |-> NoCall, target |-> t]
Message == [call: Calls \cup {NoCall}, target: Targets]

Event ==
  [kind: {"Initialize"}, supported: BOOLEAN]
  \cup [kind: {"Document"}, target: Targets]
  \cup [kind: {"Health"}, error: BOOLEAN]
  \cup [kind: {"RequestResult"}, result: {"ok", "rejected"}]
  \cup [kind: {"Lookup"}, call: Calls, result: {"ok", "rejected"}]
  \cup [kind: {"Error"}, terminal: BOOLEAN]
  \cup [kind: {"Malformed"}]

\* A session: greeted, its target, the commands it received and has not answered, and
\* the events it is publishing.
Session == [greeted: BOOLEAN, target: Targets, work: SUBSET Calls, due: Seq(Event)]
NewSession == [greeted |-> FALSE, target |-> FirstTarget, work |-> {}, due |-> <<>>]

Init ==
  /\ calls = [c \in Calls |-> Unused]
  /\ handle = TRUE
  /\ commands = <<>> /\ lookups = <<>>
  /\ worker = "greeting" /\ result = "ok"
  /\ sending = NoCall /\ pending = NoCall /\ outstanding = {}
  /\ initialized = FALSE /\ closed = FALSE /\ ready = "waiting"
  /\ view = FirstView
  /\ resume = FirstTarget
  /\ link = "up" /\ toServer = <<>> /\ toClient = <<>>
  /\ session = NewSession
  /\ late = {}
  /\ outcomes = [c \in Calls |-> <<>>]
  /\ switched = NoTarget
  /\ connections = 1 /\ published = 0
  /\ written = {}

Elements(queue) == {queue[i] : i \in 1..Len(queue)}

\* oneshot::Sender::send for each of a set of calls.
Reply(answered, reply) ==
  calls' = [c \in Calls |-> IF c \in answered THEN [calls[c] EXCEPT !.reply = reply] ELSE calls[c]]

\* ClientState::set_connection.
SetConnection(connection) ==
  view' = [view EXCEPT !.connection = connection, !.able = Capabilities(connection, view.snapshot)]

-----------------------------------------------------------------------------
(* Callers.                                                                 *)

\* request, lookup, close and dispatch: a held call borrows the handle until it is
\* answered.  A stopped worker has dropped its ends of the queues.
MakeCall(c) ==
  /\ handle /\ calls[c].reply = "unused"
  /\ \E kind \in CallKinds, t \in Targets, held \in BOOLEAN :
       /\ kind \in {"Lookup", "Close"} => held
       /\ kind # "SetTarget" => t = FirstTarget
       /\ "HandleDrops" \in Disturbances \/ held
       /\ calls' = [calls EXCEPT ![c] =
            [kind |-> kind, target |-> t, held |-> held,
             reply |-> IF worker = "stopped" THEN "Disconnected" ELSE "waiting"]]
       /\ commands' = IF worker = "stopped" \/ kind = "Lookup" THEN commands ELSE Append(commands, c)
       /\ lookups' = IF worker = "stopped" \/ kind # "Lookup" THEN lookups ELSE Append(lookups, c)
  /\ UNCHANGED <<handle, worker, result, flightVars, initialized, closed, ready, stateVars, linkVars,
                 serverVars, boundVars>>

\* The last clone of the client is dropped.  What is left in the queues of a stopped
\* worker is dropped with the senders.
DropHandle ==
  /\ "HandleDrops" \in Disturbances
  /\ handle /\ \A c \in Calls : ~(Waiting(c) /\ calls[c].held)
  /\ handle' = FALSE
  /\ IF worker = "stopped"
     THEN /\ Reply(Elements(commands) \cup Elements(lookups), "Disconnected")
          /\ commands' = <<>> /\ lookups' = <<>>
     ELSE UNCHANGED <<calls, commands, lookups>>
  /\ UNCHANGED <<worker, result, flightVars, initialized, closed, ready, stateVars, linkVars,
                 serverVars, boundVars>>

-----------------------------------------------------------------------------
(* A connection.                                                            *)

SendTo(message) ==
  \/ link = "up" /\ Len(toServer) < Capacity /\ toServer' = Append(toServer, message)
  \/ link = "cut" /\ UNCHANGED toServer  \* accepted, and goes nowhere

\* The other end is gone, or WRITE_TIMEOUT passes with the transport full; what was
\* being written then may still arrive.
SendFails(message) ==
  \/ link = "cut" /\ UNCHANGED toServer
  \/ /\ "WriteTimeout" \in Disturbances
     /\ link = "up" /\ Len(toServer) = Capacity
     /\ toServer' \in {toServer, Append(toServer, message)}

\* `connection` returns; `run` then closes the transport.
EndConnection(how) ==
  /\ worker' = "closing"
  /\ result' = how

Greet ==
  /\ worker = "greeting"
  /\ \/ SendTo(Hello(resume)) /\ worker' = "serving" /\ UNCHANGED result
     \/ SendFails(Hello(resume)) /\ EndConnection("lost")
  /\ UNCHANGED <<callerVars, flightVars, initialized, closed, ready, stateVars, link, toClient,
                 serverVars, boundVars>>

\* Mutant: requests are taken from the queue while one is pending.
TakeAnyRequest == TRUE
MayTakeRequest == pending = NoCall

\* Mutant: a command stays in the queue until it is answered.
PeekedAt(queue) == queue
Taken(queue) == Tail(queue)

\* A command is polled only while no request is pending.
TakeCommand ==
  /\ worker = "serving" /\ MayTakeRequest /\ commands # <<>>
  /\ commands' = Taken(commands)
  /\ LET c == Head(commands) IN
       \/ /\ calls[c].kind = "Close"
          /\ Reply({c}, "ok")
          /\ closed' = TRUE
          /\ EndConnection("ok")
          /\ UNCHANGED sending
       \/ /\ IsRequest(c) /\ ~initialized
          /\ Reply({c}, "Disconnected")
          /\ UNCHANGED <<worker, result, closed, sending>>
       \/ /\ IsRequest(c) /\ initialized
          /\ worker' = "sending" /\ sending' = c
          /\ UNCHANGED <<calls, result, closed>>
  /\ UNCHANGED <<handle, lookups, pending, outstanding, initialized, ready, stateVars, linkVars,
                 serverVars, boundVars>>

TakeLookup ==
  /\ worker = "serving" /\ lookups # <<>>
  /\ lookups' = Tail(lookups)
  /\ \/ /\ ~initialized
        /\ Reply({Head(lookups)}, "Disconnected")
        /\ UNCHANGED <<worker, sending>>
     \/ /\ initialized
        /\ worker' = "sending" /\ sending' = Head(lookups)
        /\ UNCHANGED calls
  /\ UNCHANGED <<handle, commands, result, pending, outstanding, initialized, closed, ready, stateVars,
                 linkVars, serverVars, boundVars>>

Command(c) == [call |-> c, target |-> calls[c].target]

\* Worker::request and Worker::lookup after their send.
Sent ==
  /\ worker = "sending"
  /\ SendTo(Command(sending))
  /\ worker' = "serving" /\ sending' = NoCall
  /\ IF IsRequest(sending)
     THEN pending' = sending /\ UNCHANGED outstanding
     ELSE outstanding' = outstanding \cup {sending} /\ UNCHANGED pending
  /\ switched' = IF calls[sending].kind = "SetTarget" THEN NoTarget ELSE switched
  /\ UNCHANGED <<callerVars, result, initialized, closed, ready, view, resume, link, toClient, serverVars,
                 boundVars>>

SendingFails ==
  /\ worker = "sending"
  /\ SendFails(Command(sending))
  /\ Reply({sending}, "Disconnected")
  /\ written' = IF toServer' = toServer THEN written ELSE written \cup {sending}
  /\ EndConnection("lost") /\ sending' = NoCall
  /\ switched' = IF calls[sending].kind = "SetTarget" THEN NoTarget ELSE switched
  /\ UNCHANGED <<handle, commands, lookups, pending, outstanding, initialized, closed, ready, view, resume,
                 link, toClient, serverVars, connections, published>>

\* Handshake::check.
Accepted(event) ==
  CASE event.kind = "Initialize" -> event.supported /\ ~initialized
    [] event.kind = "Error" -> TRUE
    [] event.kind = "Malformed" -> FALSE
    [] OTHER -> initialized

\* ClientState::apply, for the events that reach it.
Apply(event) ==
  CASE event.kind = "Initialize" ->
         [view EXCEPT !.error = FALSE, !.able = Capabilities(view.connection, view.snapshot)]
    [] event.kind = "Document" ->
         [view EXCEPT !.snapshot = event.target, !.connection = "Connected",
                      !.able = Capabilities("Connected", event.target)]
    [] event.kind = "Health" -> [view EXCEPT !.error = event.error]
    [] event.kind = "Error" ->
         [view EXCEPT !.connection = "Failed", !.able = Capabilities("Failed", view.snapshot)]

\* Mutant: the client keeps asking for the target it started with.
ResumeFirst(event) == resume' = resume
Follow(event) == resume' = IF event.kind = "Document" THEN event.target ELSE resume

\* The arm of transport.recv() with an event the handshake accepts.
ReceiveEvent ==
  /\ worker = "serving" /\ toClient # <<>>
  /\ Accepted(Head(toClient))
  /\ toClient' = Tail(toClient)
  /\ LET event == Head(toClient) IN
       /\ initialized' = (initialized \/ event.kind = "Initialize")
       /\ ready' = IF initialized' /\ ready = "waiting" /\ event.kind # "Error" THEN "ok" ELSE ready
       /\ \/ /\ event.kind = "RequestResult"
             /\ IF pending = NoCall THEN UNCHANGED <<calls, switched>>
                ELSE /\ Reply({pending}, event.result)
                     /\ switched' = IF event.result = "ok" /\ calls[pending].kind = "SetTarget"
                                    THEN calls[pending].target ELSE switched
             /\ pending' = NoCall
             /\ UNCHANGED <<worker, result, outstanding, view, resume>>
          \/ /\ event.kind = "Lookup"
             /\ Reply({event.call} \cap outstanding, event.result)
             /\ outstanding' = outstanding \ {event.call}
             /\ UNCHANGED <<worker, result, pending, stateVars>>
          \/ /\ event.kind \in {"Initialize", "Document", "Health"}
             /\ Follow(event)
             /\ view' = Apply(event)
             /\ UNCHANGED <<calls, worker, result, pending, outstanding, switched>>
          \/ /\ event.kind = "Error"
             /\ view' = Apply(event)
             /\ EndConnection(IF event.terminal THEN "terminal" ELSE "lost")
             /\ UNCHANGED <<calls, pending, outstanding, resume, switched>>
  /\ UNCHANGED <<handle, commands, lookups, sending, closed, link, toServer, serverVars, boundVars>>

\* An event out of order, or one that cannot be decoded: a protocol error.
RefuseEvent ==
  /\ worker = "serving" /\ toClient # <<>>
  /\ ~Accepted(Head(toClient))
  /\ toClient' = Tail(toClient)
  /\ EndConnection("terminal")
  /\ UNCHANGED <<callerVars, flightVars, initialized, closed, ready, stateVars, link, toServer,
                 serverVars, boundVars>>

\* A broken connection may lose what was on its way; IDLE_TIMEOUT passes.
ReceiveFails ==
  /\ worker = "serving"
  /\ link = "cut" \/ "Idle" \in Disturbances
  /\ EndConnection("lost")
  /\ UNCHANGED <<callerVars, flightVars, initialized, closed, ready, stateVars, linkVars, serverVars,
                 boundVars>>

\* recv() of a queue fails once every sender is gone and the queue is empty.
HandleGone ==
  /\ worker = "serving" /\ ~handle
  /\ \/ pending = NoCall /\ commands = <<>>
     \/ lookups = <<>>
  /\ closed' = TRUE
  /\ EndConnection("ok")
  /\ UNCHANGED <<callerVars, flightVars, initialized, ready, stateVars, linkVars, serverVars, boundVars>>

-----------------------------------------------------------------------------
(* The end of a connection.                                                 *)

\* abandon_request settles what was in flight.
Abandoned(c) ==
  IF c = pending /\ MayHaveCompleted(calls[c].kind) THEN "OutcomeUnknown" ELSE "Disconnected"
\* Mutant: the lookups are forgotten.
RequestInFlight == {pending} \ {NoCall}
InFlight == outstanding \cup ({pending} \ {NoCall})

\* Mutant: a client that was closed connects again.
RetriesWhenClosed == ready # "waiting" /\ Reconnects /\ result # "terminal"
Retries == ~closed /\ ready # "waiting" /\ Reconnects /\ result # "terminal"

\* The worker returns: what waits in its queues is dropped once no sender is left.
StopsWith(settled) ==
  /\ worker' = "stopped"
  /\ SetConnection("Failed")
  /\ IF handle
     THEN calls' = settled /\ UNCHANGED <<commands, lookups>>
     ELSE /\ calls' = [c \in Calls |-> IF c \in Elements(commands) \cup Elements(lookups)
                                       THEN [settled[c] EXCEPT !.reply = "Disconnected"] ELSE settled[c]]
          /\ commands' = <<>> /\ lookups' = <<>>

\* `run` after `connection`: close, abandon_request, and the decision to try again.
Close ==
  /\ worker = "closing"
  /\ link' = "cut"
  /\ pending' = NoCall /\ outstanding' = {}
  /\ ready' = IF ready = "waiting" THEN IF result = "ok" THEN "ok" ELSE "failed" ELSE ready
  /\ LET settled == [c \in Calls |-> IF c \in InFlight
                                     THEN [calls[c] EXCEPT !.reply = Abandoned(c)] ELSE calls[c]]
     IN \/ /\ Retries
           /\ worker' = "reconnecting"
           /\ SetConnection("Connecting")
           /\ calls' = settled /\ UNCHANGED <<commands, lookups>>
        \/ /\ ~Retries
           /\ StopsWith(settled)
  /\ UNCHANGED <<handle, result, sending, initialized, closed, resume, switched, toServer, toClient,
                 serverVars, boundVars>>

\* Handshake::reset.
ResetHandshake == initialized' = FALSE

\* The transport connects again: a fresh connection and a session of its own.  What
\* the old session had received or could still read may run all the same.
Reconnect ==
  /\ worker = "reconnecting" /\ connections < MaxConnections
  /\ worker' = "greeting" /\ ResetHandshake
  /\ late' = late \cup session.work \cup ({toServer[i].call : i \in 1..Len(toServer)} \ {NoCall})
  /\ session' = NewSession
  /\ link' = "up" /\ toServer' = <<>> /\ toClient' = <<>>
  /\ connections' = connections + 1
  /\ UNCHANGED <<callerVars, result, flightVars, closed, ready, stateVars, outcomes, published, written>>

\* Calls made while the worker reconnects are refused.  Mutant: lookups are left waiting.
RefuseCommand ==
  /\ worker = "reconnecting"
  /\ commands # <<>> /\ IsRequest(Head(commands))
  /\ Reply({Head(commands)}, "Disconnected")
  /\ commands' = Tail(commands)
  /\ UNCHANGED <<handle, lookups, worker, result, flightVars, initialized, closed, ready, stateVars,
                 linkVars, serverVars, boundVars>>
RefuseCall ==
  /\ worker = "reconnecting"
  /\ \/ /\ lookups # <<>>
        /\ Reply({Head(lookups)}, "Disconnected")
        /\ lookups' = Tail(lookups)
        /\ UNCHANGED commands
     \/ /\ commands # <<>> /\ IsRequest(Head(commands))
        /\ Reply({Head(commands)}, "Disconnected")
        /\ commands' = Tail(commands)
        /\ UNCHANGED lookups
  /\ UNCHANGED <<handle, worker, result, flightVars, initialized, closed, ready, stateVars, linkVars,
                 serverVars, boundVars>>

\* A close, or the last handle being dropped, stops it.
StopReconnecting ==
  /\ worker = "reconnecting"
  /\ closed' = TRUE
  /\ \/ /\ commands # <<>> /\ calls[Head(commands)].kind = "Close"
        /\ worker' = "stopped"
        /\ SetConnection("Failed")
        /\ Reply({Head(commands)}, "ok")
        /\ commands' = Tail(commands)
        /\ UNCHANGED lookups
     \/ /\ ~handle /\ commands = <<>>
        /\ StopsWith(calls)
  /\ UNCHANGED <<handle, result, flightVars, initialized, ready, resume, switched, linkVars, serverVars,
                 boundVars>>

-----------------------------------------------------------------------------
(* The server's end.  A session publishes what is due before it receives    *)
(* anything else, and goes on after its client is gone until it notices.    *)

Greets == [kind |-> "Initialize", supported |-> TRUE]
Shows(t) == [kind |-> "Document", target |-> t]

SessionReceives ==
  /\ session.due = <<>> /\ toServer # <<>>
  /\ toServer' = Tail(toServer)
  /\ LET message == Head(toServer) IN
       session' = IF message.call = NoCall
                  THEN [session EXCEPT !.greeted = TRUE, !.target = message.target,
                                       !.due = <<Greets, Shows(message.target)>>]
                  ELSE [session EXCEPT !.work = @ \cup {message.call}]
  /\ UNCHANGED <<callerVars, worker, result, flightVars, initialized, closed, ready, stateVars, link,
                 toClient, late, outcomes, boundVars>>

\* A command is run, and what it changed is due before its answer.
SessionRuns(c) ==
  /\ session.due = <<>> /\ c \in session.work
  /\ \E outcome \in {"ok"} \cup (IF "Rejects" \in Disturbances THEN {"rejected"} ELSE {}) :
       LET switches == calls[c].kind = "SetTarget" /\ outcome = "ok"
           shown == IF switches THEN calls[c].target ELSE session.target
           answer == IF calls[c].kind = "Lookup"
                     THEN <<[kind |-> "Lookup", call |-> c, result |-> outcome]>>
                     ELSE <<[kind |-> "RequestResult", result |-> outcome]>>
       IN /\ outcomes' = [outcomes EXCEPT ![c] = Append(@, outcome)]
          /\ session' = [session EXCEPT !.work = @ \ {c}, !.target = shown,
                                        !.due = (IF switches THEN <<Shows(shown)>> ELSE <<>>) \o answer]
  /\ UNCHANGED <<callerVars, worker, result, flightVars, initialized, closed, ready, stateVars, linkVars,
                 late, boundVars>>

SessionPublishes ==
  /\ session.due # <<>> /\ Len(toClient) < Capacity
  /\ toClient' = Append(toClient, Head(session.due))
  /\ session' = [session EXCEPT !.due = Tail(@)]
  /\ UNCHANGED <<callerVars, worker, result, flightVars, initialized, closed, ready, stateVars, link,
                 toServer, late, outcomes, boundVars>>

\* A newer document of the session's target, a report of its health, or what a server
\* that breaks the protocol may send.
SessionSpeaks ==
  /\ session.due = <<>> /\ link = "up" /\ published < MaxEvents
  /\ \E event \in
       (IF session.greeted THEN {Shows(session.target)} \cup [kind: {"Health"}, error: BOOLEAN] ELSE {})
       \cup (IF "ServerFails" \in Disturbances THEN [kind: {"Error"}, terminal: BOOLEAN] ELSE {})
       \cup (IF "ServerMisbehaves" \in Disturbances
             THEN {Greets, [kind |-> "Initialize", supported |-> FALSE], [kind |-> "Malformed"],
                   Shows(session.target)}
             ELSE {}) :
       session' = [session EXCEPT !.due = <<event>>]
  /\ published' = published + 1
  /\ UNCHANGED <<callerVars, worker, result, flightVars, initialized, closed, ready, stateVars, linkVars,
                 late, outcomes, connections, written>>

\* The session is gone: its SEND_TIMEOUT passed, or it failed or the network broke.
SessionTimesOut ==
  /\ session.due # <<>> /\ Len(toClient) = Capacity
  /\ link = "up"
  /\ link' = "cut"
  /\ UNCHANGED <<callerVars, worker, result, flightVars, initialized, closed, ready, stateVars, toServer,
                 toClient, serverVars, boundVars>>

SessionDies ==
  /\ "ServerDies" \in Disturbances
  /\ link = "up"
  /\ link' = "cut"
  /\ UNCHANGED <<callerVars, worker, result, flightVars, initialized, closed, ready, stateVars, toServer,
                 toClient, serverVars, boundVars>>

RunsLate(c) ==
  /\ c \in late
  /\ late' = late \ {c}
  /\ \E outcome \in {"ok", "rejected"} : outcomes' = [outcomes EXCEPT ![c] = Append(@, outcome)]
  /\ UNCHANGED <<callerVars, worker, result, flightVars, initialized, closed, ready, stateVars, linkVars,
                 session, boundVars>>

\* Nothing more has to happen: the worker returned, or every call was made and answered.
Quiet ==
  /\ \/ worker = "stopped" \/ worker = "serving" \/ (worker = "reconnecting" /\ connections = MaxConnections)
  /\ UNCHANGED vars

-----------------------------------------------------------------------------

Caller == (\E c \in Calls : MakeCall(c)) \/ DropHandle
Connection ==
  \/ Greet \/ TakeCommand \/ TakeLookup \/ Sent \/ SendingFails
  \/ ReceiveEvent \/ RefuseEvent \/ ReceiveFails \/ HandleGone
Between == Close \/ Reconnect \/ RefuseCall \/ StopReconnecting
Server ==
  \/ SessionReceives \/ SessionPublishes \/ SessionSpeaks \/ SessionTimesOut \/ SessionDies
  \/ \E c \in Calls : SessionRuns(c) \/ RunsLate(c)

Next == Caller \/ Connection \/ Between \/ Server \/ Quiet

Spec == Init /\ [][Next]_vars

(***************************************************************************)
(* Fairness.  The worker is one task and futures::select! has no order: its *)
(* steps are weakly fair.  The server answers what it received              *)
(* (RequestsAreAnswered of ReviewServer) and a blocked send of its times    *)
(* out.  Callers, the network and a server's documents owe nothing.         *)
(***************************************************************************)
Fairness ==
  /\ WF_vars(Greet) /\ WF_vars(Sent) /\ WF_vars(SendingFails)
  /\ WF_vars(TakeCommand) /\ WF_vars(TakeLookup)
  /\ WF_vars(ReceiveEvent) /\ WF_vars(RefuseEvent)
  /\ WF_vars(link = "cut" /\ ReceiveFails) /\ WF_vars(HandleGone)
  /\ WF_vars(Close) /\ WF_vars(Reconnect) /\ WF_vars(RefuseCall) /\ WF_vars(StopReconnecting)
  /\ WF_vars(SessionReceives) /\ WF_vars(SessionPublishes) /\ WF_vars(SessionTimesOut)
  /\ \A c \in Calls : WF_vars(SessionRuns(c))

FairSpec == Spec /\ Fairness

-----------------------------------------------------------------------------
(* Properties.                                                              *)

TypeOK ==
  /\ calls \in [Calls -> Call]
  /\ handle \in BOOLEAN
  /\ commands \in Seq(Calls) /\ lookups \in Seq(Calls)
  /\ worker \in Workers
  /\ result \in {"ok", "lost", "terminal"}
  /\ sending \in Calls \cup {NoCall} /\ pending \in Calls \cup {NoCall}
  /\ outstanding \in SUBSET Calls
  /\ initialized \in BOOLEAN /\ closed \in BOOLEAN
  /\ ready \in {"waiting", "ok", "failed"}
  /\ view \in View
  /\ resume \in Targets
  /\ link \in {"up", "cut"}
  /\ toServer \in Seq(Message) /\ toClient \in Seq(Event)
  /\ session \in Session
  /\ late \in SUBSET Calls
  /\ outcomes \in [Calls -> Seq({"ok", "rejected"})]
  /\ switched \in Targets \cup {NoTarget}
  /\ connections \in Nat /\ published \in Nat
  /\ written \in SUBSET Calls

Queued == Elements(commands) \cup Elements(lookups)
Underway == ({sending, pending} \cup outstanding) \ {NoCall}

\* Every call that waits is held in exactly one place of the client, and what the
\* client holds is a call that waits: no reply is lost, and none is sent twice,
\* however connections end.
EveryCallIsSomewhere ==
  /\ {c \in Calls : Waiting(c)} = Queued \cup Underway
  /\ Queued \cap Underway = {}
  /\ sending # NoCall => sending # pending /\ sending \notin outstanding
  /\ pending \notin outstanding

\* Whatever breaks and reconnects, the server runs a command at most once.
CommandsRunOnce == \A c \in Calls : Len(outcomes[c]) <= 1

\* The answer a caller gets is what the server did of its own call, although a
\* RequestResult names no request: one request is in flight at a time, and an answer
\* never crosses from one connection to the next.
AnswersAreTheirOwn ==
  \A c \in Calls : calls[c].kind # "Close" /\ calls[c].reply \in {"ok", "rejected"} =>
    outcomes[c] = <<calls[c].reply>>

\* A change of the repository or a completed review that is reported Disconnected
\* ("connection closed") did not happen: what may have happened is OutcomeUnknown
\* ("command may have completed before the connection was lost").  Only a command whose own write
\* timed out with its frame already on its way is reported Disconnected and may happen.
DisconnectedDidNotRun ==
  \A c \in Calls \ written :
    calls[c].kind \in {"Apply", "Submit", "Cancel"} /\ calls[c].reply = "Disconnected" =>
      outcomes[c] = <<>>

\* After a SetTarget was acknowledged the client asks for that target on every later
\* connection, until another SetTarget is sent.
SwitchIsKept == switched # NoTarget => resume = switched

\* A call is answered, unless it is still queued when the worker stops while a handle
\* keeps the queue alive.
CallsAreAnswered ==
  \A c \in Calls : Waiting(c) ~>
    (~Waiting(c) \/ (worker = "stopped" /\ handle /\ c \in Queued))

\* A client that is closed, or whose last handle is dropped, stops; so does one whose
\* first connection fails.
ClosedClientStops == (closed \/ ~handle \/ ready = "failed") ~> worker = "stopped"
=============================================================================
