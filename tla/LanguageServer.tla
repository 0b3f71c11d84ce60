----------------------------- MODULE LanguageServer -----------------------------
(***************************************************************************)
(* One language server shared by the clients of a workspace (crates/util/   *)
(* lspd: WorkspaceSession, the LanguageServer actor, the queue of refreshes  *)
(* and the watched files), as they treat one file.  A call reads the file,  *)
(* has the actor open it, and holds it open until it is answered or given   *)
(* up; the refresher does the same for what has changed.  A server that     *)
(* dies is replaced by the next call.                                       *)
(*                                                                         *)
(* A file's content is the number of the edit it comes from.  What the      *)
(* server answers and which diagnostics it publishes is left out, and so is  *)
(* how long anything takes: a wait ends by an answer or by its deadline.    *)
(***************************************************************************)
EXTENDS Integers, Sequences

CONSTANTS
  None,
  Calls,        \* calls that clients make
  Refresher,    \* the task that refreshes (run_refresh)
  Capacity,     \* length of the command channel
  Locations,    \* where the file may lie
  Registrations,\* kinds of events that the server may register for
  MaxEdits,     \* bound: times the file is written or removed
  MaxSessions   \* bound: servers started

CallKinds == {"Request", "Diagnostics", "Workspace", "Written"}
Tasks == Calls \cup {Refresher}

\* Walked at the start and watched; watched only (hidden or ignored by git); in a directory that is
\* ignored (node_modules); or of a language that the server does not serve.
PossibleLocations == {"tracked", "hidden", "ignored", "unserved"}
EventKinds == {"Create", "Change", "Delete"}

ASSUME ConstantsAssumption ==
  /\ Refresher \notin Calls /\ None \notin Nat
  /\ Locations \subseteq PossibleLocations /\ Registrations \subseteq SUBSET EventKinds
  /\ Capacity \in Nat \ {0} /\ MaxEdits \in Nat /\ MaxSessions \in Nat \ {0}

VARIABLES
  file,      \* on disk: the edit it comes from, whether it exists, and where
  server,    \* the session: its number, whether it is alive, what the server process has open
  document,  \* the actor's Document of the file
  commands,  \* the actor's channel
  closes,    \* closes that wait in a spawned task for room in it
  pending,   \* requests that the server has
  watched,   \* the watcher: events to take, what was noticed, and what the server registered for, of the file
  jobs,      \* the refresher's channel
  work,      \* its Jobs: the queue, what is queued, what is stale
  tasks      \* where each call and the refresher are

vars == <<file, server, document, commands, closes, pending, watched, jobs, work, tasks>>

NoDocument == [holders |-> 0, content |-> None, needs_refresh |-> FALSE]
NoWork == [queue |-> <<>>, queued |-> FALSE, stale |-> FALSE]
Unwatched == [events |-> <<>>, noticed |-> {}, registered |-> None, due |-> {}]

\* History: the edits that are to reach the server, from the one the session begins with.
Watching == [Unwatched EXCEPT !.due = IF file.exists /\ file.location = "tracked" THEN {file.edit} ELSE {}]

\* History: the newest content the server was given; a refresh forgotten, or a file missing, when it was to be opened.
Started(number) ==
  [number |-> number, alive |-> TRUE, open |-> None, newest |-> 0, forgot |-> FALSE, missed |-> FALSE]

Task(at) == [at |-> at, kind |-> None, read |-> None, session |-> 1, retried |-> FALSE]

Init ==
  /\ file \in [edit : {1}, exists : BOOLEAN, location : Locations]
  /\ server = Started(1)
  /\ document = NoDocument
  /\ commands = <<>> /\ closes = 0 /\ pending = {}
  /\ watched = Watching
  /\ jobs = <<>> /\ work = NoWork
  /\ tasks = [t \in Tasks |-> Task(IF t = Refresher THEN "discover" ELSE "new")]

-----------------------------------------------------------------------------
(* The file and its watcher.                                                *)

\* The watcher reports a change of the file (a rename is a Change), or does not: it could not be
\* started, met an error, or lost the event with others and says only that it did.
Edit ==
  /\ file.edit <= MaxEdits
  /\ \E exists \in BOOLEAN, kind \in EventKinds \cup {None} :
       /\ exists \/ file.exists
       /\ kind # None => server.alive /\ kind # (IF exists THEN "Delete" ELSE "Create")
       /\ file' = [file EXCEPT !.edit = @ + 1, !.exists = exists]
       /\ watched' = [watched EXCEPT
            !.events = IF kind = None THEN @ ELSE Append(@, [kind |-> kind, edit |-> file.edit + 1]),
            !.due = IF ~exists THEN {} ELSE IF kind = None THEN @ ELSE @ \cup {file.edit + 1}]
  /\ UNCHANGED <<server, document, commands, closes, pending, jobs, work, tasks>>

\* An event of a kind that the server's registration for the file leaves out is dropped.
Relevant(event) ==
  IF watched.registered = None THEN file.location # "ignored" ELSE event.kind \in watched.registered

Notice ==
  /\ watched.events # <<>>
  /\ LET event == Head(watched.events)
     IN watched' = [watched EXCEPT
          !.events = Tail(@),
          !.noticed = IF ~Relevant(event) THEN @
                      ELSE @ \cup {IF watched.registered = None THEN "discovered" ELSE "changed"},
          !.due = IF Relevant(event) THEN @ ELSE @ \ {event.edit}]
  /\ UNCHANGED <<file, server, document, commands, closes, pending, jobs, work, tasks>>

\* The server registers for kinds of changes of the file, or no longer for any.
Register ==
  /\ server.alive
  /\ \E registered \in Registrations \cup {None} : watched' = [watched EXCEPT !.registered = registered]
  /\ UNCHANGED <<file, server, document, commands, closes, pending, jobs, work, tasks>>

Job(kind, call) == [kind |-> kind, call |-> call]
Stale == Job("Stale", None)

\* mark_stale: only what the server serves, outside of ignored directories.
Refreshable == file.location \in {"tracked", "hidden"}
MarkStale == IF Refreshable THEN Append(jobs, Stale) ELSE jobs

\* A change of a file that is held is put off to its close.
Forward ==
  /\ watched.noticed # {}
  /\ watched' = [watched EXCEPT !.noticed = {}]
  /\ LET putOff == "changed" \in watched.noticed /\ document.holders > 0
     IN /\ document' = IF putOff THEN [document EXCEPT !.needs_refresh = TRUE] ELSE document
        /\ jobs' = IF ~putOff \/ "discovered" \in watched.noticed THEN MarkStale ELSE jobs
  /\ UNCHANGED <<file, server, commands, closes, pending, work, tasks>>

\* The server asks for what it published to be refreshed; `jobs = <<>>` bounds how often.
RefreshAsked ==
  /\ server.alive /\ server.newest # 0 /\ jobs = <<>>
  /\ jobs' = MarkStale
  /\ UNCHANGED <<file, server, document, commands, closes, pending, watched, work, tasks>>

-----------------------------------------------------------------------------
(* The actor.                                                               *)

Command(kind, task, content) == [kind |-> kind, task |-> task, content |-> content]
Close == Command("Close", None, None)

Reply(task, at) == IF tasks[task].at = "opening" THEN [tasks EXCEPT ![task].at = at] ELSE tasks

\* Content that is not open already is, anew if other content was.
OpenContent(content) ==
  /\ document' = [document EXCEPT !.holders = @ + 1, !.content = content]
  /\ server' = IF document.holders = 0 \/ document.content # content
               THEN [server EXCEPT !.open = content, !.newest = IF content > @ THEN content ELSE @]
               ELSE server

OpenMissing ==
  /\ document' = NoDocument
  /\ server' = [server EXCEPT !.missed = TRUE, !.forgot = @ \/ document.needs_refresh]

HandleOpen(command) ==
  /\ IF command.content = None THEN OpenMissing ELSE OpenContent(command.content)
  /\ tasks' = Reply(command.task, "opened")
  /\ UNCHANGED <<pending, jobs>>

CloseAll(d) == [d EXCEPT !.holders = 0]
Released(d) == [d EXCEPT !.holders = @ - 1]

HandleClose ==
  /\ LET released == Released(document)
     IN IF document.holders = 0 THEN UNCHANGED <<document, server, jobs>>
        ELSE IF released.holders > 0 THEN document' = released /\ UNCHANGED <<server, jobs>>
        ELSE /\ document' = [released EXCEPT !.needs_refresh = FALSE]
             /\ server' = [server EXCEPT !.open = None]
             /\ jobs' = IF document.needs_refresh THEN MarkStale ELSE jobs
  /\ UNCHANGED <<pending, tasks>>

\* A request whose caller is gone is not waited for.
HandleRequest(command) ==
  /\ pending' = IF tasks[command.task].at = "awaiting" THEN pending \cup {command.task} ELSE pending
  /\ UNCHANGED <<document, server, jobs, tasks>>

\* What is written is saved with the next open: nothing else comes of the command.
HandleWritten == UNCHANGED <<document, server, pending, jobs, tasks>>

Handle ==
  /\ commands # <<>>
  /\ commands' = Tail(commands)
  /\ LET command == Head(commands)
     IN \/ command.kind = "Open" /\ HandleOpen(command)
        \/ command.kind = "Close" /\ HandleClose
        \/ command.kind = "Request" /\ HandleRequest(command)
        \/ command.kind = "MarkWritten" /\ HandleWritten
  /\ UNCHANGED <<file, closes, watched, work>>

-----------------------------------------------------------------------------
(* Calls, and what the refresher does like them.                            *)

Attached(t) == server.alive /\ tasks[t].session = server.number
HasRoom == Len(commands) < Capacity
Send(command) == HasRoom /\ commands' = Append(commands, command)
Goes(t, at) == tasks' = [tasks EXCEPT ![t].at = at]

Holds(t) == tasks[t].at \in {"opening", "opened", "awaiting"}

\* HeldDocument is dropped: the close is sent at once, or by a task once there is room.
Release ==
  IF HasRoom THEN commands' = Append(commands, Close) /\ UNCHANGED closes
  ELSE closes' = closes + 1 /\ UNCHANGED commands

SendClose ==
  /\ closes > 0 /\ Send(Close) /\ closes' = closes - 1
  /\ UNCHANGED <<file, server, document, pending, watched, jobs, work, tasks>>

Begin(c, kind) ==
  tasks' = [tasks EXCEPT ![c].kind = kind, ![c].session = server.number,
                         ![c].at = CASE kind = "Workspace" -> "barrier" [] kind = "Written" -> "marking" [] OTHER -> "read"]

Call(c) ==
  /\ tasks[c].at = "new" /\ server.alive
  /\ \E kind \in CallKinds :
       Begin(c, kind) /\ jobs' = IF kind = "Workspace" THEN Append(jobs, Job("Workspace", c)) ELSE jobs
  /\ UNCHANGED <<file, server, document, commands, closes, pending, watched, work>>

\* A request is made once more when its server is gone.
Retry(c) ==
  /\ tasks[c].at = "retry" /\ server.alive
  /\ Begin(c, "Request")
  /\ UNCHANGED <<file, server, document, commands, closes, pending, watched, jobs, work>>

Read(t) ==
  /\ tasks[t].at = "read"
  /\ tasks' = [tasks EXCEPT ![t].at = "reserve", ![t].read = IF file.exists THEN file.edit ELSE None]
  /\ UNCHANGED <<file, server, document, commands, closes, pending, watched, jobs, work>>

AskOpen(t) ==
  /\ tasks[t].at = "reserve" /\ Attached(t)
  /\ Send(Command("Open", t, tasks[t].read)) /\ Goes(t, "opening")
  /\ UNCHANGED <<file, server, document, closes, pending, watched, jobs, work>>

\* The request itself, or the pull of diagnostics where the server has them pulled.
Ask(t) ==
  /\ tasks[t].at = "opened" /\ Attached(t)
  /\ tasks[t].kind = "Request" \/ tasks[t].read # None
  /\ Send(Command("Request", t, None)) /\ Goes(t, "awaiting")
  /\ UNCHANGED <<file, server, document, closes, pending, watched, jobs, work>>

\* A server whose content was modified has the request sent again.
AskAgain(t) ==
  /\ t \in pending
  /\ pending' = pending \ {t} /\ Goes(t, "opened")
  /\ UNCHANGED <<file, server, document, commands, closes, watched, jobs, work>>

Answered(c) ==
  /\ c \in pending /\ tasks[c].kind = "Request"
  /\ pending' = pending \ {c} /\ Goes(c, "done") /\ Release
  /\ UNCHANGED <<file, server, document, watched, jobs, work>>

\* Diagnostics came or did not; a call that is not sure of them waits for the refresher.
Refreshed(t) ==
  /\ tasks[t].kind # "Request" /\ tasks[t].at \in {"opened", "awaiting"} /\ Attached(t)
  /\ pending' = pending \ {t} /\ Release
  /\ \/ t = Refresher /\ Goes(t, "idle") /\ UNCHANGED jobs
     \/ t \in Calls /\ tasks[t].read # None /\ Goes(t, "done") /\ UNCHANGED jobs
     \/ t \in Calls /\ Goes(t, "barrier") /\ jobs' = Append(jobs, Job("Barrier", t))
  /\ UNCHANGED <<file, server, document, watched, work>>

\* queue_diagnostic_refresh, of a file that the client has written.
Mark(c) ==
  /\ tasks[c].at = "marking" /\ Attached(c)
  /\ Send(Command("MarkWritten", None, None)) /\ Goes(c, "done")
  /\ jobs' = Append(jobs, Job("Uri", None))
  /\ UNCHANGED <<file, server, document, closes, pending, watched, work>>

\* The client gives a call up, or goes.
GiveUp(c) ==
  /\ tasks[c].at \notin {"new", "retry", "done"} /\ Attached(c)
  /\ Goes(c, "done") /\ pending' = pending \ {c}
  /\ IF Holds(c) THEN Release ELSE UNCHANGED <<commands, closes>>
  /\ UNCHANGED <<file, server, document, watched, jobs, work>>

\* A call finds its session closed.
FindClosed(c) ==
  /\ tasks[c].at \notin {"new", "retry", "done"} /\ ~Attached(c)
  /\ tasks' = IF tasks[c].kind = "Request" /\ ~tasks[c].retried
              THEN [tasks EXCEPT ![c].at = "retry", ![c].retried = TRUE]
              ELSE [tasks EXCEPT ![c].at = "done"]
  /\ UNCHANGED <<file, server, document, commands, closes, pending, watched, jobs, work>>

-----------------------------------------------------------------------------
(* The refresher.                                                           *)

Enqueue(w) ==
  [w EXCEPT !.stale = FALSE, !.queued = TRUE, !.queue = IF w.queued THEN @ ELSE Append(@, Job("Uri", None))]

Push(w, job) ==
  CASE job.kind = "Uri" -> Enqueue(w)
    [] job.kind = "Stale" -> [w EXCEPT !.stale = TRUE]
    [] job.kind = "Barrier" -> [w EXCEPT !.queue = Append(@, job)]
    [] job.kind = "Workspace" -> [(IF w.stale THEN Enqueue(w) ELSE w) EXCEPT !.queue = Append(@, Job("Barrier", job.call))]

KeepQueued(w) == [w EXCEPT !.queue = Tail(@)]
Pop(w) == [w EXCEPT !.queue = Tail(@), !.queued = @ /\ Head(w.queue).kind # "Uri"]

\* All files of the server's languages there are, at the start.
Discover ==
  /\ tasks[Refresher].at = "discover" /\ server.alive
  /\ Goes(Refresher, "idle") /\ work' = [work EXCEPT !.stale = @ \/ (file.exists /\ file.location = "tracked")]
  /\ UNCHANGED <<file, server, document, commands, closes, pending, watched, jobs>>

Idle == tasks[Refresher].at = "idle" /\ server.alive

\* All that was sent is taken before anything is done.
TakeJob ==
  /\ Idle /\ jobs # <<>>
  /\ jobs' = Tail(jobs) /\ work' = Push(work, Head(jobs))
  /\ UNCHANGED <<file, server, document, commands, closes, pending, watched, tasks>>

Refresh ==
  /\ Idle /\ jobs = <<>> /\ work.queue # <<>>
  /\ work' = Pop(work)
  /\ LET job == Head(work.queue)
     IN \/ job.kind = "Uri" /\ Goes(Refresher, "read")
        \/ job.kind = "Barrier" /\ tasks' = [tasks EXCEPT ![job.call].at = IF @ = "barrier" THEN "done" ELSE @]
  /\ UNCHANGED <<file, server, document, commands, closes, pending, watched, jobs>>

-----------------------------------------------------------------------------
(* Servers come and go.                                                     *)

\* The process exits, is killed for a deadline that was missed, or is shut down: all of its session ends.
Die ==
  /\ server.alive
  /\ server' = [server EXCEPT !.alive = FALSE, !.open = None]
  /\ document' = NoDocument /\ commands' = <<>> /\ closes' = 0 /\ pending' = {}
  /\ watched' = Unwatched /\ jobs' = <<>> /\ work' = NoWork
  /\ tasks' = [tasks EXCEPT ![Refresher] = Task("discover")]
  /\ UNCHANGED file

Spawn ==
  /\ ~server.alive /\ server.number < MaxSessions
  /\ \E c \in Calls : tasks[c].at \in {"new", "retry"}
  /\ server' = Started(server.number + 1)
  /\ tasks' = [tasks EXCEPT ![Refresher].session = server.number + 1]
  /\ watched' = Watching
  /\ UNCHANGED <<file, document, commands, closes, pending, jobs, work>>

Next ==
  \/ Edit \/ Notice \/ Register \/ Forward \/ RefreshAsked
  \/ Handle \/ SendClose \/ Discover \/ TakeJob \/ Refresh \/ Die \/ Spawn
  \/ \E t \in Tasks : Read(t) \/ AskOpen(t) \/ Ask(t) \/ AskAgain(t) \/ Refreshed(t)
  \/ \E c \in Calls : Call(c) \/ Retry(c) \/ Answered(c) \/ Mark(c) \/ GiveUp(c) \/ FindClosed(c)

Spec == Init /\ [][Next]_vars

-----------------------------------------------------------------------------
(* Properties.                                                              *)

\* A request about a file reaches the server while the file is open there, however calls overlap,
\* are given up and release what they hold; only a file that was missing when it was to be opened
\* may be closed under another call.
RequestsReachOpenDocuments ==
  [][Handle /\ Head(commands).kind = "Request" /\ ~server.missed => server.open # None]_vars

\* A refresh that opens what the file holds since this edit.
Opens(t, edit) ==
  \/ tasks[t].at = "read"
  \/ tasks[t].at \in {"reserve", "opening"} /\ tasks[t].read # None /\ tasks[t].read >= edit

\* A change that was reported, of a kind the server's registration does not leave out, and that the
\* server was never given, is on its way: it is to be noticed, noticed, marked stale, queued, being
\* refreshed, or put off to a close.  So is what a session finds at its start, until it discovers it.
NoChangeIsLost ==
  server.alive /\ Refreshable /\ ~server.forgot =>
    \A edit \in watched.due : server.newest < edit =>
      \/ \E i \in DOMAIN watched.events : watched.events[i].edit = edit
      \/ watched.noticed # {}
      \/ \E i \in DOMAIN jobs : jobs[i].kind \in {"Stale", "Uri"}
      \/ work.stale \/ \E i \in DOMAIN work.queue : work.queue[i].kind = "Uri"
      \/ document.holders > 0 /\ document.needs_refresh
      \/ tasks[Refresher].at = "discover" /\ file.location = "tracked"
      \/ Opens(Refresher, edit)
=============================================================================
