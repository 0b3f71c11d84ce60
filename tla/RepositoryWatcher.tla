-------------------------- MODULE RepositoryWatcher --------------------------
(***************************************************************************)
(* The repository watcher (crates/diff/watch): from a change in the         *)
(* worktree to the state it retains for each review target.                *)
(*                                                                         *)
(* The operating system reports changes in the directories that are        *)
(* watched; NotifyFileWatcher's task gathers the events into batches,       *)
(* watches the directories anew when a batch asks for it, and wakes the    *)
(* actor through a channel of one place; the actor handles requests first  *)
(* and loads the targets that somebody receives.                           *)
(*                                                                         *)
(* A snapshot is its target and the version of the repository it was read  *)
(* at, some version between the start and the end of its load.             *)
(***************************************************************************)
EXTENDS Integers, Sequences, FiniteSets

CONSTANTS
  Directories, Root, Parent,  \* directories that may exist, and where each one is
  Targets, Scoped,            \* review targets, and those of the working tree
  FirstTarget,                \* the target the watcher is spawned with
  MaxEvents,                  \* places in the broadcast channel (MAX_EVENTS)
  MaxChanges,                 \* bound: changes of the repository
  MaxEmitted,                 \* bound: events that tell of no change
  MaxRequests,                \* bound: requests to the actor
  MaxInputs,                  \* bound: changes, such events and requests together
  RequestKinds,               \* kinds of request in a run
  Disturbances                \* bound: which of PossibleDisturbances happen in a run

Kinds == {"SetTarget", "RefreshTarget", "Subscribe"}
NoDirectory == "no directory"
NoTarget == "no target"
PossibleDisturbances == {"LoadFails", "Overflow", "Vanish", "Shutdown"}

ASSUME ConstantsAssumption ==
  /\ Root \in Directories
  /\ Parent \in [Directories \ {Root} -> Directories]
  /\ \A below \in SUBSET (Directories \ {Root}) :  \* a tree: every way up leads to the root
       below # {} => \E d \in below : Parent[d] \notin below
  /\ Scoped \subseteq Targets /\ FirstTarget \in Targets
  /\ NoDirectory \notin Directories /\ NoTarget \notin Targets
  /\ MaxEvents \in Nat \ {0}
  /\ MaxChanges \in Nat /\ MaxEmitted \in Nat /\ MaxRequests \in Nat
  /\ MaxInputs \in Nat
  /\ RequestKinds \subseteq Kinds
  /\ Disturbances \subseteq PossibleDisturbances

VARIABLES
  repo,           \* the repository's version
  directories,    \* the directories there are to watch
  watched,        \* those the current notify watcher watches
  events, lagged, \* the broadcast channel; its receiver lost the oldest
  task,           \* where process_events is
  batch,          \* its Batch
  fresh, walk, listing,  \* watch_all: the new watcher, directories to come, the one being read
  wakeup,         \* the mpsc channel of one place
  actor,          \* what RepositoryActor is doing
  requests,       \* the channel of requests
  target, own,    \* RepositoryActor.target and what state_tx holds
  channels,       \* RepositoryActor.subscriptions
  receivers,      \* targets whose subscription has a receiver
  answer,         \* history: the last answer, and the version it promises
  emitted, asked  \* counters for the bounds

diskVars == <<repo, directories, emitted>>
eventVars == <<events, lagged>>
watchVars == <<watched, fresh, walk, listing>>
stateVars == <<target, own, channels, receivers>>
requestVars == <<requests, asked, answer>>
vars == <<diskVars, eventVars, watchVars, task, batch, wakeup, actor, stateVars, requestVars>>

-----------------------------------------------------------------------------
(* Data.                                                                    *)

\* What Batch::push and the filter tell apart of an event: it asks for a rescan, for
\* the directories to be watched anew, or has a path that is not ignored.
Event == [rescan: BOOLEAN, rewatch: BOOLEAN, relevant: BOOLEAN]
Edited == [rescan |-> FALSE, rewatch |-> FALSE, relevant |-> TRUE]
Moved(rewatch) == [rescan |-> FALSE, rewatch |-> rewatch, relevant |-> TRUE]
Scratch(rewatch) == [rescan |-> FALSE, rewatch |-> rewatch, relevant |-> FALSE]
Rescan == [rescan |-> TRUE, rewatch |-> FALSE, relevant |-> FALSE]

NoBatch == [rescan |-> FALSE, rewatch |-> FALSE, relevant |-> FALSE]

State == [shows: Targets, loaded: Nat, error: BOOLEAN]
NoChannel == [shows |-> NoTarget, loaded |-> 0, error |-> FALSE]
Channel == State \cup {NoChannel}
Live(t) == channels[t] # NoChannel

\* A job of the actor: a request, or a wakeup with the targets still to be loaded; and
\* the load it waits for, with the version the repository had when it began.
Job == [kind: Kinds \cup {"idle", "wakeup", "stopped"}, target: Targets, since: Nat,
        todo: SUBSET Targets, loading: Targets \cup {NoTarget}, from: Nat]
Idle == [kind |-> "idle", target |-> FirstTarget, since |-> 0, todo |-> {}, loading |-> NoTarget,
         from |-> 0]
Stopped == [Idle EXCEPT !.kind = "stopped"]
Loading(job, t) == [job EXCEPT !.loading = t, !.from = repo, !.todo = @ \ {t}]

Request == [kind: Kinds, target: Targets, since: Nat]
\* An answer promises a state that was loaded for it, or the one it joins.
Sources == {"loaded", "own", "channel"}
NoAnswer == [target |-> FirstTarget, since |-> 0, ok |-> FALSE, source |-> "loaded"]

Children(d) == {e \in directories \ {Root} : Parent[e] = d}

Init ==
  /\ repo = 0 /\ directories = {Root} /\ emitted = 0
  /\ watched = directories /\ fresh = {} /\ walk = {} /\ listing = NoDirectory
  /\ events = <<>> /\ lagged = FALSE
  /\ task = "waiting" /\ batch = NoBatch
  /\ wakeup = FALSE
  /\ actor = Idle
  /\ requests = <<>> /\ asked = 0 /\ answer = NoAnswer
  /\ target = FirstTarget
  /\ own = [shows |-> FirstTarget, loaded |-> 0, error |-> FALSE]
  /\ channels = [t \in Targets |-> NoChannel]
  /\ receivers = {}

\* The bound on all that comes from outside.
Bounded == repo + emitted + asked < MaxInputs

-----------------------------------------------------------------------------
(* The disk.  What happens in a directory nobody watches goes unreported.   *)

\* broadcast::Sender::send: a full channel loses its oldest event.
Broadcast(event) ==
  IF Len(events) < MaxEvents THEN events' = Append(events, event) /\ UNCHANGED lagged
  ELSE events' = Append(Tail(events), event) /\ lagged' = TRUE

Report(d, event) ==
  IF d \in watched \cup fresh THEN Broadcast(event) ELSE UNCHANGED eventVars

Edit(d) ==
  /\ d \in directories /\ repo < MaxChanges /\ Bounded
  /\ repo' = repo + 1
  /\ Report(d, Edited)
  /\ UNCHANGED <<directories, emitted, watchVars, task, batch, wakeup, actor, stateVars, requestVars>>

\* The queue of the operating system overflows, and an event is lost.
Overflow(d) ==
  /\ "Overflow" \in Disturbances
  /\ d \in directories /\ repo < MaxChanges /\ Bounded
  /\ repo' = repo + 1
  /\ Report(d, Rescan)
  /\ UNCHANGED <<directories, emitted, watchVars, task, batch, wakeup, actor, stateVars, requestVars>>

\* A directory is made, moved in with what is in it, or no longer ignored.
Appear(d) ==
  /\ d \in Directories \ directories /\ Parent[d] \in directories /\ repo < MaxChanges /\ Bounded
  /\ \E below \in SUBSET {e \in Directories \ directories : e # d /\ Parent[e] = d} :
       directories' = directories \cup {d} \cup below
  /\ repo' = repo + 1
  /\ Report(Parent[d], Moved(TRUE))
  /\ UNCHANGED <<emitted, watchVars, task, batch, wakeup, actor, stateVars, requestVars>>

\* A directory is removed or moved away, and its watch with it.
Vanish(d) ==
  /\ "Vanish" \in Disturbances
  /\ d \in directories \ {Root} /\ Children(d) = {} /\ repo < MaxChanges /\ Bounded
  /\ directories' = directories \ {d}
  /\ watched' = watched \ {d} /\ fresh' = fresh \ {d}
  /\ repo' = repo + 1
  /\ \E rewatch \in BOOLEAN : Report(Parent[d], Moved(rewatch))
  /\ UNCHANGED <<emitted, walk, listing, task, batch, wakeup, actor, stateVars, requestVars>>

\* Git's scratch files and ignored paths.
ScratchEvent ==
  /\ emitted < MaxEmitted /\ Bounded
  /\ emitted' = emitted + 1
  /\ \E rewatch \in BOOLEAN : Broadcast(Scratch(rewatch))
  /\ UNCHANGED <<repo, directories, watchVars, task, batch, wakeup, actor, stateVars, requestVars>>

-----------------------------------------------------------------------------
(* process_events.                                                          *)

\* Batch::push; a batch of more than MAX_PATHS paths is a rescan.
\* Mutant: events lost by the channel are ignored.
IgnoreLag(b) == b
AfterLag(b) == [b EXCEPT !.rescan = TRUE]
AllPaths(b, event) == [b EXCEPT !.rewatch = @ \/ event.rewatch, !.relevant = @ \/ event.relevant]

Push(b, event) ==
  IF b.rescan THEN {b}
  ELSE IF event.rescan THEN {[b EXCEPT !.rescan = TRUE]}
  ELSE {AllPaths(b, event), [AllPaths(b, event) EXCEPT !.rescan = TRUE]}

ReceiveEvent ==
  /\ task \in {"waiting", "gathering"}
  /\ task' = "gathering"
  /\ \/ /\ lagged
        /\ lagged' = FALSE
        /\ batch' = AfterLag(batch)
        /\ UNCHANGED events
     \/ /\ ~lagged /\ events # <<>>
        /\ events' = Tail(events)
        /\ batch' \in Push(batch, Head(events))
        /\ UNCHANGED lagged
  /\ UNCHANGED <<diskVars, watchVars, wakeup, actor, stateVars, requestVars>>

\* Mutant: directories are only watched anew when events were lost.
OnlyRescans(b) == b.rescan
NeedsRewatch(b) == b.rescan \/ b.rewatch

\* The debounce is over.
Deadline ==
  /\ task = "gathering"
  /\ IF NeedsRewatch(batch)
     THEN task' = "watching" /\ walk' = {Root}
     ELSE task' = "filtering" /\ UNCHANGED walk
  /\ UNCHANGED <<diskVars, eventVars, watched, fresh, listing, batch, wakeup, actor, stateVars, requestVars>>

\* watch_all: each directory is watched before the walk reads what is in it.

WatchDirectory ==
  /\ task = "watching" /\ listing = NoDirectory
  /\ \E d \in walk \cap directories :
       /\ fresh' = fresh \cup {d}
       /\ walk' = walk \ {d} /\ listing' = d
  /\ UNCHANGED <<diskVars, eventVars, watched, task, batch, wakeup, actor, stateVars, requestVars>>

ReadDirectory ==
  /\ task = "watching" /\ listing # NoDirectory
  /\ walk' = walk \cup Children(listing)
  /\ listing' = NoDirectory
  /\ UNCHANGED <<diskVars, eventVars, watched, fresh, task, batch, wakeup, actor, stateVars, requestVars>>

\* The new watcher takes the place of the old one.
Rewatched ==
  /\ task = "watching" /\ listing = NoDirectory /\ walk = {}
  /\ watched' = fresh /\ fresh' = {}
  /\ task' = "filtering"
  /\ UNCHANGED <<diskVars, eventVars, walk, listing, batch, wakeup, actor, stateVars, requestVars>>

\* A directory is gone before it is watched or read: the task returns.
RewatchFails ==
  /\ task = "watching"
  /\ (walk \cup ({listing} \ {NoDirectory})) \ directories # {}
  /\ task' = "stopped"
  /\ watched' = {} /\ fresh' = {} /\ walk' = {} /\ listing' = NoDirectory
  /\ UNCHANGED <<diskVars, eventVars, batch, wakeup, actor, stateVars, requestVars>>

\* should_refresh and the wakeup; a wakeup that is there already is enough.
Filter ==
  /\ task = "filtering"
  /\ wakeup' = (wakeup \/ batch.rescan \/ batch.relevant)
  /\ task' = "waiting" /\ batch' = NoBatch
  /\ UNCHANGED <<diskVars, eventVars, watchVars, actor, stateVars, requestVars>>

-----------------------------------------------------------------------------
(* Callers.                                                                 *)

Ask ==
  /\ asked < MaxRequests /\ Bounded /\ actor # Stopped
  /\ \E kind \in RequestKinds, t \in Targets :
       requests' = Append(requests, [kind |-> kind, target |-> t, since |-> repo])
  /\ asked' = asked + 1
  /\ UNCHANGED <<diskVars, eventVars, watchVars, task, batch, wakeup, actor, stateVars, answer>>

Leave(t) ==
  /\ t \in receivers
  /\ receivers' = receivers \ {t}
  /\ UNCHANGED <<diskVars, eventVars, watchVars, task, batch, wakeup, actor, target, own, channels,
                 requestVars>>

-----------------------------------------------------------------------------
(* RepositoryActor::run.  Requests come first (biased).                     *)

Answer(request, ok) ==
  answer' = [target |-> request.target, since |-> request.since, ok |-> ok, source |-> "loaded"]

\* subscribe with a channel to join, which is answered at once with the state that is there.
Joins(request) ==
  request.kind = "Subscribe" /\ (request.target = target \/ Live(request.target))
Joined(t) == IF t = target THEN own ELSE channels[t]
AnswerJoined(t) ==
  answer' = [target |-> t, since |-> Joined(t).loaded, ok |-> TRUE,
             source |-> IF t = target THEN "own" ELSE "channel"]

HandleRequest ==
  /\ actor = Idle /\ requests # <<>>
  /\ requests' = Tail(requests)
  /\ LET request == Head(requests)
         job == [Idle EXCEPT !.kind = request.kind, !.target = request.target, !.since = request.since]
     IN \/ /\ Joins(request)
           /\ receivers' = IF request.target = target THEN receivers ELSE receivers \cup {request.target}
           /\ AnswerJoined(request.target)
           /\ UNCHANGED <<actor, target>>
        \/ /\ ~Joins(request)
           /\ actor' = Loading(job, request.target)
           /\ target' = IF request.kind = "SetTarget" THEN request.target ELSE target
           /\ UNCHANGED <<receivers, answer>>
  /\ UNCHANGED <<diskVars, eventVars, watchVars, task, batch, wakeup, own, channels, asked>>

\* refresh_active: forget what nobody receives, then load the working tree's targets.
Active == (receivers \cup {target}) \cap Scoped

HandleWakeup ==
  /\ actor = Idle /\ requests = <<>> /\ wakeup
  /\ wakeup' = FALSE
  /\ channels' = [t \in Targets |-> IF t \in receivers THEN channels[t] ELSE NoChannel]
  /\ actor' = [Idle EXCEPT !.kind = "wakeup", !.todo = Active]
  /\ UNCHANGED <<diskVars, eventVars, watchVars, task, batch, target, own, receivers, requestVars>>

LoadNext ==
  /\ actor.kind = "wakeup" /\ actor.loading = NoTarget
  /\ \/ \E t \in actor.todo : actor' = Loading(actor, t)
     \/ actor.todo = {} /\ actor' = Idle
  /\ UNCHANGED <<diskVars, eventVars, watchVars, task, batch, wakeup, stateVars, requestVars>>

\* RepositoryState::apply: a failed load keeps the snapshot.
Loaded(t, version) == [shows |-> t, loaded |-> version, error |-> FALSE]
\* Mutant: a failed load is forgotten.
Silent(state) == state
Failed(state) == [state EXCEPT !.error = TRUE]

\* A load reaches the target's subscription as well as the watcher's own state.
\* Mutant: it is one or the other.
OwnOrElse(t) == Live(t) /\ t # target
Reaches(t) == Live(t)

\* refresh_target, and subscribe for a target that has no channel yet.
LoadEnds ==
  /\ actor.loading # NoTarget
  /\ LET t == actor.loading IN
       \/ \E version \in actor.from..repo :
            /\ own' = IF t = target THEN Loaded(t, version) ELSE own
            /\ channels' = IF Reaches(t) \/ actor.kind = "Subscribe"
                           THEN [channels EXCEPT ![t] = Loaded(t, version)] ELSE channels
            /\ receivers' = IF actor.kind = "Subscribe" THEN receivers \cup {t} ELSE receivers
            /\ IF actor.kind = "wakeup" THEN UNCHANGED answer ELSE Answer(actor, TRUE)
       \/ /\ "LoadFails" \in Disturbances
          /\ IF actor.kind = "Subscribe" THEN UNCHANGED <<own, channels>>
             ELSE /\ own' = IF t = target THEN Failed(own) ELSE own
                  /\ channels' = IF Reaches(t) THEN [channels EXCEPT ![t] = Failed(@)] ELSE channels
          /\ IF actor.kind = "wakeup" THEN UNCHANGED answer ELSE Answer(actor, FALSE)
          /\ UNCHANGED receivers
  /\ actor' = IF actor.kind = "wakeup" THEN [actor EXCEPT !.loading = NoTarget] ELSE Idle
  /\ UNCHANGED <<diskVars, eventVars, watchVars, task, batch, wakeup, target, requests, asked>>

\* The actor returns: asked to, or because the file watcher is gone and its last
\* wakeup is handled.  With the actor the file watcher is dropped, and its task ends.
ActorStops ==
  /\ actor = Idle
  /\ \/ "Shutdown" \in Disturbances
     \/ requests = <<>> /\ ~wakeup /\ task = "stopped"
  /\ actor' = Stopped
  /\ requests' = <<>>
  /\ task' = "stopped"
  /\ watched' = {} /\ fresh' = {} /\ walk' = {} /\ listing' = NoDirectory
  /\ UNCHANGED <<diskVars, eventVars, batch, wakeup, stateVars, asked, answer>>

Disk == (\E d \in Directories : Edit(d) \/ Overflow(d) \/ Appear(d) \/ Vanish(d)) \/ ScratchEvent
ProcessEvents ==
  \/ ReceiveEvent \/ Deadline
  \/ WatchDirectory \/ ReadDirectory \/ Rewatched \/ RewatchFails
  \/ Filter
Caller == Ask \/ \E t \in Targets : Leave(t)
Actor == HandleRequest \/ HandleWakeup \/ LoadNext \/ LoadEnds
Next == Disk \/ ProcessEvents \/ Caller \/ Actor \/ ActorStops

Spec == Init /\ [][Next]_vars

(***************************************************************************)
(* Fairness.  The task and the actor are polled when they have something to *)
(* do, and a load ends.  A request comes before a wakeup, so the wakeup is  *)
(* served only because requests are finitely many.  Nothing is assumed of   *)
(* the disk or of the callers.                                              *)
(***************************************************************************)
FairSpec == Spec /\ WF_vars(ProcessEvents) /\ WF_vars(Actor) /\ WF_vars(task = "stopped" /\ ActorStops)

-----------------------------------------------------------------------------
(* Properties.                                                              *)

TypeOK ==
  /\ repo \in Nat /\ directories \subseteq Directories /\ emitted \in Nat
  /\ watched \subseteq Directories /\ fresh \subseteq Directories /\ walk \subseteq Directories
  /\ listing \in Directories \cup {NoDirectory}
  /\ events \in Seq(Event) /\ lagged \in BOOLEAN
  /\ task \in {"waiting", "gathering", "watching", "filtering", "stopped"}
  /\ batch \in Event
  /\ wakeup \in BOOLEAN
  /\ actor \in Job
  /\ requests \in Seq(Request) /\ asked \in Nat
  /\ answer \in [target: Targets, since: Nat, ok: BOOLEAN, source: Sources]
  /\ target \in Targets /\ own \in State
  /\ channels \in [Targets -> Channel] /\ receivers \subseteq Targets

Running == task # "stopped"

\* The states that somebody receives for a target.
Kept(t) ==
  (IF t = target THEN {own} ELSE {}) \cup (IF t \in receivers THEN {channels[t]} ELSE {})
Behind(state) == ~state.error /\ state.loaded < repo

\* Something on its way will load target t at the version the repository has now.
OnItsWay(t) ==
  \/ lagged \/ \E i \in 1..Len(events) : events[i].rescan \/ events[i].relevant
  \/ batch.rescan \/ batch.relevant
  \/ wakeup
  \/ t \in actor.todo \/ (actor.loading = t /\ actor.from = repo)

\* While the watcher runs no change is forgotten: a state somebody receives that is
\* older than the repository and does not say so by an error has a load coming,
\* whatever was lost, coalesced, ignored or still unwatched on the way.
NoChangeIsForgotten ==
  Running => \A t \in Scoped : (\E state \in Kept(t) : Behind(state)) => OnItsWay(t)

\* A request that loads its target and is answered with success has left its state at least as
\* new as the repository was when it was asked, for everyone who receives it.  A Subscribe that
\* joins is promised less, the state that is there, which may be older than that and, if it is
\* the watcher's own and its error says so, of another target; but it is never taken back behind
\* that state.  (The watcher's own state promises nothing while its target is being changed.)
RequestIsRetained ==
  answer.ok =>
    /\ answer.target = target /\ actor.kind # "SetTarget" =>
         /\ own.loaded >= answer.since
         /\ own.shows = answer.target \/ (answer.source = "own" /\ own.error)
    /\ Live(answer.target) /\ answer.source # "own" => channels[answer.target].loaded >= answer.since

\* A state is of the target it is kept for, or its error tells that it could not be
\* loaded, whatever was loaded since the watcher's own target changed.
StateIsOfItsTarget ==
  /\ own.shows = target \/ own.error \/ actor.kind = "SetTarget"
  /\ \A t \in receivers : channels[t].shows = t

\* A change reaches everyone who stays subscribed, or an error does, or the watcher
\* stops.
ChangesAreShown ==
  \A t \in Scoped : <>[](Running => \A state \in Kept(t) : ~Behind(state))
=============================================================================
