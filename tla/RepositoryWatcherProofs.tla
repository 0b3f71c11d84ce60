----------------------- MODULE RepositoryWatcherProofs -----------------------
(***************************************************************************)
(* Proofs about RepositoryWatcher, for any tree of directories, any targets *)
(* and any capacity of the broadcast channel.                              *)
(***************************************************************************)
EXTENDS RepositoryWatcher, SequenceTheorems, TLAPS

-----------------------------------------------------------------------------
(* Types.                                                                   *)

\* The constants' assumptions, the parts the steps below need.
LEMMA Constants ==
  /\ Root \in Directories /\ Parent \in [Directories \ {Root} -> Directories]
  /\ Scoped \subseteq Targets /\ FirstTarget \in Targets
  /\ NoDirectory \notin Directories /\ NoTarget \notin Targets
  /\ MaxEvents \in Nat \ {0}
  /\ RequestKinds \subseteq Kinds
BY ConstantsAssumption

LEMMA EventTypes ==
  /\ Edited \in Event /\ Rescan \in Event /\ NoBatch \in Event
  /\ \A rewatch \in BOOLEAN : Moved(rewatch) \in Event /\ Scratch(rewatch) \in Event
BY DEF Edited, Rescan, NoBatch, Moved, Scratch, Event

LEMMA JobTypes ==
  /\ Idle \in Job /\ Stopped \in Job
  /\ Idle.kind = "idle" /\ Idle.todo = {} /\ Idle.loading = NoTarget
  /\ Stopped.kind = "stopped" /\ Stopped.todo = {} /\ Stopped.loading = NoTarget
BY Constants DEF Idle, Stopped, Job

LEMMA BroadcastType ==
  ASSUME TypeOK, NEW event \in Event, Broadcast(event)
  PROVE  events' \in Seq(Event) /\ lagged' \in BOOLEAN
<1>1. CASE Len(events) < MaxEvents
  BY <1>1, AppendProperties, SMTT(30) DEF TypeOK, Broadcast
<1>2. CASE ~(Len(events) < MaxEvents)
  <2>1. events \in Seq(Event) /\ events # <<>>
    BY <1>2, Constants, EmptySeq DEF TypeOK
  <2>2. Tail(events) \in Seq(Event)
    BY <2>1, HeadTailProperties
  <2> QED BY <1>2, <2>2, AppendProperties DEF Broadcast
<1> QED BY <1>1, <1>2

LEMMA ReportType ==
  ASSUME TypeOK, NEW d, NEW event \in Event, Report(d, event)
  PROVE  events' \in Seq(Event) /\ lagged' \in BOOLEAN
BY BroadcastType DEF Report, eventVars, TypeOK

LEMMA PushType ==
  ASSUME NEW b \in Event, NEW event \in Event, NEW c \in Push(b, event)
  PROVE  c \in Event
BY DEF Push, AllPaths, Event

LEMMA InitType == Init => TypeOK
<1> SUFFICES ASSUME Init PROVE TypeOK
  OBVIOUS
<1>1. events \in Seq(Event) /\ requests \in Seq(Request)
  BY DEF Init
<1>2. own \in State /\ channels \in [Targets -> Channel]
  BY Constants DEF Init, State, Channel
<1>3. answer \in [target: Targets, since: Nat, ok: BOOLEAN, source: Sources]
  BY Constants DEF Init, NoAnswer, Sources
<1>4. watched \subseteq Directories /\ directories \subseteq Directories
  BY Constants DEF Init
<1> QED BY <1>1, <1>2, <1>3, <1>4, Constants, EventTypes, JobTypes DEF Init, TypeOK

LEMMA DiskType ==
  ASSUME TypeOK, Disk
  PROVE  TypeOK'
<1> USE DEF watchVars, stateVars, requestVars, Disk
<1>1. ASSUME NEW d \in Directories, Edit(d) PROVE TypeOK'
  BY <1>1, ReportType, EventTypes DEF TypeOK, Edit
<1>2. ASSUME NEW d \in Directories, Overflow(d) PROVE TypeOK'
  BY <1>2, ReportType, EventTypes DEF TypeOK, Overflow
<1>3. ASSUME NEW d \in Directories, Appear(d) PROVE TypeOK'
  <2>1. events' \in Seq(Event) /\ lagged' \in BOOLEAN
    BY <1>3, ReportType, EventTypes DEF Appear
  <2>2. directories' \subseteq Directories
    BY <1>3 DEF Appear, TypeOK
  <2> QED BY <1>3, <2>1, <2>2 DEF TypeOK, Appear
<1>4. ASSUME NEW d \in Directories, Vanish(d) PROVE TypeOK'
  <2>1. events' \in Seq(Event) /\ lagged' \in BOOLEAN
    BY <1>4, ReportType, EventTypes DEF Vanish
  <2> QED BY <1>4, <2>1 DEF TypeOK, Vanish
<1>5. CASE ScratchEvent
  BY <1>5, BroadcastType, EventTypes DEF TypeOK, ScratchEvent
<1> QED BY <1>1, <1>2, <1>3, <1>4, <1>5

LEMMA ProcessEventsType ==
  ASSUME TypeOK, ProcessEvents
  PROVE  TypeOK'
<1> USE DEF watchVars, stateVars, requestVars, diskVars, eventVars
<1>1. CASE ReceiveEvent
  <2>1. CASE lagged
    BY <1>1, <2>1 DEF ReceiveEvent, AfterLag, TypeOK, Event
  <2>2. CASE ~lagged
    <3>1. events # <<>> /\ events' = Tail(events) /\ batch' \in Push(batch, Head(events))
      BY <1>1, <2>2 DEF ReceiveEvent
    <3>2. Head(events) \in Event /\ Tail(events) \in Seq(Event)
      BY <3>1, HeadTailProperties DEF TypeOK
    <3>3. batch' \in Event
      BY <3>1, <3>2, PushType DEF TypeOK
    <3> QED BY <1>1, <2>2, <3>1, <3>2, <3>3 DEF ReceiveEvent, TypeOK
  <2> QED BY <2>1, <2>2
<1>2. CASE Deadline
  BY <1>2, Constants DEF Deadline, TypeOK
<1>3. CASE WatchDirectory
  BY <1>3 DEF WatchDirectory, TypeOK
<1>4. CASE ReadDirectory
  BY <1>4 DEF ReadDirectory, Children, TypeOK
<1>5. CASE Rewatched
  BY <1>5 DEF Rewatched, TypeOK
<1>6. CASE RewatchFails
  BY <1>6 DEF RewatchFails, TypeOK
<1>7. CASE Filter
  BY <1>7, EventTypes DEF Filter, TypeOK, Event
<1> QED BY <1>1, <1>2, <1>3, <1>4, <1>5, <1>6, <1>7 DEF ProcessEvents

LEMMA RequestTypes ==
  ASSUME TypeOK, requests # <<>>
  PROVE  Head(requests) \in Request /\ Tail(requests) \in Seq(Request)
BY HeadTailProperties DEF TypeOK

LEMMA CallerType ==
  ASSUME TypeOK, Caller
  PROVE  TypeOK'
<1> USE DEF watchVars, stateVars, requestVars, diskVars, eventVars
<1>1. CASE Ask
  <2>1. PICK kind \in RequestKinds, t \in Targets :
          requests' = Append(requests, [kind |-> kind, target |-> t, since |-> repo])
    BY <1>1 DEF Ask
  <2>2. requests' \in Seq(Request)
    <3>1. [kind |-> kind, target |-> t, since |-> repo] \in Request
      BY Constants DEF Request, TypeOK
    <3> QED BY <2>1, <3>1, AppendProperties DEF TypeOK
  <2> QED BY <1>1, <2>2 DEF Ask, TypeOK
<1>2. ASSUME NEW t \in Targets, Leave(t) PROVE TypeOK'
  BY <1>2 DEF Leave, TypeOK
<1> QED BY <1>1, <1>2 DEF Caller

LEMMA LoadingType ==
  ASSUME TypeOK, NEW job \in Job, NEW t \in Targets
  PROVE  /\ Loading(job, t) \in Job
         /\ Loading(job, t).kind = job.kind /\ Loading(job, t).target = job.target
         /\ Loading(job, t).since = job.since
         /\ Loading(job, t).todo = job.todo \ {t}
         /\ Loading(job, t).loading = t /\ Loading(job, t).from = repo
BY DEF Loading, Job, TypeOK

LEMMA LoadEndsType ==
  ASSUME TypeOK, LoadEnds
  PROVE  TypeOK'
<1> DEFINE t == actor.loading
<1>1. t \in Targets /\ actor \in Job
  BY DEF LoadEnds, TypeOK, Job
<1>2. own \in State /\ channels \in [Targets -> Channel] /\ repo \in Nat
  BY DEF TypeOK
<1>3. /\ actor.kind \in Kinds \cup {"wakeup", "idle", "stopped"} /\ actor.from \in Nat
      /\ actor.since \in Nat /\ actor.target \in Targets
  BY <1>1 DEF Job
<1>4. \A version \in actor.from .. repo : Loaded(t, version) \in State
  BY <1>1, <1>2, <1>3 DEF Loaded, State
<1>5. Failed(own) \in State /\ (Live(t) => Failed(channels[t]) \in State)
  BY <1>1, <1>2 DEF Failed, State, Live, Channel
<1>6. State \subseteq Channel
  BY DEF Channel
<1>7. own' \in State /\ channels' \in [Targets -> Channel] /\ receivers' \subseteq Targets
  <2>1. CASE \E version \in actor.from..repo :
               /\ own' = IF t = target THEN Loaded(t, version) ELSE own
               /\ channels' = IF Live(t) \/ actor.kind = "Subscribe"
                              THEN [channels EXCEPT ![t] = Loaded(t, version)] ELSE channels
               /\ receivers' = IF actor.kind = "Subscribe" THEN receivers \cup {t} ELSE receivers
    BY <2>1, <1>1, <1>2, <1>4, <1>6 DEF TypeOK
  <2>2. CASE /\ IF actor.kind = "Subscribe" THEN UNCHANGED <<own, channels>>
                ELSE /\ own' = IF t = target THEN Failed(own) ELSE own
                     /\ channels' = IF Live(t) THEN [channels EXCEPT ![t] = Failed(@)] ELSE channels
             /\ UNCHANGED receivers
    BY <2>2, <1>1, <1>2, <1>5, <1>6 DEF TypeOK
  <2> QED BY <2>1, <2>2 DEF LoadEnds, Reaches
<1>8. answer' \in [target: Targets, since: Nat, ok: BOOLEAN, source: Sources]
  <2>1. UNCHANGED answer \/ Answer(actor, TRUE) \/ Answer(actor, FALSE)
    BY DEF LoadEnds
  <2>2. \A ok \in BOOLEAN : [target |-> actor.target, since |-> actor.since, ok |-> ok, source |-> "loaded"]
                              \in [target: Targets, since: Nat, ok: BOOLEAN, source: Sources]
    BY <1>3 DEF Sources
  <2>3. answer \in [target: Targets, since: Nat, ok: BOOLEAN, source: Sources]
    BY DEF TypeOK
  <2> QED BY <2>1, <2>2, <2>3 DEF Answer, Sources
<1>9. actor' \in Job
  <2>1. [actor EXCEPT !.loading = NoTarget] \in Job
    BY <1>1 DEF Job
  <2> QED BY <2>1, JobTypes DEF LoadEnds
<1> QED BY <1>7, <1>8, <1>9 DEF LoadEnds, TypeOK, diskVars, eventVars, watchVars

LEMMA ActorType ==
  ASSUME TypeOK, Actor \/ ActorStops
  PROVE  TypeOK'
<1> USE DEF watchVars, stateVars, requestVars, diskVars, eventVars
<1>1. CASE HandleRequest
  <2> DEFINE request == Head(requests)
             job == [Idle EXCEPT !.kind = request.kind, !.target = request.target, !.since = request.since]
  <2>1. request \in Request /\ Tail(requests) \in Seq(Request)
    BY <1>1, RequestTypes DEF HandleRequest
  <2>2. job \in Job /\ request.target \in Targets
    BY <2>1, JobTypes DEF Request, Job, Idle
  <2>3. Loading(job, request.target) \in Job
    BY <2>2, LoadingType
  <2>4. actor' \in Job /\ target' \in Targets /\ receivers' \subseteq Targets
    BY <1>1, <2>2, <2>3 DEF HandleRequest, TypeOK
  <2>5. requests' \in Seq(Request)
    BY <1>1, <2>1 DEF HandleRequest
  <2>6. answer' \in [target: Targets, since: Nat, ok: BOOLEAN, source: Sources]
    <3>1. CASE UNCHANGED answer
      BY <3>1 DEF TypeOK
    <3>2. CASE Joins(request) /\ AnswerJoined(request.target)
      <4>1. Joined(request.target) \in State
        BY <3>2, <2>2 DEF Joins, Joined, Live, Channel, TypeOK
      <4>2. Joined(request.target).loaded \in Nat
        BY <4>1 DEF State
      <4> QED BY <3>2, <4>2, <2>2 DEF AnswerJoined, Sources
    <3> QED BY <1>1, <3>1, <3>2 DEF HandleRequest
  <2> QED BY <1>1, <2>4, <2>5, <2>6 DEF HandleRequest, TypeOK
<1>2. CASE HandleWakeup
  <2>1. channels' \in [Targets -> Channel]
    BY <1>2 DEF HandleWakeup, Channel, TypeOK
  <2>2. Active \in SUBSET Targets
    BY Constants DEF Active
  <2>3. actor' \in Job
    BY <1>2, <2>2, JobTypes DEF HandleWakeup, Job, Idle
  <2> QED BY <1>2, <2>1, <2>3 DEF HandleWakeup, TypeOK
<1>3. CASE LoadNext
  <2>1. actor' \in Job
    <3>1. actor \in Job /\ actor.todo \subseteq Targets
      BY DEF TypeOK, Job
    <3> QED BY <1>3, <3>1, LoadingType, JobTypes DEF LoadNext
  <2> QED BY <1>3, <2>1 DEF LoadNext, TypeOK
<1>4. CASE LoadEnds
  BY <1>4, LoadEndsType
<1>5. CASE ActorStops
  BY <1>5, JobTypes DEF ActorStops, TypeOK
<1> QED BY <1>1, <1>2, <1>3, <1>4, <1>5 DEF Actor

LEMMA TypeStep ==
  ASSUME TypeOK, [Next]_vars
  PROVE  TypeOK'
<1>1. CASE UNCHANGED vars
  BY <1>1 DEF vars, watchVars, stateVars, requestVars, diskVars, eventVars, TypeOK
<1> QED BY <1>1, DiskType, ProcessEventsType, CallerType, ActorType DEF Next

\* Every variable of the watcher stays in its type.
THEOREM TypeCorrectness == Spec => []TypeOK
BY InitType, TypeStep, PTL DEF Spec

-----------------------------------------------------------------------------
(* Why no change is forgotten, first half: directories.  One that is not     *)
(* watched has been announced, by an event that is still to come or by the   *)
(* batch that is having the tree watched anew.                              *)

Announces(event) == event.rescan \/ (event.rewatch /\ event.relevant)
Notices(event) == event.rescan \/ event.relevant

Announced == lagged \/ \E i \in 1..Len(events) : Announces(events[i])
Noticed == lagged \/ \E i \in 1..Len(events) : Notices(events[i])

\* Something on its way will wake the actor.
Pending == Noticed \/ Notices(batch) \/ wakeup

Tree == Root \in directories /\ \A d \in directories \ {Root} : Parent[d] \in directories

TaskShape ==
  /\ task = "waiting" => batch = NoBatch
  /\ task # "watching" => fresh = {} /\ walk = {} /\ listing = NoDirectory
  /\ fresh \subseteq directories

Covered ==
  task # "stopped" =>
    \A d \in directories \ (watched \cup fresh) :
      \/ Announced
      \/ task = "gathering" /\ Announces(batch)
      \/ task = "watching" /\ Notices(batch)

\* The walk has not passed by a directory unless that one was announced.
Walked ==
  task = "watching" =>
    /\ Root \in walk \cup fresh
    /\ \A d \in directories \ (fresh \cup walk \cup {Root}) :
         Parent[d] \notin fresh \/ Parent[d] = listing \/ Announced

WatchInv == Tree /\ TaskShape /\ Covered /\ Walked

\* What is in the broadcast channel stays there, or the receiver is told of the loss;
\* what is sent gets there.
LEMMA BroadcastKeeps ==
  ASSUME TypeOK, NEW event \in Event, Broadcast(event)
  PROVE  /\ Announced => Announced'
         /\ Noticed => Noticed'
         /\ Announces(event) => Announced'
         /\ Notices(event) => Noticed'
<1>1. CASE Len(events) < MaxEvents
  <2>1. /\ events' = Append(events, event) /\ lagged' = lagged
        /\ Len(events') = Len(events) + 1 /\ Len(events) \in Nat
        /\ \A i \in 1..Len(events) : events'[i] = events[i]
        /\ events'[Len(events) + 1] = event
    <3>1. events \in Seq(Event) /\ events' = Append(events, event) /\ lagged' = lagged
      BY <1>1 DEF Broadcast, TypeOK
    <3>2. Len(events) \in Nat
      BY <3>1, LenProperties
    <3> QED BY <3>1, <3>2, AppendProperties
  <2>2. \A i \in 1..Len(events) : i \in 1..Len(events')
    BY <2>1
  <2>3. Len(events) + 1 \in 1..Len(events')
    BY <2>1
  <2> QED BY <2>1, <2>2, <2>3 DEF Announced, Noticed
<1>2. CASE ~(Len(events) < MaxEvents)
  BY <1>2 DEF Broadcast, Announced, Noticed
<1> QED BY <1>1, <1>2

LEMMA ReportKeeps ==
  ASSUME TypeOK, NEW d, NEW event \in Event, Report(d, event)
  PROVE  /\ Announced => Announced'
         /\ Noticed => Noticed'
         /\ d \in watched \cup fresh => (Announces(event) => Announced') /\ (Notices(event) => Noticed')
<1>1. CASE d \in watched \cup fresh
  BY <1>1, BroadcastKeeps DEF Report
<1>2. CASE d \notin watched \cup fresh
  BY <1>2 DEF Report, eventVars, Announced, Noticed
<1> QED BY <1>1, <1>2

LEMMA AnnouncedIsNoticed == Announced => Noticed
BY DEF Announced, Noticed, Announces, Notices

\* A change is noticed: by its event, or because its directory was announced.
LEMMA ChangeIsNoticed ==
  ASSUME TypeOK, Covered, task # "stopped", UNCHANGED <<batch, wakeup>>,
         NEW d \in directories, NEW event \in Event, Notices(event), Report(d, event)
  PROVE  Pending'
<1>1. CASE d \in watched \cup fresh
  BY <1>1, ReportKeeps DEF Pending
<1>2. CASE d \notin watched \cup fresh
  <2>1. Noticed \/ Notices(batch)
    BY <1>2, AnnouncedIsNoticed DEF Covered, Announces, Notices
  <2> QED BY <2>1, ReportKeeps DEF Pending, Notices
<1> QED BY <1>1, <1>2

LEMMA EventKinds ==
  /\ Notices(Edited) /\ Notices(Rescan)
  /\ Announces(Rescan) /\ Announces(Moved(TRUE))
  /\ \A rewatch \in BOOLEAN : Notices(Moved(rewatch))
BY DEF Notices, Announces, Edited, Rescan, Moved

LEMMA PushKeeps ==
  ASSUME NEW b \in Event, NEW event \in Event, NEW c \in Push(b, event)
  PROVE  /\ Announces(b) \/ Announces(event) => Announces(c)
         /\ Notices(b) \/ Notices(event) => Notices(c)
BY DEF Push, AllPaths, Event, Announces, Notices

\* Steps that leave the directories, the watching and the task alone.
LEMMA WatchFrame ==
  ASSUME WatchInv, UNCHANGED <<directories, watchVars, task, batch>>, Announced => Announced'
  PROVE  WatchInv'
<1> USE DEF watchVars
<1>1. Tree' /\ TaskShape'
  BY DEF WatchInv, Tree, TaskShape
<1>2. Covered'
  BY DEF WatchInv, Covered
<1>3. Walked'
  BY DEF WatchInv, Walked
<1> QED BY <1>1, <1>2, <1>3 DEF WatchInv

LEMMA WatchDisk ==
  ASSUME TypeOK, WatchInv, Disk
  PROVE  WatchInv'
<1>1. ASSUME NEW d \in Directories, Edit(d) \/ Overflow(d) PROVE WatchInv'
  BY <1>1, ReportKeeps, EventTypes, WatchFrame DEF Edit, Overflow
<1>2. ASSUME NEW d \in Directories, Appear(d) PROVE WatchInv'
  <2> USE DEF watchVars
  <2>1. PICK below \in SUBSET {e \in Directories \ directories : e # d /\ Parent[e] = d} :
          directories' = directories \cup {d} \cup below
    BY <1>2 DEF Appear
  <2>2. /\ d \notin directories /\ Parent[d] \in directories
        /\ \A e \in below : e \notin directories /\ Parent[e] = d
        /\ UNCHANGED <<watchVars, task, batch>>
    BY <1>2, <2>1 DEF Appear
  <2>3. Announced => Announced'
    BY <1>2, ReportKeeps, EventTypes DEF Appear
  <2>4. Parent[d] \in watched \cup fresh => Announced'
    BY <1>2, ReportKeeps, EventTypes, EventKinds DEF Appear
  <2>5. Root \in directories
    BY DEF WatchInv, Tree
  <2>6. Tree'
    BY <2>1, <2>2 DEF WatchInv, Tree
  <2>7. TaskShape'
    BY <2>1, <2>2 DEF WatchInv, TaskShape
  <2>8. Covered'
    <3>1. CASE Parent[d] \in watched \cup fresh
      BY <3>1, <2>4 DEF Covered
    <3>2. CASE Parent[d] \notin watched \cup fresh
      <4> SUFFICES ASSUME task # "stopped"
                   PROVE  \/ Announced'
                          \/ task' = "gathering" /\ Announces(batch)'
                          \/ task' = "watching" /\ Notices(batch)'
        BY <2>2 DEF Covered
      <4> QED BY <3>2, <2>2, <2>3 DEF WatchInv, Covered
    <3> QED BY <3>1, <3>2
  <2>9. Walked'
    <3>1. CASE Announced'
      BY <3>1, <2>2 DEF WatchInv, Walked
    <3>2. CASE ~Announced'
      <4>1. Parent[d] \notin fresh /\ d \notin fresh
        BY <3>2, <2>2, <2>4 DEF WatchInv, TaskShape
      <4>2. ASSUME task' = "watching", NEW e \in directories' \ (fresh \cup walk \cup {Root})'
            PROVE  (Parent[e] \notin fresh \/ Parent[e] = listing)'
        <5>1. CASE e = d
          BY <5>1, <4>1, <2>2
        <5>2. CASE e \in below
          BY <5>2, <4>1, <2>2
        <5>3. CASE e \in directories
          BY <5>3, <4>2, <3>2, <2>2, <2>3 DEF WatchInv, Walked
        <5> QED BY <5>1, <5>2, <5>3, <4>2, <2>1
      <4> QED BY <4>2, <2>2 DEF WatchInv, Walked
    <3> QED BY <3>1, <3>2
  <2> QED BY <2>6, <2>7, <2>8, <2>9 DEF WatchInv
<1>3. ASSUME NEW d \in Directories, Vanish(d) PROVE WatchInv'
  <2>1. /\ d \in directories \ {Root} /\ directories' = directories \ {d}
        /\ watched' = watched \ {d} /\ fresh' = fresh \ {d}
        /\ \A e \in directories \ {Root} : Parent[e] # d
        /\ UNCHANGED <<walk, listing, task, batch>>
    BY <1>3 DEF Vanish, Children
  <2>2. Announced => Announced'
    BY <1>3, ReportKeeps, EventTypes DEF Vanish
  <2>3. Tree' /\ TaskShape'
    BY <2>1 DEF WatchInv, Tree, TaskShape
  <2>4. Covered'
    BY <2>1, <2>2 DEF WatchInv, Covered
  <2>5. Walked'
    BY <2>1, <2>2 DEF WatchInv, Walked
  <2> QED BY <2>3, <2>4, <2>5 DEF WatchInv
<1>4. CASE ScratchEvent
  BY <1>4, BroadcastKeeps, EventTypes, WatchFrame DEF ScratchEvent
<1> QED BY <1>1, <1>2, <1>3, <1>4 DEF Disk

\* What ReceiveEvent takes from the channel is in the batch afterwards.
LEMMA ReceiveKeeps ==
  ASSUME TypeOK, ReceiveEvent
  PROVE  /\ Announced => Announced' \/ Announces(batch')
         /\ Noticed => Noticed' \/ Notices(batch')
         /\ Announces(batch) => Announces(batch')
         /\ Notices(batch) => Notices(batch')
<1>1. CASE lagged
  <2>1. batch' = AfterLag(batch) /\ batch \in Event
    BY <1>1 DEF ReceiveEvent, TypeOK
  <2> QED BY <2>1 DEF AfterLag, Event, Announces, Notices
<1>2. CASE ~lagged
  <2>1. events # <<>> /\ events' = Tail(events) /\ batch' \in Push(batch, Head(events))
    BY <1>2 DEF ReceiveEvent
  <2>2. /\ Head(events) \in Event /\ Head(events) = events[1]
        /\ Len(events') = Len(events) - 1 /\ Len(events) \in Nat
        /\ \A i \in 1..Len(events') : events'[i] = events[i + 1]
    BY <2>1, HeadTailProperties, LenProperties DEF TypeOK
  <2>3. batch \in Event
    BY DEF TypeOK
  <2>4. ASSUME NEW i \in 1..Len(events), i # 1
        PROVE  i - 1 \in 1..Len(events') /\ events'[i - 1] = events[i]
    BY <2>2, <2>4
  <2>5. /\ Announces(batch) \/ Announces(events[1]) => Announces(batch')
        /\ Notices(batch) \/ Notices(events[1]) => Notices(batch')
    BY <2>1, <2>2, <2>3, PushKeeps
  <2>6. Announced => Announced' \/ Announces(batch')
    BY <1>2, <2>4, <2>5 DEF Announced
  <2>7. Noticed => Noticed' \/ Notices(batch')
    BY <1>2, <2>4, <2>5 DEF Noticed
  <2> QED BY <2>5, <2>6, <2>7
<1> QED BY <1>1, <1>2

\* Once the walk is over every directory is watched, or one was announced meanwhile.
LEMMA WalkIsComplete ==
  ASSUME TypeOK, WatchInv, task = "watching", walk = {}, listing = NoDirectory, ~Announced
  PROVE  directories \subseteq fresh
<1> DEFINE missed == directories \ fresh
<1> SUFFICES ASSUME missed # {} PROVE FALSE
  OBVIOUS
<1>1. missed \in SUBSET (Directories \ {Root})
  BY DEF WatchInv, Walked, TypeOK
<1>2. PICK d \in missed : Parent[d] \notin missed
  BY <1>1, ConstantsAssumption
<1>3. d \in directories \ {Root} /\ Parent[d] \in directories
  BY <1>1 DEF WatchInv, Tree
<1>4. Parent[d] \in fresh /\ Parent[d] \in Directories
  BY <1>2, <1>3 DEF TypeOK
<1>5. Parent[d] = listing
  BY <1>3, <1>4 DEF WatchInv, Walked
<1> QED BY <1>4, <1>5, Constants

LEMMA WatchProcessEvents ==
  ASSUME TypeOK, WatchInv, ProcessEvents
  PROVE  WatchInv'
<1> USE DEF diskVars, eventVars, watchVars
<1>1. CASE ReceiveEvent
  <2>1. /\ task \in {"waiting", "gathering"} /\ task' = "gathering"
        /\ UNCHANGED <<directories, watchVars>>
    BY <1>1 DEF ReceiveEvent
  <2>2. Covered'
    BY <1>1, <2>1, ReceiveKeeps DEF WatchInv, Covered
  <2> QED BY <2>1, <2>2 DEF WatchInv, Tree, TaskShape, Walked
<1>2. CASE Deadline
  <2>1. /\ task = "gathering" /\ UNCHANGED <<directories, watched, fresh, listing, batch, events, lagged>>
        /\ fresh = {} /\ listing = NoDirectory
    BY <1>2 DEF Deadline, WatchInv, TaskShape
  <2>2. Announced' = Announced
    BY <2>1 DEF Announced
  <2>3. CASE NeedsRewatch(batch)
    <3>1. task' = "watching" /\ walk' = {Root}
      BY <1>2, <2>3 DEF Deadline
    <3>2. Covered'
      BY <2>1, <2>2, <3>1 DEF WatchInv, Covered, Announces, Notices
    <3> QED BY <2>1, <3>1, <3>2 DEF WatchInv, Tree, TaskShape, Walked
  <2>4. CASE ~NeedsRewatch(batch)
    <3>1. task' = "filtering" /\ walk' = {} /\ ~Announces(batch)
      BY <1>2, <2>1, <2>4 DEF Deadline, NeedsRewatch, Announces, WatchInv, TaskShape
    <3>2. Covered'
      BY <2>1, <2>2, <3>1 DEF WatchInv, Covered
    <3> QED BY <2>1, <3>1, <3>2 DEF WatchInv, Tree, TaskShape, Walked
  <2> QED BY <2>3, <2>4
<1>3. CASE WatchDirectory
  <2>1. PICK d \in walk \cap directories :
          fresh' = fresh \cup {d} /\ walk' = walk \ {d} /\ listing' = d
    BY <1>3 DEF WatchDirectory
  <2>2. /\ task = "watching" /\ listing = NoDirectory
        /\ UNCHANGED <<directories, watched, task, batch, events, lagged>>
    BY <1>3 DEF WatchDirectory
  <2>3. Announced' = Announced
    BY <2>2 DEF Announced
  <2>4. Tree' /\ TaskShape' /\ Covered'
    BY <2>1, <2>2, <2>3 DEF WatchInv, Tree, TaskShape, Covered
  <2>5. Walked'
    <3>1. ASSUME NEW e \in directories \ (fresh' \cup walk' \cup {Root})
          PROVE  Parent[e] \notin fresh' \/ Parent[e] = listing' \/ Announced
      <4>1. e \in directories \ (fresh \cup walk \cup {Root})
        BY <2>1
      <4>2. Parent[e] # listing
        BY <4>1, <2>2, Constants DEF WatchInv, Tree, TypeOK
      <4> QED BY <4>1, <4>2, <2>1, <2>2 DEF WatchInv, Walked
    <3> QED BY <3>1, <2>1, <2>2, <2>3 DEF WatchInv, Walked
  <2> QED BY <2>4, <2>5 DEF WatchInv
<1>4. CASE ReadDirectory
  <2>1. /\ task = "watching"
        /\ walk' = walk \cup Children(listing) /\ listing' = NoDirectory
        /\ UNCHANGED <<directories, watched, fresh, task, batch, events, lagged>>
    BY <1>4 DEF ReadDirectory
  <2>2. Announced' = Announced
    BY <2>1 DEF Announced
  <2>3. Tree' /\ TaskShape' /\ Covered'
    BY <2>1, <2>2 DEF WatchInv, Tree, TaskShape, Covered
  <2>4. Walked'
    BY <2>1, <2>2 DEF WatchInv, Walked, Children
  <2> QED BY <2>3, <2>4 DEF WatchInv
<1>5. CASE Rewatched
  <2>1. /\ task = "watching" /\ listing = NoDirectory /\ walk = {}
        /\ watched' = fresh /\ fresh' = {} /\ task' = "filtering"
        /\ UNCHANGED <<directories, walk, listing, batch, events, lagged>>
    BY <1>5 DEF Rewatched
  <2>2. Announced' = Announced
    BY <2>1 DEF Announced
  <2>3. Covered'
    BY <2>1, <2>2, WalkIsComplete DEF Covered
  <2> QED BY <2>1, <2>3 DEF WatchInv, Tree, TaskShape, Walked
<1>6. CASE RewatchFails
  BY <1>6 DEF RewatchFails, WatchInv, Tree, TaskShape, Covered, Walked
<1>7. CASE Filter
  <2>1. /\ task = "filtering" /\ task' = "waiting" /\ batch' = NoBatch
        /\ UNCHANGED <<directories, watched, fresh, walk, listing, events, lagged>>
    BY <1>7 DEF Filter
  <2>2. Announced' = Announced
    BY <2>1 DEF Announced
  <2> QED BY <2>1, <2>2 DEF WatchInv, Tree, TaskShape, Covered, Walked
<1> QED BY <1>1, <1>2, <1>3, <1>4, <1>5, <1>6, <1>7 DEF ProcessEvents

-----------------------------------------------------------------------------
(* Second half: the actor.  A state that is behind has a load coming.        *)

\* The states an answered load has to reach, whether or not somebody receives them.
Stale(t) == (t = target /\ Behind(own)) \/ (Live(t) /\ Behind(channels[t]))

ActorShape ==
  /\ \A t \in receivers : Live(t)
  /\ actor.kind # "wakeup" => actor.todo = {}
  /\ actor.kind = "Subscribe" /\ actor.loading # NoTarget =>
       actor.loading # target /\ ~Live(actor.loading)

NothingForgotten ==
  task # "stopped" => \A t \in Scoped : Stale(t) => OnItsWay(t)

\* A change during a load is noticed, so that what the load may have missed is loaded
\* again.
LoadIsWatched ==
  task # "stopped" /\ actor.loading # NoTarget /\ actor.from # repo => Pending

Inv == TypeOK /\ WatchInv /\ ActorShape /\ NothingForgotten /\ LoadIsWatched

LEMMA OnItsWayParts ==
  ASSUME NEW t
  PROVE  OnItsWay(t) <=> Pending \/ t \in actor.todo \/ (actor.loading = t /\ actor.from = repo)
BY DEF OnItsWay, Pending, Noticed, Notices

\* Steps of the disk and of the watching: nothing that is pending is lost, and a change
\* is pending.
LEMMA ActorFrame ==
  ASSUME Inv, UNCHANGED <<actor, stateVars>>,
         task' # "stopped" => task # "stopped",
         task' # "stopped" /\ Pending => Pending',
         task' # "stopped" => UNCHANGED repo \/ Pending'
  PROVE  ActorShape' /\ NothingForgotten' /\ LoadIsWatched'
<1> USE DEF stateVars
<1>1. ActorShape'
  BY DEF Inv, ActorShape, Live
<1>2. ASSUME task' # "stopped", NEW t \in Scoped, Stale(t)'
      PROVE  OnItsWay(t)'
  <2>1. CASE Pending'
    BY <2>1 DEF OnItsWay, Pending, Noticed, Notices
  <2>2. CASE ~Pending'
    <3>1. UNCHANGED repo /\ ~Pending /\ task # "stopped"
      BY <1>2, <2>2
    <3>2. Stale(t)
      BY <1>2, <3>1 DEF Stale, Behind, Live
    <3>3. t \in actor.todo \/ (actor.loading = t /\ actor.from = repo)
      BY <3>1, <3>2, OnItsWayParts DEF Inv, NothingForgotten
    <3> QED BY <3>1, <3>3 DEF OnItsWay
  <2> QED BY <2>1, <2>2
<1>3. NothingForgotten'
  BY <1>2 DEF NothingForgotten
<1>4. LoadIsWatched'
  BY DEF Inv, LoadIsWatched
<1> QED BY <1>1, <1>3, <1>4

LEMMA ForgetDisk ==
  ASSUME Inv, Disk
  PROVE  ActorShape' /\ NothingForgotten' /\ LoadIsWatched'
<1>1. TypeOK /\ WatchInv /\ Covered /\ Tree
  BY DEF Inv, WatchInv
<1>2. UNCHANGED <<actor, stateVars, task, batch, wakeup>>
  BY DEF Disk, Edit, Overflow, Appear, Vanish, ScratchEvent
<1>3. ASSUME task # "stopped" PROVE Pending' \/ (UNCHANGED repo /\ (Pending => Pending'))
  <2>1. ASSUME NEW d \in Directories, Edit(d) \/ Overflow(d) PROVE Pending'
    BY <1>1, <1>2, <1>3, <2>1, ChangeIsNoticed, EventTypes, EventKinds DEF Edit, Overflow
  <2>2. ASSUME NEW d \in Directories, Appear(d) PROVE Pending'
    <3>1. Parent[d] \in directories /\ Report(Parent[d], Moved(TRUE))
      BY <2>2 DEF Appear
    <3>2. Moved(TRUE) \in Event /\ Notices(Moved(TRUE))
      BY EventTypes, EventKinds
    <3> QED BY <1>1, <1>2, <1>3, <3>1, <3>2, ChangeIsNoticed
  <2>3. ASSUME NEW d \in Directories, Vanish(d) PROVE Pending'
    <3>1. PICK rewatch \in BOOLEAN : Report(Parent[d], Moved(rewatch))
      BY <2>3 DEF Vanish
    <3>2. Parent[d] \in directories
      BY <1>1, <2>3 DEF Vanish, Tree
    <3>3. Moved(rewatch) \in Event /\ Notices(Moved(rewatch))
      BY EventTypes, EventKinds
    <3> QED BY <1>1, <1>2, <1>3, <3>1, <3>2, <3>3, ChangeIsNoticed
  <2>4. CASE ScratchEvent
    <3>1. UNCHANGED repo /\ (Noticed => Noticed')
      BY <1>1, <2>4, BroadcastKeeps, EventTypes DEF ScratchEvent
    <3> QED BY <1>2, <3>1 DEF Pending, Notices
  <2> QED BY <2>1, <2>2, <2>3, <2>4 DEF Disk
<1> QED BY <1>2, <1>3, ActorFrame

LEMMA ForgetProcessEvents ==
  ASSUME Inv, ProcessEvents
  PROVE  ActorShape' /\ NothingForgotten' /\ LoadIsWatched'
<1>1. UNCHANGED <<actor, stateVars, repo>>
  BY DEF ProcessEvents, ReceiveEvent, Deadline, WatchDirectory, ReadDirectory, Rewatched,
         RewatchFails, Filter, diskVars
<1>2. task # "stopped"
  BY DEF ProcessEvents, ReceiveEvent, Deadline, WatchDirectory, ReadDirectory, Rewatched,
         RewatchFails, Filter
<1>3. Pending => Pending'
  <2>1. CASE ReceiveEvent
    <3>1. UNCHANGED wakeup
      BY <2>1 DEF ReceiveEvent
    <3>2. /\ Noticed => Noticed' \/ Notices(batch')
          /\ Notices(batch) => Notices(batch')
      BY <2>1, ReceiveKeeps DEF Inv
    <3> QED BY <3>1, <3>2 DEF Pending
  <2>2. CASE Filter
    BY <2>2 DEF Filter, Pending, Noticed, Notices, eventVars
  <2>3. CASE Deadline \/ WatchDirectory \/ ReadDirectory \/ Rewatched \/ RewatchFails
    BY <2>3 DEF Deadline, WatchDirectory, ReadDirectory, Rewatched, RewatchFails, Pending, Noticed,
                eventVars
  <2> QED BY <2>1, <2>2, <2>3 DEF ProcessEvents
<1> QED BY <1>1, <1>2, <1>3, ActorFrame

LEMMA ForgetCaller ==
  ASSUME Inv, Caller
  PROVE  ActorShape' /\ NothingForgotten' /\ LoadIsWatched'
<1> USE DEF eventVars, diskVars, stateVars
<1>1. UNCHANGED <<actor, target, own, channels, task, repo, events, lagged, batch, wakeup>>
  BY DEF Caller, Ask, Leave
<1>2. receivers' \subseteq receivers
  BY DEF Caller, Ask, Leave
<1>3. Pending' = Pending /\ \A t : OnItsWay(t)' = OnItsWay(t) /\ Stale(t)' = Stale(t)
  BY <1>1 DEF Pending, Noticed, OnItsWay, Stale, Behind, Live
<1>4. ActorShape'
  BY <1>1, <1>2 DEF Inv, ActorShape, Live
<1> QED BY <1>1, <1>3, <1>4 DEF Inv, NothingForgotten, LoadIsWatched

LEMMA ForgetRequest ==
  ASSUME Inv, HandleRequest
  PROVE  ActorShape' /\ NothingForgotten' /\ LoadIsWatched'
<1> DEFINE request == Head(requests)
           job == [Idle EXCEPT !.kind = request.kind, !.target = request.target, !.since = request.since]
<1>1. /\ UNCHANGED <<task, repo, batch, wakeup, own, channels, events, lagged>>
      /\ actor = Idle
  BY DEF HandleRequest, eventVars, diskVars
<1>2. Pending' = Pending
  BY <1>1 DEF Pending, Noticed
<1>3. request \in Request
  BY RequestTypes DEF Inv, HandleRequest
<1>4. \A t \in Targets : OnItsWay(t) <=> Pending
  BY <1>1, OnItsWayParts, JobTypes, Constants
<1>5. CASE Joins(request)
  <2>1. /\ UNCHANGED <<actor, target>>
        /\ receivers' = IF request.target = target THEN receivers ELSE receivers \cup {request.target}
    BY <1>5 DEF HandleRequest
  <2>2. ActorShape'
    BY <1>1, <1>5, <2>1 DEF Inv, ActorShape, Joins, Live
  <2>3. \A t : OnItsWay(t)' = OnItsWay(t) /\ Stale(t)' = Stale(t)
    BY <1>1, <2>1 DEF OnItsWay, Stale, Behind, Live
  <2> QED BY <1>1, <1>2, <2>1, <2>2, <2>3 DEF Inv, NothingForgotten, LoadIsWatched
<1>6. CASE ~Joins(request)
  <2>1. /\ actor' = Loading(job, request.target)
        /\ target' = IF request.kind = "SetTarget" THEN request.target ELSE target
        /\ UNCHANGED receivers
    BY <1>6 DEF HandleRequest
  <2>2. job \in Job /\ job.kind = request.kind /\ job.todo = {} /\ request.target \in Targets
    BY <1>3, JobTypes DEF Request, Job, Idle
  <2>3. /\ actor'.kind = request.kind /\ actor'.todo = {}
        /\ actor'.loading = request.target /\ actor'.from = repo
    <3>1. TypeOK
      BY DEF Inv
    <3>2. /\ Loading(job, request.target).kind = job.kind
          /\ Loading(job, request.target).todo = job.todo \ {request.target}
          /\ Loading(job, request.target).loading = request.target
          /\ Loading(job, request.target).from = repo
      BY <2>2, <3>1, LoadingType, ZenonT(60)
    <3> HIDE DEF job
    <3> QED BY <2>1, <2>2, <3>2
  <2>4. ActorShape'
    BY <1>1, <1>6, <2>1, <2>3 DEF Inv, ActorShape, Joins, Live
  <2>5. ASSUME task' # "stopped", NEW t \in Scoped, Stale(t)'
        PROVE  OnItsWay(t)'
    <3>1. CASE t = request.target
      BY <3>1, <1>1, <2>3 DEF OnItsWay
    <3>2. CASE t # request.target
      <4>1. Stale(t) /\ task # "stopped"
        BY <3>2, <1>1, <2>1, <2>5 DEF Stale, Behind, Live
      <4>2. Pending'
        BY <4>1, <1>2, <1>4, Constants DEF Inv, NothingForgotten
      <4> QED BY <4>2 DEF OnItsWay, Pending, Noticed, Notices
    <3> QED BY <3>1, <3>2
  <2> QED BY <1>1, <2>3, <2>4, <2>5 DEF NothingForgotten, LoadIsWatched
<1> QED BY <1>5, <1>6

LEMMA ForgetWakeup ==
  ASSUME Inv, HandleWakeup
  PROVE  ActorShape' /\ NothingForgotten' /\ LoadIsWatched'
<1>1. /\ UNCHANGED <<task, target, own, receivers>>
      /\ channels' = [t \in Targets |-> IF t \in receivers THEN channels[t] ELSE NoChannel]
      /\ actor' = [Idle EXCEPT !.kind = "wakeup", !.todo = Active]
  BY DEF HandleWakeup
<1>2. actor'.kind = "wakeup" /\ actor'.todo = Active /\ actor'.loading = NoTarget
  BY <1>1 DEF Idle
<1>3. receivers \subseteq Targets
  BY DEF Inv, TypeOK
<1>4. ActorShape'
  BY <1>1, <1>2, <1>3 DEF Inv, ActorShape, Live
<1>5. ASSUME NEW t \in Scoped, Stale(t)' PROVE t \in Active
  <2>1. t \in Targets
    BY Constants
  <2>2. t = target \/ t \in receivers
    BY <1>1, <1>5, <2>1 DEF Stale, Live
  <2> QED BY <2>2 DEF Active
<1> QED BY <1>2, <1>4, <1>5 DEF NothingForgotten, LoadIsWatched, OnItsWay

LEMMA ForgetLoadNext ==
  ASSUME Inv, LoadNext
  PROVE  ActorShape' /\ NothingForgotten' /\ LoadIsWatched'
<1> USE DEF eventVars, diskVars, stateVars
<1>1. /\ UNCHANGED <<task, repo, batch, wakeup, target, own, channels, receivers, events, lagged>>
      /\ actor.kind = "wakeup" /\ actor.loading = NoTarget /\ actor \in Job
  BY DEF LoadNext, Inv, TypeOK
<1>2. Pending' = Pending /\ \A t : Stale(t)' = Stale(t)
  BY <1>1 DEF Pending, Noticed, Stale, Behind, Live
<1>3. ASSUME NEW t \in actor.todo, actor' = Loading(actor, t)
      PROVE  ActorShape' /\ NothingForgotten' /\ LoadIsWatched'
  <2>1. t \in Targets
    BY <1>1 DEF Job
  <2>2. /\ actor'.kind = "wakeup" /\ actor'.todo = actor.todo \ {t}
        /\ actor'.loading = t /\ actor'.from = repo
    BY <1>1, <1>3, <2>1, LoadingType DEF Inv
  <2>3. ActorShape'
    BY <1>1, <2>2 DEF Inv, ActorShape, Live
  <2>4. ASSUME NEW u \in Scoped, OnItsWay(u) PROVE OnItsWay(u)'
    <3>1. Pending \/ u \in actor.todo
      BY <2>4, <1>1, OnItsWayParts, Constants
    <3> QED BY <3>1, <1>1, <1>2, <2>2 DEF OnItsWay, Pending, Noticed, Notices
  <2> QED BY <1>1, <1>2, <2>2, <2>3, <2>4 DEF Inv, NothingForgotten, LoadIsWatched
<1>4. ASSUME actor.todo = {}, actor' = Idle
      PROVE  ActorShape' /\ NothingForgotten' /\ LoadIsWatched'
  <2>1. ActorShape'
    BY <1>1, <1>4, JobTypes DEF Inv, ActorShape, Live
  <2>2. ASSUME NEW u \in Scoped, OnItsWay(u) PROVE OnItsWay(u)'
    <3>1. Pending
      BY <2>2, <1>1, <1>4, OnItsWayParts, Constants
    <3> QED BY <3>1, <1>2 DEF OnItsWay, Pending, Noticed, Notices
  <2> QED BY <1>1, <1>2, <1>4, <2>1, <2>2, JobTypes DEF Inv, NothingForgotten, LoadIsWatched
<1> QED BY <1>3, <1>4 DEF LoadNext

\* Where the result of a load arrives: at the watcher's own state and at the target's
\* channel; it is as new as the repository was when the load began.
LEMMA LoadReaches ==
  ASSUME Inv, LoadEnds, NEW t \in Targets, t = actor.loading
  PROVE  /\ \A u \in Targets \ {t} : Stale(u)' = Stale(u)
         /\ actor.from = repo => ~Stale(t)'
<1>1. /\ actor \in Job /\ actor.from \in Nat /\ repo \in Nat
      /\ own \in State /\ channels \in [Targets -> Channel]
  BY DEF LoadEnds, Inv, TypeOK, Job
<1>2. UNCHANGED <<repo, target>>
  BY DEF LoadEnds, diskVars
<1>3. ASSUME NEW version \in actor.from..repo,
             own' = IF t = target THEN Loaded(t, version) ELSE own,
             channels' = IF Live(t) \/ actor.kind = "Subscribe"
                         THEN [channels EXCEPT ![t] = Loaded(t, version)] ELSE channels
      PROVE  /\ \A u \in Targets \ {t} : Stale(u)' = Stale(u)
             /\ actor.from = repo => ~Stale(t)'
  <2>1. actor.from = repo => version = repo
    BY <1>1
  <2>2. Loaded(t, version).loaded = version
    BY DEF Loaded
  <2>3. \A u \in Targets \ {t} : Stale(u)' = Stale(u)
    BY <1>1, <1>2, <1>3 DEF Stale, Behind, Live
  <2>4. ASSUME actor.from = repo PROVE ~Stale(t)'
    <3>1. ~Behind(own)' \/ t # target'
      BY <1>1, <1>2, <1>3, <2>1, <2>2, <2>4 DEF Behind
    <3>2. ~Live(t)' \/ ~Behind(channels[t])'
      <4>1. CASE Live(t) \/ actor.kind = "Subscribe"
        <5>1. channels'[t] = Loaded(t, version)
          BY <1>1, <1>3, <4>1
        <5> QED BY <1>1, <1>2, <2>1, <2>2, <2>4, <5>1 DEF Behind
      <4>2. CASE ~(Live(t) \/ actor.kind = "Subscribe")
        BY <1>3, <4>2 DEF Live
      <4> QED BY <4>1, <4>2
    <3> QED BY <3>1, <3>2 DEF Stale, Live
  <2> QED BY <2>3, <2>4
<1>4. ASSUME IF actor.kind = "Subscribe" THEN UNCHANGED <<own, channels>>
             ELSE /\ own' = IF t = target THEN Failed(own) ELSE own
                  /\ channels' = IF Live(t) THEN [channels EXCEPT ![t] = Failed(@)] ELSE channels
      PROVE  /\ \A u \in Targets \ {t} : Stale(u)' = Stale(u)
             /\ ~Stale(t)'
  <2>1. CASE actor.kind = "Subscribe"
    <3>1. t # target /\ ~Live(t) /\ UNCHANGED <<own, channels>>
      BY <2>1, <1>4, <1>1, Constants DEF Inv, ActorShape
    <3> QED BY <3>1, <1>2 DEF Stale, Behind, Live
  <2>2. CASE actor.kind # "Subscribe"
    <3>1. \A u \in Targets \ {t} : Stale(u)' = Stale(u)
      BY <1>1, <1>2, <1>4, <2>2 DEF Stale, Behind, Live
    <3>2. ~Behind(own)' \/ t # target'
      <4>1. CASE t = target
        <5>1. own' = [own EXCEPT !.error = TRUE]
          BY <1>4, <2>2, <4>1 DEF Failed
        <5> QED BY <1>1, <5>1 DEF Behind, State
      <4> QED BY <1>2, <4>1
    <3>3. ~Live(t)' \/ ~Behind(channels[t])'
      <4>1. CASE Live(t)
        <5>1. channels'[t] = [channels[t] EXCEPT !.error = TRUE]
          BY <1>1, <1>4, <2>2, <4>1 DEF Failed
        <5>2. channels[t] \in State
          BY <1>1, <4>1 DEF Live, Channel
        <5> QED BY <5>1, <5>2 DEF Behind, State
      <4>2. CASE ~Live(t)
        BY <1>4, <2>2, <4>2 DEF Live
      <4> QED BY <4>1, <4>2
    <3> QED BY <3>1, <3>2, <3>3 DEF Stale, Live
  <2> QED BY <2>1, <2>2
<1> QED BY <1>3, <1>4 DEF LoadEnds, Reaches

LEMMA ForgetLoadEnds ==
  ASSUME Inv, LoadEnds
  PROVE  ActorShape' /\ NothingForgotten' /\ LoadIsWatched'
<1>0. PICK t \in Targets : t = actor.loading
  BY DEF LoadEnds, Inv, TypeOK, Job
<1>1. /\ UNCHANGED <<task, repo, batch, wakeup, target, events, lagged>>
      /\ actor' = IF actor.kind = "wakeup" THEN [actor EXCEPT !.loading = NoTarget] ELSE Idle
      /\ t # NoTarget
  BY <1>0, Constants DEF LoadEnds, diskVars, eventVars
<1>2. /\ actor \in Job /\ channels \in [Targets -> Channel]
      /\ receivers \subseteq Targets
  BY DEF Inv, TypeOK
<1>3. actor'.loading = NoTarget /\ actor'.todo = actor.todo /\ actor'.kind # "Subscribe"
      /\ (actor'.kind # "wakeup" => actor'.todo = {})
  BY <1>1, <1>2, JobTypes DEF Job, Inv, ActorShape
<1>4. \A u \in receivers' : Live(u)'
  <2>1. \A u \in Targets : Live(u) => Live(u)'
    <3>1. \A version : Loaded(t, version) # NoChannel
      BY <1>2, Constants DEF Loaded, NoChannel
    <3>2. Live(t) => Failed(channels[t]) # NoChannel
      <4>1. Live(t) => channels[t] \in State
        BY <1>2 DEF Live, Channel
      <4> QED BY <4>1, Constants DEF Failed, NoChannel, State
    <3> QED BY <1>0, <1>2, <3>1, <3>2 DEF LoadEnds, Live, Reaches
  <2>2. receivers' \subseteq receivers \cup {t} /\ (t \in receivers' => t \in receivers \/ Live(t)')
    <3>1. \A version : Loaded(t, version) # NoChannel
      BY <1>2, Constants DEF Loaded, NoChannel
    <3>2. \/ UNCHANGED receivers
          \/ /\ receivers' = receivers \cup {t}
             /\ \E version : channels' = [channels EXCEPT ![t] = Loaded(t, version)]
      BY <1>0 DEF LoadEnds
    <3> QED BY <1>0, <1>2, <3>1, <3>2 DEF Live
  <2> QED BY <1>2, <2>1, <2>2 DEF Inv, ActorShape
<1>5. ActorShape'
  BY <1>3, <1>4 DEF ActorShape
<1>6. Pending' = Pending
  BY <1>1 DEF Pending, Noticed
<1>7. ASSUME task' # "stopped", NEW u \in Scoped, Stale(u)' PROVE OnItsWay(u)'
  <2>1. CASE Pending
    BY <2>1, <1>6 DEF OnItsWay, Pending, Noticed, Notices
  <2>2. CASE ~Pending
    <3>1. actor.from = repo
      BY <2>2, <1>0, <1>1, <1>7 DEF Inv, LoadIsWatched
    <3>2. u # t /\ u \in Targets
      BY <3>1, <1>0, <1>7, LoadReaches, Constants
    <3>3. Stale(u)
      BY <3>2, <1>0, <1>7, LoadReaches
    <3>4. u \in actor.todo
      BY <2>2, <3>2, <3>3, <1>0, <1>1, <1>7, OnItsWayParts DEF Inv, NothingForgotten
    <3> QED BY <3>4, <1>3 DEF OnItsWay
  <2> QED BY <2>1, <2>2
<1> QED BY <1>3, <1>5, <1>7 DEF NothingForgotten, LoadIsWatched

LEMMA InvInit == Init => Inv
<1> SUFFICES ASSUME Init PROVE Inv
  OBVIOUS
<1>1. WatchInv
  BY DEF Init, WatchInv, Tree, TaskShape, Covered, Walked
<1>2. ActorShape /\ NothingForgotten /\ LoadIsWatched
  BY JobTypes, Constants DEF Init, ActorShape, NothingForgotten, LoadIsWatched, Stale, Behind, Live
<1> QED BY <1>1, <1>2, InitType DEF Inv

LEMMA InvStep ==
  ASSUME Inv, [Next]_vars
  PROVE  Inv'
<1>1. TypeOK'
  BY TypeStep DEF Inv
<1>2. CASE UNCHANGED vars
  BY <1>1, <1>2 DEF vars, watchVars, stateVars, requestVars, diskVars, eventVars, Inv, WatchInv, Tree,
     TaskShape, Covered, Walked, Announced, ActorShape, NothingForgotten, LoadIsWatched, Stale, Behind,
     Live, OnItsWay, Pending, Noticed
<1>3. CASE Disk
  BY <1>1, <1>3, WatchDisk, ForgetDisk DEF Inv
<1>4. CASE ProcessEvents
  BY <1>1, <1>4, WatchProcessEvents, ForgetProcessEvents DEF Inv
<1>5. CASE Caller \/ Actor
  <2>1. UNCHANGED <<directories, watchVars, task, batch, events, lagged>>
    BY <1>5 DEF Caller, Ask, Leave, Actor, HandleRequest, HandleWakeup, LoadNext, LoadEnds, diskVars,
                eventVars
  <2>2. WatchInv'
    BY <2>1, WatchFrame DEF Inv, Announced
  <2> QED BY <1>1, <1>5, <2>2, ForgetCaller, ForgetRequest, ForgetWakeup, ForgetLoadNext, ForgetLoadEnds
          DEF Actor, Inv
<1>6. CASE ActorStops
  <2>1. WatchInv'
    BY <1>6 DEF ActorStops, Inv, WatchInv, Tree, TaskShape, Covered, Walked, diskVars
  <2>2. ActorShape' /\ NothingForgotten' /\ LoadIsWatched'
    BY <1>6, JobTypes DEF ActorStops, Inv, ActorShape, NothingForgotten, LoadIsWatched, Live, stateVars
  <2> QED BY <1>1, <2>1, <2>2 DEF Inv
<1> QED BY <1>2, <1>3, <1>4, <1>5, <1>6 DEF Next

\* The invariant behind NothingIsForgotten.
THEOREM Invariance == Spec => []Inv
BY InvInit, InvStep, PTL DEF Spec

\* While the watcher runs no change is forgotten: RepositoryWatcher's central promise,
\* for any tree of directories that come and go while it is being watched.
THEOREM NothingIsForgotten == Spec => []NoChangeIsForgotten
<1>1. Inv => NoChangeIsForgotten
  BY DEF Inv, NoChangeIsForgotten, NothingForgotten, ActorShape, Kept, Stale, Running
<1> QED BY <1>1, Invariance, PTL

-----------------------------------------------------------------------------
(* Answers and targets.                                                     *)

\* What a load in progress owes to the requests that came before it.
LoadShape ==
  /\ actor.loading # NoTarget => answer.since <= actor.from /\ actor.from <= repo
  /\ actor.loading # NoTarget /\ actor.kind # "wakeup" =>
       actor.loading = actor.target /\ actor.since <= actor.from
  /\ actor.kind = "SetTarget" => actor.loading = target

AskedBefore ==
  answer.since <= repo /\ \A i \in 1..Len(requests) : requests[i].since <= repo

ChannelsAreTheirs == \A t \in Targets : Live(t) => channels[t].shows = t
StatesArePast == own.loaded <= repo /\ \A t \in Targets : Live(t) => channels[t].loaded <= repo
OwnIsTheirs == own.shows = target \/ own.error \/ actor.kind = "SetTarget"

AnswerInv ==
  LoadShape /\ AskedBefore /\ StatesArePast /\ ChannelsAreTheirs /\ OwnIsTheirs /\ RequestIsRetained

\* Time passes, requests come, and the states stay what they are.
LEMMA AnswerFrame ==
  ASSUME TypeOK, AnswerInv, UNCHANGED <<actor, target, own, channels, answer>>,
         repo' \in Nat, repo <= repo',
         \A i \in 1..Len(requests') : requests'[i].since <= repo'
  PROVE  AnswerInv'
<1>1. answer.since \in Nat /\ repo \in Nat
  BY DEF TypeOK
<1>2. AskedBefore'
  BY <1>1 DEF AnswerInv, AskedBefore
<1>3. LoadShape'
  <2>1. actor.from \in Nat
    BY DEF TypeOK, Job
  <2> QED BY <1>1, <2>1 DEF AnswerInv, LoadShape
<1>4. StatesArePast'
  <2>1. own.loaded \in Nat /\ \A t \in Targets : Live(t) => channels[t].loaded \in Nat
    BY DEF TypeOK, State, Channel, Live
  <2> QED BY <1>1, <2>1 DEF AnswerInv, StatesArePast, Live
<1> QED BY <1>2, <1>3, <1>4 DEF AnswerInv, ChannelsAreTheirs, OwnIsTheirs, RequestIsRetained, Live

LEMMA AnswerDisk ==
  ASSUME TypeOK, AnswerInv, Disk \/ ProcessEvents \/ (\E t \in Targets : Leave(t))
  PROVE  AnswerInv'
<1>1. UNCHANGED <<actor, target, own, channels, answer, requests>> /\ repo' \in {repo, repo + 1}
  BY DEF Disk, Edit, Overflow, Appear, Vanish, ScratchEvent, ProcessEvents, ReceiveEvent, Deadline,
         WatchDirectory, ReadDirectory, Rewatched, RewatchFails, Filter, Leave, diskVars, stateVars,
         requestVars
<1>2. /\ repo \in Nat /\ requests \in Seq(Request)
      /\ \A i \in 1..Len(requests) : requests[i].since \in Nat /\ requests[i].since <= repo
  <2>1. repo \in Nat /\ requests \in Seq(Request)
    BY DEF TypeOK
  <2>2. \A i \in 1..Len(requests) : requests[i] \in Request
    BY <2>1
  <2> QED BY <2>1, <2>2 DEF AnswerInv, AskedBefore, Request
<1>3. repo' \in Nat /\ repo <= repo'
  BY <1>1, <1>2
<1>4. \A i \in 1..Len(requests') : requests'[i].since <= repo'
  BY <1>1, <1>2
<1> QED BY <1>1, <1>3, <1>4, AnswerFrame

LEMMA AnswerAsk ==
  ASSUME TypeOK, AnswerInv, Ask
  PROVE  AnswerInv'
<1>1. UNCHANGED <<actor, target, own, channels, answer, repo>>
  BY DEF Ask, diskVars, stateVars
<1>2. PICK kind \in RequestKinds, t \in Targets :
        requests' = Append(requests, [kind |-> kind, target |-> t, since |-> repo])
  BY DEF Ask
<1>3. repo \in Nat /\ requests \in Seq(Request)
  BY DEF TypeOK
<1>4. [kind |-> kind, target |-> t, since |-> repo] \in Request
  BY <1>3, Constants DEF Request
<1>5. /\ Len(requests) \in Nat /\ Len(requests') = Len(requests) + 1
      /\ \A i \in 1..Len(requests) : requests'[i] = requests[i]
      /\ requests'[Len(requests) + 1].since = repo
  BY <1>2, <1>3, <1>4, AppendProperties, LenProperties
<1>6. \A i \in 1..Len(requests') : requests'[i].since <= repo
  <2>1. ASSUME NEW i \in 1..Len(requests') PROVE i \in 1..Len(requests) \/ i = Len(requests) + 1
    BY <1>5
  <2> QED BY <2>1, <1>3, <1>5 DEF AnswerInv, AskedBefore
<1> QED BY <1>1, <1>3, <1>6, AnswerFrame

LEMMA AnswerRequest ==
  ASSUME TypeOK, AnswerInv, HandleRequest
  PROVE  AnswerInv'
<1> DEFINE request == Head(requests)
           job == [Idle EXCEPT !.kind = request.kind, !.target = request.target, !.since = request.since]
<1>1. /\ UNCHANGED <<repo, own, channels>> /\ actor = Idle
      /\ requests # <<>> /\ requests' = Tail(requests)
  BY DEF HandleRequest, diskVars
<1>2. request \in Request
  BY RequestTypes DEF HandleRequest
<1>3. /\ request.since <= repo
      /\ \A i \in 1..Len(requests') : requests'[i].since <= repo
  <2>1. /\ Head(requests) = requests[1] /\ 1 \in 1..Len(requests)
        /\ \A i \in 1..Len(requests') : requests'[i] = requests[i + 1] /\ i + 1 \in 1..Len(requests)
    <3>1. requests \in Seq(Request) /\ Len(requests) \in Nat /\ Len(requests) # 0
      BY <1>1, LenProperties, EmptySeq DEF TypeOK
    <3>2. /\ Head(requests) = requests[1] /\ Len(requests') = Len(requests) - 1
          /\ \A i \in 1..Len(requests') : requests'[i] = requests[i + 1]
      BY <1>1, <3>1, HeadTailProperties
    <3> QED BY <3>1, <3>2
  <2> QED BY <2>1 DEF AnswerInv, AskedBefore
<1>4. CASE Joins(request) /\ AnswerJoined(request.target) /\ UNCHANGED <<actor, target>>
  <2> DEFINE state == Joined(request.target)
  <2>1. request.target \in Targets /\ repo \in Nat
    BY <1>2 DEF Request, TypeOK
  <2>2. /\ state.loaded <= repo /\ state.loaded \in Nat
        /\ request.target = target => state = own
        /\ Live(request.target) => request.target = target \/ state = channels[request.target]
    BY <1>4, <2>1 DEF AnswerInv, StatesArePast, Joins, Joined, Live, Channel, State, TypeOK
  <2> HIDE DEF state
  <2>3. answer' = [target |-> request.target, since |-> state.loaded, ok |-> TRUE,
                     source |-> IF request.target = target THEN "own" ELSE "channel"]
    BY <1>4 DEF AnswerJoined, state
  <2>4. AskedBefore' /\ LoadShape'
    BY <1>1, <1>3, <1>4, <2>2, <2>3, JobTypes DEF AskedBefore, LoadShape
  <2>5. StatesArePast' /\ ChannelsAreTheirs' /\ OwnIsTheirs'
    BY <1>1, <1>4 DEF AnswerInv, StatesArePast, ChannelsAreTheirs, OwnIsTheirs, Live
  <2>6. RequestIsRetained'
    BY <1>1, <1>4, <2>1, <2>2, <2>3, JobTypes DEF AnswerInv, OwnIsTheirs, RequestIsRetained, Live
  <2> QED BY <2>4, <2>5, <2>6 DEF AnswerInv
<1>5. CASE /\ actor' = Loading(job, request.target) /\ UNCHANGED answer
           /\ target' = IF request.kind = "SetTarget" THEN request.target ELSE target
  <2>1. job \in Job /\ job.kind = request.kind /\ job.target = request.target
        /\ job.since = request.since /\ request.target \in Targets /\ request.kind \in Kinds
    BY <1>2, JobTypes DEF Request, Job, Idle
  <2>2. /\ Loading(job, request.target).kind = job.kind
        /\ Loading(job, request.target).target = job.target
        /\ Loading(job, request.target).since = job.since
        /\ Loading(job, request.target).loading = request.target
        /\ Loading(job, request.target).from = repo
    BY <2>1, LoadingType
  <2> HIDE DEF job
  <2>3. /\ actor'.kind = request.kind /\ actor'.target = request.target
        /\ actor'.since = request.since /\ actor'.loading = request.target /\ actor'.from = repo
    BY <1>5, <2>1, <2>2
  <2>4. AskedBefore' /\ LoadShape'
    BY <1>1, <1>3, <1>5, <2>3 DEF AnswerInv, AskedBefore, LoadShape, TypeOK
  <2>5. StatesArePast' /\ ChannelsAreTheirs'
    BY <1>1 DEF AnswerInv, StatesArePast, ChannelsAreTheirs, Live
  <2>6. OwnIsTheirs' /\ RequestIsRetained'
    BY <1>1, <1>5, <2>3, JobTypes DEF AnswerInv, OwnIsTheirs, RequestIsRetained, Live
  <2> QED BY <2>4, <2>5, <2>6 DEF AnswerInv
<1> QED BY <1>4, <1>5 DEF HandleRequest

LEMMA AnswerWakeup ==
  ASSUME TypeOK, AnswerInv, HandleWakeup \/ LoadNext \/ ActorStops
  PROVE  AnswerInv'
<1>1. UNCHANGED <<repo, target, own, answer>> /\ actor.kind # "SetTarget"
  <2>1. UNCHANGED <<repo, target, own, answer>>
    BY DEF HandleWakeup, LoadNext, ActorStops, diskVars, stateVars, requestVars
  <2>2. actor = Idle \/ actor.kind = "wakeup"
    BY DEF HandleWakeup, LoadNext, ActorStops
  <2> QED BY <2>1, <2>2, JobTypes
<1>2. \A t \in Targets : channels'[t] \in {channels[t], NoChannel}
  BY DEF HandleWakeup, LoadNext, ActorStops, stateVars
<1>3. requests' \in {requests, <<>>}
  BY DEF HandleWakeup, LoadNext, ActorStops, requestVars
<1>4. AskedBefore'
  BY <1>1, <1>3 DEF AnswerInv, AskedBefore
<1>5. StatesArePast' /\ ChannelsAreTheirs'
  BY <1>1, <1>2 DEF AnswerInv, StatesArePast, ChannelsAreTheirs, Live
<1>6. actor'.kind \in {"wakeup", "idle", "stopped"} /\ (actor'.loading = NoTarget \/ actor'.from = repo)
      /\ (actor'.loading # NoTarget => actor'.kind = "wakeup")
  <2>1. CASE HandleWakeup \/ ActorStops
    BY <2>1 DEF HandleWakeup, ActorStops, Idle, Stopped
  <2>2. CASE LoadNext
    <3>1. actor \in Job /\ actor.kind = "wakeup" /\ actor.todo \subseteq Targets
      BY <2>2 DEF LoadNext, TypeOK, Job
    <3> QED BY <2>2, <3>1, LoadingType, JobTypes DEF LoadNext
  <2> QED BY <2>1, <2>2
<1>7. LoadShape'
  BY <1>1, <1>6 DEF AnswerInv, AskedBefore, LoadShape, TypeOK
<1>8. OwnIsTheirs'
  BY <1>1, <1>6 DEF AnswerInv, OwnIsTheirs
<1>9. RequestIsRetained'
  <2>1. answer.target \in Targets
    BY DEF TypeOK
  <2> QED BY <1>1, <1>2, <2>1 DEF AnswerInv, RequestIsRetained, Live
<1> QED BY <1>4, <1>5, <1>7, <1>8, <1>9 DEF AnswerInv

LEMMA AnswerLoadEnds ==
  ASSUME TypeOK, AnswerInv, LoadEnds
  PROVE  AnswerInv'
<1>0. PICK t \in Targets : t = actor.loading
  BY DEF LoadEnds, TypeOK, Job
<1>1. /\ UNCHANGED <<repo, target, requests>> /\ t # NoTarget
      /\ actor'.kind \in {"wakeup", "idle"} /\ actor'.loading = NoTarget
  <2>1. [actor EXCEPT !.loading = NoTarget].kind = actor.kind /\ [actor EXCEPT !.loading = NoTarget].loading = NoTarget
    BY DEF TypeOK, Job
  <2> QED BY <2>1, <1>0, JobTypes DEF LoadEnds, diskVars
<1>2. /\ actor.from \in Nat /\ actor.since \in Nat /\ repo \in Nat /\ answer.since \in Nat
      /\ own \in State /\ channels \in [Targets -> Channel] /\ answer.target \in Targets
  BY DEF TypeOK, Job
<1>3. /\ answer.since <= actor.from /\ answer.since <= repo /\ actor.from <= repo
      /\ actor.kind # "wakeup" => t = actor.target /\ actor.since <= actor.from
      /\ actor.kind = "SetTarget" => t = target
  BY <1>0, <1>1 DEF AnswerInv, LoadShape, AskedBefore
<1>4. LoadShape'
  BY <1>1 DEF LoadShape
<1>5. CASE \E version \in actor.from..repo :
             /\ own' = IF t = target THEN Loaded(t, version) ELSE own
             /\ channels' = IF Live(t) \/ actor.kind = "Subscribe"
                            THEN [channels EXCEPT ![t] = Loaded(t, version)] ELSE channels
             /\ IF actor.kind = "wakeup" THEN UNCHANGED answer ELSE Answer(actor, TRUE)
  <2>1. PICK version \in actor.from..repo :
          /\ own' = IF t = target THEN Loaded(t, version) ELSE own
          /\ channels' = IF Live(t) \/ actor.kind = "Subscribe"
                         THEN [channels EXCEPT ![t] = Loaded(t, version)] ELSE channels
          /\ IF actor.kind = "wakeup" THEN UNCHANGED answer ELSE Answer(actor, TRUE)
    BY <1>5
  <2>2. /\ Loaded(t, version).shows = t /\ Loaded(t, version).loaded = version
        /\ version \in Nat /\ version <= repo /\ actor.from <= version
    BY <1>2 DEF Loaded
  <2>3. \/ UNCHANGED answer
        \/ /\ actor.kind # "wakeup" /\ answer'.target = t /\ answer'.since = actor.since
           /\ answer'.source = "loaded"
    BY <2>1, <1>3 DEF Answer
  <2>4. answer'.since \in Nat /\ answer'.since <= version
    BY <2>2, <2>3, <1>2, <1>3
  <2>5. AskedBefore'
    BY <1>1, <1>2, <2>2, <2>4 DEF AnswerInv, AskedBefore
  <2>6. StatesArePast' /\ ChannelsAreTheirs'
    BY <1>1, <1>2, <2>1, <2>2 DEF AnswerInv, StatesArePast, ChannelsAreTheirs, Live
  <2>7. OwnIsTheirs'
    BY <1>1, <1>3, <2>1, <2>2 DEF AnswerInv, OwnIsTheirs
  <2>8. RequestIsRetained'
    <3> SUFFICES ASSUME answer'.ok
                 PROVE  /\ answer'.target = target /\ actor'.kind # "SetTarget" =>
                             /\ own'.loaded >= answer'.since
                             /\ own'.shows = answer'.target \/ (answer'.source = "own" /\ own'.error)
                        /\ channels'[answer'.target] # NoChannel /\ answer'.source # "own" =>
                             channels'[answer'.target].loaded >= answer'.since
      BY <1>1 DEF RequestIsRetained, Live
    <3>1. CASE answer'.target = t
      <4>1. t = target => own'.shows = t /\ own'.loaded >= answer'.since
        BY <2>1, <2>2, <2>4
      <4>2. channels'[t] # NoChannel => channels'[t].loaded >= answer'.since
        BY <1>2, <2>1, <2>2, <2>4 DEF Live
      <4> QED BY <3>1, <4>1, <4>2, <1>1
    <3>2. CASE answer'.target # t
      <4>1. UNCHANGED answer
        BY <3>2, <2>3
      <4>2. channels'[answer.target] = channels[answer.target]
        BY <3>2, <4>1, <1>2, <2>1
      <4>3. answer.target = target => own' = own /\ actor.kind # "SetTarget"
        BY <3>2, <4>1, <1>3, <2>1
      <4> QED BY <4>1, <4>2, <4>3 DEF AnswerInv, RequestIsRetained, Live
    <3> QED BY <3>1, <3>2
  <2> QED BY <1>4, <2>5, <2>6, <2>7, <2>8 DEF AnswerInv
<1>6. CASE /\ IF actor.kind = "Subscribe" THEN UNCHANGED <<own, channels>>
              ELSE /\ own' = IF t = target THEN Failed(own) ELSE own
                   /\ channels' = IF Live(t) THEN [channels EXCEPT ![t] = Failed(@)] ELSE channels
           /\ IF actor.kind = "wakeup" THEN UNCHANGED answer ELSE Answer(actor, FALSE)
  <2>1. /\ own'.shows = own.shows /\ own'.loaded = own.loaded
        /\ own'.error \in {own.error, TRUE}
        /\ t = target /\ actor.kind # "Subscribe" => own'.error = TRUE
    BY <1>2, <1>6 DEF Failed, State
  <2>2. ASSUME NEW u \in Targets
        PROVE  \/ channels[u] = NoChannel /\ channels'[u] = NoChannel
               \/ /\ channels[u] # NoChannel
                  /\ channels'[u].shows = channels[u].shows /\ channels'[u].loaded = channels[u].loaded
    BY <1>2, <1>6 DEF Failed, Live, Channel, State
  <2>3. \/ UNCHANGED answer
        \/ actor.kind # "wakeup" /\ answer'.since = actor.since /\ answer'.ok = FALSE
    BY <1>6 DEF Answer
  <2>4. AskedBefore'
    <3>1. answer'.since <= repo
      <4>1. actor.kind # "wakeup" => actor.since <= actor.from
        BY <1>3
      <4> QED BY <2>3, <1>2, <1>3, <4>1
    <3> QED BY <3>1, <1>1 DEF AnswerInv, AskedBefore
  <2>5. StatesArePast' /\ ChannelsAreTheirs'
    BY <1>1, <2>1, <2>2 DEF AnswerInv, StatesArePast, ChannelsAreTheirs, Live
  <2>6. OwnIsTheirs'
    BY <1>1, <1>3, <2>1 DEF AnswerInv, OwnIsTheirs
  <2>7. RequestIsRetained'
    <3>1. CASE actor.kind # "wakeup"
      BY <3>1, <1>6 DEF Answer, RequestIsRetained
    <3>2. CASE actor.kind = "wakeup"
      <4>1. UNCHANGED answer
        BY <3>2, <1>6
      <4> QED BY <3>2, <4>1, <1>1, <1>2, <2>1, <2>2 DEF AnswerInv, RequestIsRetained, Live
    <3> QED BY <3>1, <3>2
  <2> QED BY <1>4, <2>4, <2>5, <2>6, <2>7 DEF AnswerInv
<1> QED BY <1>0, <1>5, <1>6 DEF LoadEnds, Reaches

LEMMA AnswerInit == Init => AnswerInv
BY JobTypes, Constants
   DEF Init, AnswerInv, LoadShape, AskedBefore, StatesArePast, ChannelsAreTheirs, OwnIsTheirs, RequestIsRetained, Live,
       NoAnswer

LEMMA AnswerStep ==
  ASSUME TypeOK, AnswerInv, [Next]_vars
  PROVE  AnswerInv'
<1>1. CASE UNCHANGED vars
  <2>1. UNCHANGED <<actor, target, own, channels, answer, repo, requests>>
    BY <1>1 DEF vars, stateVars, requestVars, diskVars
  <2> QED BY <2>1 DEF AnswerInv, LoadShape, AskedBefore, StatesArePast, ChannelsAreTheirs, OwnIsTheirs,
                      RequestIsRetained, Live
<1> QED BY <1>1, AnswerDisk, AnswerAsk, AnswerRequest, AnswerWakeup, AnswerLoadEnds
        DEF Next, Caller, Actor

THEOREM AnswerInvariance == Spec => [](TypeOK /\ AnswerInv)
<1>1. Init => TypeOK /\ AnswerInv
  BY InitType, AnswerInit
<1>2. TypeOK /\ AnswerInv /\ [Next]_vars => (TypeOK /\ AnswerInv)'
  BY TypeStep, AnswerStep
<1> QED BY <1>1, <1>2, PTL DEF Spec

\* Whoever was answered that a target was loaded finds the load in what is retained for
\* it, as new as the repository was at the time of the request; and whoever was given a
\* state that was there already is never taken back behind it.
THEOREM RequestsAreRetained == Spec => []RequestIsRetained
<1>1. TypeOK /\ AnswerInv => RequestIsRetained
  BY DEF AnswerInv
<1> QED BY <1>1, AnswerInvariance, PTL

\* A receiver never sees the state of another target, but for the watcher's own state
\* behind an error.
THEOREM StatesAreOfTheirTargets == Spec => []StateIsOfItsTarget
<1>1. Inv /\ TypeOK /\ AnswerInv => StateIsOfItsTarget
  BY DEF Inv, ActorShape, TypeOK, AnswerInv, ChannelsAreTheirs, OwnIsTheirs, StateIsOfItsTarget
<1> QED BY <1>1, Invariance, AnswerInvariance, PTL
=============================================================================
