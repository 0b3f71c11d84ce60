------------------------- MODULE LanguageServerProofs -------------------------
(***************************************************************************)
(* Proofs about LanguageServer, for any set of calls and any bounds: its    *)
(* types, that no change of the file is lost, and that a request reaches    *)
(* the server while the file is open there.                                 *)
(***************************************************************************)
EXTENDS LanguageServer, FiniteSets, FiniteSetTheorems, SequenceTheorems, TLAPS

-----------------------------------------------------------------------------
(* Types.                                                                   *)

Contents == Nat \cup {None}
Commands ==
  {c \in [kind: {"Open", "Close", "Request", "MarkWritten"}, task: Tasks \cup {None}, content: Contents] :
     c.kind \in {"Open", "Request"} => c.task \in Tasks}
Jobs == [kind: {"Uri", "Stale", "Barrier", "Workspace"}, call: Tasks \cup {None}]
Places ==
  {"new", "discover", "idle", "read", "reserve", "opening", "opened", "awaiting", "barrier", "marking", "retry", "done"}
TaskStates == [at: Places, kind: CallKinds \cup {None}, read: Contents, session: Nat, retried: BOOLEAN]

Files == [edit: Nat, exists: BOOLEAN, location: PossibleLocations]
Servers == [number: Nat, alive: BOOLEAN, open: Contents, newest: Nat, forgot: BOOLEAN, missed: BOOLEAN]
Documents == [holders: Nat, content: Contents, needs_refresh: BOOLEAN]
Events == [kind: EventKinds, edit: Nat]
Watches ==
  [events: Seq(Events), noticed: SUBSET {"changed", "discovered"}, registered: (SUBSET EventKinds) \cup {None},
   due: SUBSET Nat]
Works == [queue: Seq(Jobs), queued: BOOLEAN, stale: BOOLEAN]

TypeOK ==
  /\ file \in Files /\ server \in Servers /\ document \in Documents
  /\ commands \in Seq(Commands) /\ closes \in Nat
  /\ pending \in SUBSET Tasks
  /\ watched \in Watches
  /\ jobs \in Seq(Jobs) /\ work \in Works
  /\ tasks \in [Tasks -> TaskStates]

LEMMA Fixed ==
  /\ Close \in Commands /\ Stale \in Jobs
  /\ \A t \in Tasks, content \in Contents, kind \in {"Open", "Request", "MarkWritten"} :
       Command(kind, t, content) \in Commands
  /\ Command("MarkWritten", None, None) \in Commands
  /\ \A kind \in {"Uri", "Stale", "Barrier", "Workspace"}, call \in Tasks \cup {None} : Job(kind, call) \in Jobs
  /\ Refresher \in Tasks /\ Calls \subseteq Tasks
BY DEF Close, Stale, Command, Job, Commands, Jobs, Contents, Tasks

LEMMA SendType ==
  ASSUME TypeOK, NEW command \in Commands
  PROVE  Append(commands, command) \in Seq(Commands)
BY DEF TypeOK

LEMMA JobType ==
  ASSUME TypeOK, NEW job \in Jobs
  PROVE  Append(jobs, job) \in Seq(Jobs)
BY DEF TypeOK

LEMMA ReleaseType ==
  ASSUME TypeOK, Release
  PROVE  commands' \in Seq(Commands) /\ closes' \in Nat
<1>1. Append(commands, Close) \in Seq(Commands)
  BY Fixed, SendType
<1>2. commands \in Seq(Commands) /\ closes \in Nat
  BY DEF TypeOK
<1> QED BY <1>1, <1>2 DEF Release

LEMMA EnqueueType ==
  ASSUME NEW w \in Works
  PROVE  Enqueue(w) \in Works
<1>1. Append(w.queue, Job("Uri", None)) \in Seq(Jobs)
  BY Fixed DEF Works
<1> QED BY <1>1 DEF Enqueue, Works

LEMMA PushType ==
  ASSUME NEW w \in Works, NEW job \in Jobs
  PROVE  Push(w, job) \in Works
<1>1. CASE job.kind = "Uri"
  BY <1>1, EnqueueType DEF Push
<1>2. CASE job.kind = "Stale"
  BY <1>2 DEF Push, Works
<1>3. CASE job.kind = "Barrier"
  <2>1. Append(w.queue, job) \in Seq(Jobs)
    BY DEF Works
  <2> QED BY <1>3, <2>1 DEF Push, Works
<1>4. CASE job.kind = "Workspace"
  <2> DEFINE v == IF w.stale THEN Enqueue(w) ELSE w
  <2>1. v \in Works
    BY EnqueueType
  <2>2. Job("Barrier", job.call) \in Jobs
    BY Fixed DEF Jobs
  <2>3. Append(v.queue, Job("Barrier", job.call)) \in Seq(Jobs)
    BY <2>1, <2>2 DEF Works
  <2>4. Push(w, job) = [v EXCEPT !.queue = Append(@, Job("Barrier", job.call))]
    BY <1>4 DEF Push
  <2> HIDE DEF v
  <2> QED BY <2>1, <2>3, <2>4 DEF Works
<1> QED BY <1>1, <1>2, <1>3, <1>4 DEF Jobs

LEMMA TaskChanges ==
  ASSUME NEW f \in [Tasks -> TaskStates], NEW t
  PROVE  /\ \A at \in Places : [f EXCEPT ![t].at = at] \in [Tasks -> TaskStates]
         /\ [f EXCEPT ![t].at = IF @ = "barrier" THEN "done" ELSE @] \in [Tasks -> TaskStates]
         /\ \A n \in Nat : [f EXCEPT ![t].session = n] \in [Tasks -> TaskStates]
         /\ \A at \in Places, read \in Contents : [f EXCEPT ![t].at = at, ![t].read = read] \in [Tasks -> TaskStates]
         /\ \A at \in Places, retried \in BOOLEAN :
              [f EXCEPT ![t].at = at, ![t].retried = retried] \in [Tasks -> TaskStates]
         /\ \A at \in Places, kind \in CallKinds, n \in Nat :
              [f EXCEPT ![t].kind = kind, ![t].session = n, ![t].at = at] \in [Tasks -> TaskStates]
<1>1. \A at \in Places : [f EXCEPT ![t].at = at] \in [Tasks -> TaskStates]
  BY DEF TaskStates
<1>2. \A n \in Nat : [f EXCEPT ![t].session = n] \in [Tasks -> TaskStates]
  BY DEF TaskStates
<1>3. \A at \in Places, read \in Contents : [f EXCEPT ![t].at = at, ![t].read = read] \in [Tasks -> TaskStates]
  BY DEF TaskStates
<1>4. \A at \in Places, retried \in BOOLEAN :
         [f EXCEPT ![t].at = at, ![t].retried = retried] \in [Tasks -> TaskStates]
  BY DEF TaskStates
<1>5. \A at \in Places, kind \in CallKinds, n \in Nat :
         [f EXCEPT ![t].kind = kind, ![t].session = n, ![t].at = at] \in [Tasks -> TaskStates]
  BY ZenonT(60) DEF TaskStates
<1>6. [f EXCEPT ![t].at = IF @ = "barrier" THEN "done" ELSE @] \in [Tasks -> TaskStates]
  <2>1. "done" \in Places
    BY DEF Places
  <2> QED BY <2>1 DEF TaskStates
<1> QED BY <1>1, <1>2, <1>3, <1>4, <1>5, <1>6

LEMMA MovesType ==
  ASSUME TypeOK, NEW t, NEW at \in Places, Goes(t, at)
  PROVE  tasks' \in [Tasks -> TaskStates]
BY TaskChanges DEF TypeOK, Goes

LEMMA BeginsType ==
  ASSUME TypeOK, NEW c, NEW kind \in CallKinds, Begin(c, kind)
  PROVE  tasks' \in [Tasks -> TaskStates]
<1> DEFINE at == CASE kind = "Workspace" -> "barrier" [] kind = "Written" -> "marking" [] OTHER -> "read"
<1>1. at \in Places /\ server.number \in Nat /\ tasks \in [Tasks -> TaskStates]
  BY DEF TypeOK, Servers, Places
<1>2. tasks' = [tasks EXCEPT ![c].kind = kind, ![c].session = server.number, ![c].at = at]
  BY DEF Begin
<1> HIDE DEF at
<1> QED BY <1>1, <1>2, TaskChanges

LEMMA DocumentChanges ==
  ASSUME NEW d \in Documents
  PROVE  /\ [d EXCEPT !.needs_refresh = TRUE] \in Documents
         /\ \A content \in Nat : [d EXCEPT !.holders = @ + 1, !.content = content] \in Documents
         /\ d.holders # 0 => Released(d) \in Documents /\ [Released(d) EXCEPT !.needs_refresh = FALSE] \in Documents
         /\ NoDocument \in Documents
<1>1. d.holders # 0 => d.holders - 1 \in Nat
  BY DEF Documents
<1>2. d.holders + 1 \in Nat
  BY DEF Documents
<1> QED BY <1>1, <1>2 DEF Documents, Released, NoDocument, Contents

LEMMA WatchingType ==
  ASSUME file \in Files
  PROVE  Unwatched \in Watches /\ Watching \in Watches
<1>1. Unwatched \in Watches
  BY DEF Unwatched, Watches
<1>2. (IF file.exists /\ file.location = "tracked" THEN {file.edit} ELSE {}) \in SUBSET Nat
  BY DEF Files
<1> QED BY <1>1, <1>2 DEF Watching, Watches

LEMMA MarkStaleType ==
  ASSUME TypeOK
  PROVE  MarkStale \in Seq(Jobs)
<1>1. Append(jobs, Stale) \in Seq(Jobs)
  BY Fixed, JobType
<1> QED BY <1>1 DEF MarkStale, TypeOK

LEMMA InitType == Init => TypeOK
<1> SUFFICES ASSUME Init PROVE TypeOK
  OBVIOUS
<1>1. file \in Files
  BY ConstantsAssumption DEF Init, Files
<1>2. \A at \in Places : Task(at) \in TaskStates
  BY DEF Task, TaskStates, Contents
<1>3. tasks \in [Tasks -> TaskStates]
  BY <1>2 DEF Init, Places
<1>4. /\ server \in Servers
      /\ document \in Documents
      /\ work \in Works
  BY DEF Init, Started, NoDocument, NoWork, Contents, Servers, Documents, Works
<1>5. commands \in Seq(Commands) /\ closes \in Nat /\ pending \in SUBSET Tasks /\ jobs \in Seq(Jobs)
  BY DEF Init
<1>6. watched \in Watches
  BY <1>1, WatchingType DEF Init
<1> QED BY <1>1, <1>3, <1>4, <1>5, <1>6 DEF TypeOK

LEMMA NextType == TypeOK /\ Next => TypeOK'
<1> SUFFICES ASSUME TypeOK, Next PROVE TypeOK'
  OBVIOUS
<1>1. CASE Edit
  <2>1. file.edit + 1 \in Nat /\ file \in Files /\ watched \in Watches
    BY DEF TypeOK, Files
  <2>2. PICK exists \in BOOLEAN, kind \in EventKinds \cup {None} :
          /\ file' = [file EXCEPT !.edit = @ + 1, !.exists = exists]
          /\ watched' = [watched EXCEPT
               !.events = IF kind = None THEN @ ELSE Append(@, [kind |-> kind, edit |-> file.edit + 1]),
               !.due = IF ~exists THEN {} ELSE IF kind = None THEN @ ELSE @ \cup {file.edit + 1}]
    BY <1>1 DEF Edit
  <2>3. file' \in Files
    BY <2>1, <2>2 DEF Files
  <2>4. kind # None => Append(watched.events, [kind |-> kind, edit |-> file.edit + 1]) \in Seq(Events)
    BY <2>1 DEF Watches, Events
  <2>5. watched' \in Watches
    BY <2>1, <2>2, <2>4 DEF Watches
  <2> QED BY <1>1, <2>3, <2>5 DEF Edit, TypeOK
<1>2. CASE Notice
  <2>1. watched \in Watches /\ Tail(watched.events) \in Seq(Events)
    BY <1>2, HeadTailProperties DEF Notice, TypeOK, Watches
  <2>2. watched' \in Watches
    BY <1>2, <2>1 DEF Notice, Watches
  <2> QED BY <1>2, <2>2 DEF Notice, TypeOK
<1>3. CASE Register
  <2>1. watched' \in Watches
    BY <1>3, ConstantsAssumption DEF Register, TypeOK, Watches
  <2> QED BY <1>3, <2>1 DEF Register, TypeOK
<1>4. CASE Forward
  <2>1. jobs' \in Seq(Jobs)
    BY <1>4, MarkStaleType DEF Forward, TypeOK
  <2>2. /\ document' \in Documents
        /\ watched' \in Watches
    BY <1>4, DocumentChanges DEF Forward, TypeOK, Watches
  <2> QED BY <1>4, <2>1, <2>2 DEF Forward, TypeOK
<1>5. CASE RefreshAsked
  BY <1>5, MarkStaleType DEF RefreshAsked, TypeOK
<1>6. CASE Handle
  <2>1. Head(commands) \in Commands /\ Tail(commands) \in Seq(Commands)
    BY <1>6, HeadTailProperties DEF Handle, TypeOK
  <2> DEFINE command == Head(commands)
  <2>2. CASE command.kind = "Open" /\ HandleOpen(command)
    <3> DEFINE content == command.content
    <3>1. content = None \/ content \in Nat
      BY <2>1 DEF Commands, Contents
    <3>2. tasks' \in [Tasks -> TaskStates]
      <4>1. tasks' = Reply(command.task, "opened") /\ tasks \in [Tasks -> TaskStates] /\ "opened" \in Places
        BY <2>2 DEF HandleOpen, TypeOK, Places
      <4> QED BY <4>1, TaskChanges DEF Reply
    <3>3. CASE content = None
      <4>1. document' = NoDocument /\ server' = [server EXCEPT !.missed = TRUE, !.forgot = @ \/ document.needs_refresh]
        BY <2>2, <3>3 DEF HandleOpen, OpenMissing
      <4>2. document' \in Documents
        BY <4>1, DocumentChanges DEF TypeOK
      <4>3. document.needs_refresh \in BOOLEAN
        BY DEF TypeOK, Documents
      <4>4. server' \in Servers
        BY <4>1, <4>3 DEF TypeOK, Servers
      <4> QED BY <1>6, <2>1, <2>2, <3>2, <4>2, <4>4 DEF Handle, HandleOpen, TypeOK
    <3>4. CASE content \in Nat
      <4>1. OpenContent(content)
        BY <2>2, <3>4, ConstantsAssumption DEF HandleOpen
      <4> HIDE DEF content
      <4>2. document' \in Documents
        BY <3>4, <4>1, DocumentChanges DEF OpenContent, TypeOK
      <4>3. server \in Servers
        BY DEF TypeOK
      <4>4. [server EXCEPT !.open = content, !.newest = IF content > @ THEN content ELSE @] \in Servers
        BY <3>4, <4>3 DEF Servers, Contents
      <4>5. server' \in Servers
        BY <4>1, <4>3, <4>4 DEF OpenContent
      <4> QED BY <1>6, <2>1, <2>2, <3>2, <4>2, <4>5 DEF Handle, HandleOpen, TypeOK
    <3> QED BY <3>1, <3>3, <3>4
  <2>3. CASE HandleClose
    <3>2. jobs' \in Seq(Jobs)
      BY <2>3, MarkStaleType DEF HandleClose, TypeOK
    <3>3. document' \in Documents
      BY <2>3, DocumentChanges DEF HandleClose, TypeOK
    <3>4. server' \in Servers
      BY <2>3 DEF HandleClose, TypeOK, Servers, Contents
    <3> QED BY <1>6, <2>1, <2>3, <3>2, <3>3, <3>4 DEF Handle, HandleClose, TypeOK
  <2>4. CASE command.kind = "Request" /\ HandleRequest(command)
    <3>1. command.task \in Tasks
      BY <2>1, <2>4 DEF Commands
    <3>2. pending' \in SUBSET Tasks
      BY <2>4, <3>1 DEF HandleRequest, TypeOK
    <3> QED BY <1>6, <2>1, <2>4, <3>2 DEF Handle, HandleRequest, TypeOK
  <2>5. CASE HandleWritten
    BY <1>6, <2>1, <2>5 DEF Handle, HandleWritten, TypeOK
  <2> QED BY <1>6, <2>2, <2>3, <2>4, <2>5 DEF Handle
<1>7. CASE SendClose
  BY <1>7, Fixed, SendType DEF SendClose, Send, TypeOK
<1>8. CASE Discover
  <2>1. tasks' \in [Tasks -> TaskStates]
    BY <1>8, MovesType DEF Discover, Places
  <2>2. work' \in Works
    BY <1>8 DEF Discover, TypeOK, Works, Files
  <2> QED BY <1>8, <2>1, <2>2 DEF Discover, TypeOK
<1>9. CASE TakeJob
  <2>1. Head(jobs) \in Jobs /\ Tail(jobs) \in Seq(Jobs)
    BY <1>9, HeadTailProperties DEF TakeJob, TypeOK
  <2>2. work' \in Works
    BY <1>9, <2>1, PushType DEF TakeJob, TypeOK
  <2> QED BY <1>9, <2>1, <2>2 DEF TakeJob, TypeOK
<1>10. CASE Refresh
  <2>1. Head(work.queue) \in Jobs /\ Tail(work.queue) \in Seq(Jobs)
    BY <1>10, HeadTailProperties DEF Refresh, TypeOK, Works
  <2>2. work' \in Works
    BY <1>10, <2>1 DEF Refresh, Pop, TypeOK, Works
  <2>3. CASE Goes(Refresher, "read")
    <3>1. tasks' \in [Tasks -> TaskStates]
      BY <2>3, MovesType DEF Places
    <3> QED BY <1>10, <2>2, <3>1 DEF Refresh, TypeOK
  <2>4. CASE Head(work.queue).kind = "Barrier" /\ tasks' = [tasks EXCEPT ![Head(work.queue).call].at = IF @ = "barrier" THEN "done" ELSE @]
    <3>1. tasks' \in [Tasks -> TaskStates]
      BY <2>4, TaskChanges DEF TypeOK
    <3> QED BY <1>10, <2>2, <3>1 DEF Refresh, TypeOK
  <2> QED BY <1>10, <2>3, <2>4 DEF Refresh
<1>11. CASE Die
  <2>1. Task("discover") \in TaskStates
    BY DEF Task, TaskStates, Contents, Places
  <2>2. tasks' \in [Tasks -> TaskStates]
    BY <1>11, <2>1 DEF Die, TypeOK
  <2>3. /\ server' \in Servers
        /\ document' \in Documents
        /\ watched' \in Watches
        /\ work' \in Works
    <3>1. server' \in Servers
      BY <1>11 DEF Die, Contents, TypeOK, Servers
    <3>2. document' \in Documents /\ watched' \in Watches /\ work' \in Works
      BY <1>11, WatchingType DEF Die, NoDocument, NoWork, Contents, TypeOK, Documents, Works
    <3> QED BY <3>1, <3>2
  <2> QED BY <1>11, <2>2, <2>3 DEF Die, TypeOK
<1>12. CASE Spawn
  <2>0. server.number + 1 \in Nat
    BY DEF TypeOK, Servers
  <2>1. server' \in Servers
    BY <1>12, <2>0 DEF Spawn, Started, Contents, Servers
  <2>2. tasks' \in [Tasks -> TaskStates]
    BY <1>12, <2>0, TaskChanges DEF Spawn, TypeOK
  <2>3. watched' \in Watches
    BY <1>12, WatchingType DEF Spawn, TypeOK
  <2> QED BY <1>12, <2>1, <2>2, <2>3 DEF Spawn, TypeOK
<1>13. ASSUME NEW t \in Tasks, Read(t) PROVE TypeOK'
  <2>1. tasks' \in [Tasks -> TaskStates]
    <3>1. (IF file.exists THEN file.edit ELSE None) \in Contents /\ "reserve" \in Places
      BY DEF TypeOK, Files, Contents, Places
    <3> QED BY <1>13, <3>1, TaskChanges DEF Read, TypeOK
  <2> QED BY <1>13, <2>1 DEF Read, TypeOK
<1>14. ASSUME NEW t \in Tasks, AskOpen(t) PROVE TypeOK'
  <2>1. tasks[t].read \in Contents
    BY DEF TypeOK, TaskStates
  <2>2. commands' \in Seq(Commands)
    BY <1>14, <2>1, Fixed, SendType DEF AskOpen, Send
  <2>3. tasks' \in [Tasks -> TaskStates]
    BY <1>14, MovesType DEF AskOpen, Places
  <2> QED BY <1>14, <2>2, <2>3 DEF AskOpen, TypeOK
<1>15. ASSUME NEW t \in Tasks, Ask(t) PROVE TypeOK'
  <2>1. commands' \in Seq(Commands)
    BY <1>15, Fixed, SendType DEF Ask, Send, Contents
  <2>2. tasks' \in [Tasks -> TaskStates]
    BY <1>15, MovesType DEF Ask, Places
  <2> QED BY <1>15, <2>1, <2>2 DEF Ask, TypeOK
<1>16. ASSUME NEW t \in Tasks, AskAgain(t) PROVE TypeOK'
  <2>1. tasks' \in [Tasks -> TaskStates]
    BY <1>16, MovesType DEF AskAgain, Places
  <2> QED BY <1>16, <2>1 DEF AskAgain, TypeOK
<1>17. ASSUME NEW t \in Tasks, Refreshed(t) PROVE TypeOK'
  <2>1. commands' \in Seq(Commands) /\ closes' \in Nat
    BY <1>17, ReleaseType DEF Refreshed
  <2>2. Append(jobs, Job("Barrier", t)) \in Seq(Jobs)
    BY Fixed, JobType
  <2>3. tasks' \in [Tasks -> TaskStates] /\ jobs' \in Seq(Jobs)
    BY <1>17, <2>2, MovesType DEF Refreshed, Places, TypeOK
  <2> QED BY <1>17, <2>1, <2>3 DEF Refreshed, TypeOK
<1>18. ASSUME NEW c \in Calls, Call(c) PROVE TypeOK'
  <2>1. Append(jobs, Job("Workspace", c)) \in Seq(Jobs)
    BY Fixed, JobType
  <2>2. tasks' \in [Tasks -> TaskStates] /\ jobs' \in Seq(Jobs)
    BY <1>18, <2>1, BeginsType DEF Call, TypeOK
  <2> QED BY <1>18, <2>2 DEF Call, TypeOK
<1>19. ASSUME NEW c \in Calls, Retry(c) PROVE TypeOK'
  <2>1. tasks' \in [Tasks -> TaskStates]
    BY <1>19, BeginsType DEF Retry, CallKinds
  <2> QED BY <1>19, <2>1 DEF Retry, TypeOK
<1>20. ASSUME NEW c \in Calls, Answered(c) PROVE TypeOK'
  <2>1. commands' \in Seq(Commands) /\ closes' \in Nat
    BY <1>20, ReleaseType DEF Answered
  <2>2. tasks' \in [Tasks -> TaskStates]
    BY <1>20, MovesType DEF Answered, Places
  <2> QED BY <1>20, <2>1, <2>2 DEF Answered, TypeOK
<1>21. ASSUME NEW c \in Calls, Mark(c) PROVE TypeOK'
  <2>1. commands' \in Seq(Commands) /\ jobs' \in Seq(Jobs)
    BY <1>21, Fixed, SendType, JobType DEF Mark, Send
  <2>2. tasks' \in [Tasks -> TaskStates]
    BY <1>21, MovesType DEF Mark, Places
  <2> QED BY <1>21, <2>1, <2>2 DEF Mark, TypeOK
<1>22. ASSUME NEW c \in Calls, GiveUp(c) PROVE TypeOK'
  <2>1. commands' \in Seq(Commands) /\ closes' \in Nat
    BY <1>22, ReleaseType DEF GiveUp, TypeOK
  <2>2. tasks' \in [Tasks -> TaskStates]
    BY <1>22, MovesType DEF GiveUp, Places
  <2> QED BY <1>22, <2>1, <2>2 DEF GiveUp, TypeOK
<1>23. ASSUME NEW c \in Calls, FindClosed(c) PROVE TypeOK'
  <2>1. tasks' \in [Tasks -> TaskStates]
    BY <1>23, TaskChanges, ZenonT(60) DEF FindClosed, TypeOK, Places
  <2> QED BY <1>23, <2>1 DEF FindClosed, TypeOK
<1> QED BY <1>1, <1>2, <1>3, <1>4, <1>5, <1>6, <1>7, <1>8, <1>9, <1>10, <1>11, <1>12, <1>13, <1>14, <1>15, <1>16,
           <1>17, <1>18, <1>19, <1>20, <1>21, <1>22, <1>23 DEF Next

-----------------------------------------------------------------------------
(* The refresher, as its own commands and its place tell of it.             *)

R == tasks[Refresher]
Stays == R'.at = R.at /\ R'.read = R.read
OfRefresher(command) == command.kind = "Open" /\ command.task = Refresher

\* An open of the refresher that the actor has still to handle is the one it waits for.
OpeningInv ==
  /\ \A i \in DOMAIN commands : OfRefresher(commands[i]) => R.at = "opening" /\ commands[i].content = R.read
  /\ \A i, j \in DOMAIN commands : OfRefresher(commands[i]) /\ OfRefresher(commands[j]) => i = j

\* The server has the refresher's request only while the refresher waits for it.
AwaitedInv == Refresher \in pending => R.at = "awaiting"

\* What a document holds was given to the server.
GivenInv == document.holders > 0 => document.content \in Nat /\ document.content <= server.newest

\* What is said to be queued is.
QueuedInv == work.queued => \E i \in DOMAIN work.queue : work.queue[i].kind = "Uri"

\* Nothing is left of a session that is closed.
DeadInv ==
  ~server.alive =>
    commands = <<>> /\ closes = 0 /\ pending = {} /\ document.holders = 0 /\ R.at = "discover"

LEMMA Elsewhere ==
  ASSUME TypeOK, NEW c \in Calls
  PROVE  /\ c # Refresher
         /\ \A at : Goes(c, at) => Stays
         /\ \A kind : Begin(c, kind) => Stays
BY ConstantsAssumption DEF TypeOK, Goes, Begin, Stays, R, Tasks

LEMMA Moved ==
  ASSUME TypeOK, NEW at, Goes(Refresher, at)
  PROVE  R'.at = at /\ R'.read = R.read
BY DEF TypeOK, Goes, R, Tasks, TaskStates

\* Where the refresher leaves when it was to be answered.
LEMMA Leaves ==
  ASSUME TypeOK, Next
  PROVE  \/ Stays \/ R.at \notin {"opening", "awaiting"}
         \/ Handle \/ Die \/ AskAgain(Refresher) \/ Refreshed(Refresher)
<1>1. CASE UNCHANGED tasks
  BY <1>1 DEF Stays, R
<1>2. CASE Discover \/ Refresh
  BY <1>2 DEF Discover, Refresh, Idle, R
<1>3. CASE Spawn
  <2>1. tasks' = [tasks EXCEPT ![Refresher].session = server.number + 1] /\ tasks \in [Tasks -> TaskStates]
    BY <1>3 DEF Spawn, TypeOK
  <2>2. R' = [R EXCEPT !.session = server.number + 1] /\ R \in TaskStates
    BY <2>1, Fixed DEF R
  <2> QED BY <2>2 DEF Stays, TaskStates
<1>4. ASSUME NEW t \in Tasks, Read(t) \/ AskOpen(t) \/ Ask(t) \/ AskAgain(t) \/ Refreshed(t)
      PROVE  \/ Stays \/ R.at \notin {"opening", "awaiting"} \/ AskAgain(Refresher) \/ Refreshed(Refresher)
  <2>1. CASE t = Refresher
    BY <1>4, <2>1 DEF Read, AskOpen, Ask, R
  <2>2. CASE t \in Calls
    <3>1. CASE Read(t)
      BY <2>2, <3>1, Elsewhere DEF Read, Stays, R, TypeOK, Tasks
    <3>2. CASE AskOpen(t) \/ Ask(t) \/ AskAgain(t) \/ Refreshed(t)
      BY <2>2, <3>2, Elsewhere DEF AskOpen, Ask, AskAgain, Refreshed
    <3> QED BY <1>4, <3>1, <3>2
  <2> QED BY <2>1, <2>2 DEF Tasks
<1>5. ASSUME NEW c \in Calls, Call(c) \/ Retry(c) \/ Answered(c) \/ Mark(c) \/ GiveUp(c) \/ FindClosed(c)
      PROVE  Stays
  <2>1. CASE FindClosed(c)
    BY <1>5, <2>1, Elsewhere DEF FindClosed, Stays, R, TypeOK, Tasks
  <2>2. CASE Call(c) \/ Retry(c) \/ Answered(c) \/ Mark(c) \/ GiveUp(c)
    BY <1>5, <2>2, Elsewhere DEF Call, Retry, Answered, Mark, GiveUp
  <2> QED BY <1>5, <2>1, <2>2
<1> QED BY <1>1, <1>2, <1>3, <1>4, <1>5 DEF Next, Edit, Notice, Register, Forward, RefreshAsked, SendClose, TakeJob

-----------------------------------------------------------------------------
(* The opens of the refresher.                                              *)

LEMMA OpeningAppend ==
  ASSUME TypeOK, OpeningInv, NEW command \in Commands, ~OfRefresher(command),
         Stays \/ R.at # "opening",
         commands' = commands \/ commands' = Append(commands, command)
  PROVE  OpeningInv'
<1>1. \A i \in DOMAIN commands' :
         OfRefresher(commands'[i]) => i \in DOMAIN commands /\ commands'[i] = commands[i]
  BY DEF TypeOK
<1> QED BY <1>1 DEF OpeningInv, Stays

LEMMA OpeningTail ==
  ASSUME TypeOK, OpeningInv, commands # <<>>, commands' = Tail(commands),
         Stays \/ OfRefresher(Head(commands))
  PROVE  OpeningInv'
<1>1. \A i \in DOMAIN commands' : i + 1 \in DOMAIN commands /\ commands'[i] = commands[i + 1]
  BY DEF TypeOK
<1>2. 1 \in DOMAIN commands /\ Head(commands) = commands[1]
  BY DEF TypeOK
<1>3. CASE OfRefresher(Head(commands))
  <2>1. \A i \in DOMAIN commands' : ~OfRefresher(commands'[i])
    <3> SUFFICES ASSUME NEW i \in DOMAIN commands', OfRefresher(commands'[i]) PROVE FALSE
      OBVIOUS
    <3>1. i + 1 = 1
      BY <1>1, <1>2, <1>3 DEF OpeningInv
    <3>2. i \in Nat \ {0}
      BY DEF TypeOK
    <3> QED BY <3>1, <3>2
  <2> QED BY <2>1 DEF OpeningInv
<1>4. CASE ~OfRefresher(Head(commands))
  <2>1. \A i, j \in DOMAIN commands' : OfRefresher(commands'[i]) /\ OfRefresher(commands'[j]) => i = j
    <3> SUFFICES ASSUME NEW i \in DOMAIN commands', NEW j \in DOMAIN commands',
                        OfRefresher(commands'[i]), OfRefresher(commands'[j])
                 PROVE  i = j
      OBVIOUS
    <3>1. i + 1 = j + 1
      BY <1>1 DEF OpeningInv
    <3>2. i \in Nat /\ j \in Nat
      BY DEF TypeOK
    <3> QED BY <3>1, <3>2
  <2>2. \A i \in DOMAIN commands' : OfRefresher(commands'[i]) => R.at = "opening" /\ commands'[i].content = R.read
    BY <1>1 DEF OpeningInv
  <2> QED BY <1>4, <2>1, <2>2 DEF OpeningInv, Stays
<1> QED BY <1>3, <1>4

LEMMA Sends ==
  ASSUME TypeOK, Next, ~Handle, ~Die, ~AskOpen(Refresher)
  PROVE  \E command \in Commands :
           ~OfRefresher(command) /\ (commands' = commands \/ commands' = Append(commands, command))
<1>1. Close \in Commands /\ ~OfRefresher(Close)
  BY Fixed DEF OfRefresher, Close, Command
<1>2. CASE UNCHANGED commands
  BY <1>1, <1>2
<1>3. CASE SendClose
  BY <1>1, <1>3 DEF SendClose, Send
<1>4. CASE Release
  BY <1>1, <1>4 DEF Release
<1>5. ASSUME NEW c \in Calls, AskOpen(c) PROVE
    \E command \in Commands : ~OfRefresher(command) /\ commands' = Append(commands, command)
  <2> DEFINE command == Command("Open", c, tasks[c].read)
  <2>1. tasks[c].read \in Contents
    BY DEF TypeOK, TaskStates, Tasks
  <2>2. command \in Commands /\ ~OfRefresher(command)
    BY <2>1, Fixed, Elsewhere DEF OfRefresher, Command
  <2> QED BY <1>5, <2>2 DEF AskOpen, Send
<1>6. ASSUME NEW t \in Tasks, Ask(t) PROVE
    \E command \in Commands : ~OfRefresher(command) /\ commands' = Append(commands, command)
  <2> DEFINE command == Command("Request", t, None)
  <2>1. command \in Commands /\ ~OfRefresher(command)
    BY Fixed DEF OfRefresher, Command, Contents
  <2> QED BY <1>6, <2>1 DEF Ask, Send
<1>7. ASSUME NEW c \in Calls, Mark(c) PROVE
    \E command \in Commands : ~OfRefresher(command) /\ commands' = Append(commands, command)
  <2> DEFINE command == Command("MarkWritten", None, None)
  <2>1. command \in Commands /\ ~OfRefresher(command)
    BY Fixed DEF OfRefresher, Command
  <2> QED BY <1>7, <2>1 DEF Mark, Send
<1>8. ASSUME NEW t \in Tasks, Read(t) \/ AskOpen(t) \/ Ask(t) \/ AskAgain(t) \/ Refreshed(t)
      PROVE  UNCHANGED commands \/ Release \/ Ask(t) \/ (t \in Calls /\ AskOpen(t))
  BY <1>8 DEF Read, AskAgain, Refreshed, Tasks
<1>9. ASSUME NEW c \in Calls, Call(c) \/ Retry(c) \/ Answered(c) \/ Mark(c) \/ GiveUp(c) \/ FindClosed(c)
      PROVE  UNCHANGED commands \/ Release \/ Mark(c)
  BY <1>9 DEF Call, Retry, Answered, GiveUp, FindClosed
<1>10. \/ UNCHANGED commands \/ SendClose
       \/ \E t \in Tasks : Read(t) \/ AskOpen(t) \/ Ask(t) \/ AskAgain(t) \/ Refreshed(t)
       \/ \E c \in Calls : Call(c) \/ Retry(c) \/ Answered(c) \/ Mark(c) \/ GiveUp(c) \/ FindClosed(c)
  BY DEF Next, Edit, Notice, Register, Forward, RefreshAsked, Discover, TakeJob, Refresh, Spawn
<1> QED BY <1>2, <1>3, <1>4, <1>5, <1>6, <1>7, <1>8, <1>9, <1>10

LEMMA OpeningNext == TypeOK /\ OpeningInv /\ AwaitedInv /\ Next => OpeningInv'
<1> SUFFICES ASSUME TypeOK, OpeningInv, AwaitedInv, Next PROVE OpeningInv'
  OBVIOUS
<1>1. CASE Handle
  <2>1. commands # <<>> /\ commands' = Tail(commands)
    BY <1>1 DEF Handle
  <2>2. CASE Head(commands).kind = "Open" /\ HandleOpen(Head(commands))
    <3>1. CASE Head(commands).task = Refresher
      BY <2>1, <2>2, <3>1, OpeningTail DEF OfRefresher
    <3>2. CASE Head(commands).task # Refresher
      <4>1. Stays
        BY <2>2, <3>2 DEF HandleOpen, Reply, Stays, R, TypeOK, Tasks
      <4> QED BY <2>1, <4>1, OpeningTail
    <3> QED BY <3>1, <3>2
  <2>3. CASE UNCHANGED tasks
    BY <2>1, <2>3, OpeningTail DEF Stays, R
  <2> QED BY <1>1, <2>2, <2>3 DEF Handle, HandleClose, HandleRequest, HandleWritten
<1>2. CASE Die
  BY <1>2 DEF Die, OpeningInv
<1>3. CASE AskOpen(Refresher)
  <2> DEFINE command == Command("Open", Refresher, R.read)
  <2>1. commands' = Append(commands, command) /\ R.at = "reserve"
    BY <1>3 DEF AskOpen, Send, R
  <2>2. R'.at = "opening" /\ R'.read = R.read
    BY <1>3, Moved DEF AskOpen
  <2>3. \A i \in DOMAIN commands' :
          \/ i \in DOMAIN commands /\ commands'[i] = commands[i]
          \/ i = Len(commands) + 1 /\ commands'[i] = command
    BY <2>1 DEF TypeOK
  <2>4. \A i \in DOMAIN commands' : OfRefresher(commands'[i]) => i = Len(commands) + 1 /\ commands'[i] = command
    BY <2>1, <2>3 DEF OpeningInv
  <2> QED BY <2>2, <2>4 DEF OpeningInv, Command
<1>4. ASSUME ~Handle, ~Die, ~AskOpen(Refresher) PROVE OpeningInv'
  <2>1. Stays \/ R.at # "opening"
    BY <1>4, Leaves DEF AskAgain, Refreshed, AwaitedInv, R
  <2>2. PICK command \in Commands :
          ~OfRefresher(command) /\ (commands' = commands \/ commands' = Append(commands, command))
    BY <1>4, Sends
  <2> QED BY <2>1, <2>2, OpeningAppend
<1> QED BY <1>1, <1>2, <1>3, <1>4

-----------------------------------------------------------------------------
(* Its requests, what was given to the server, what is queued.              *)

LEMMA AwaitedNext == TypeOK /\ AwaitedInv /\ Next => AwaitedInv'
<1> SUFFICES ASSUME TypeOK, AwaitedInv, Next PROVE AwaitedInv'
  OBVIOUS
<1>1. CASE Die
  BY <1>1 DEF Die, AwaitedInv
<1>2. CASE AskAgain(Refresher) \/ Refreshed(Refresher)
  BY <1>2 DEF AskAgain, Refreshed, AwaitedInv
<1>3. CASE Handle
  <2>1. CASE Head(commands).kind = "Open" /\ HandleOpen(Head(commands))
    <3>1. Stays \/ R.at = "opening"
      BY <2>1 DEF HandleOpen, Reply, Stays, R, TypeOK, Tasks
    <3> QED BY <2>1, <3>1 DEF HandleOpen, AwaitedInv, Stays
  <2>2. CASE UNCHANGED <<pending, tasks>>
    BY <2>2 DEF AwaitedInv, R
  <2>3. CASE HandleRequest(Head(commands))
    BY <2>3 DEF HandleRequest, AwaitedInv, R
  <2> QED BY <1>3, <2>1, <2>2, <2>3 DEF Handle, HandleClose, HandleWritten
<1>4. ASSUME ~Die, ~Handle, ~AskAgain(Refresher), ~Refreshed(Refresher) PROVE AwaitedInv'
  <2>1. Stays \/ R.at # "awaiting"
    BY <1>4, Leaves
  <2>2. ASSUME NEW t \in Tasks, Read(t) \/ AskOpen(t) \/ Ask(t) \/ AskAgain(t) \/ Refreshed(t)
        PROVE  pending' \subseteq pending
    BY <2>2 DEF Read, AskOpen, Ask, AskAgain, Refreshed
  <2>3. ASSUME NEW c \in Calls, Call(c) \/ Retry(c) \/ Answered(c) \/ Mark(c) \/ GiveUp(c) \/ FindClosed(c)
        PROVE  pending' \subseteq pending
    BY <2>3 DEF Call, Retry, Answered, Mark, GiveUp, FindClosed
  <2>4. pending' \subseteq pending
    BY <1>4, <2>2, <2>3
       DEF Next, Edit, Notice, Register, Forward, RefreshAsked, SendClose, Discover, TakeJob, Refresh, Spawn
  <2> QED BY <2>1, <2>4 DEF AwaitedInv, Stays
<1> QED BY <1>1, <1>2, <1>3, <1>4

\* Only these change a document or the server.
LEMMA DocumentSteps ==
  Next => UNCHANGED <<document, server>> \/ Forward \/ Handle \/ Die \/ Spawn
<1> SUFFICES ASSUME Next PROVE UNCHANGED <<document, server>> \/ Forward \/ Handle \/ Die \/ Spawn
  OBVIOUS
<1>1. ASSUME NEW t \in Tasks, Read(t) \/ AskOpen(t) \/ Ask(t) \/ AskAgain(t) \/ Refreshed(t)
      PROVE  UNCHANGED <<document, server>>
  BY <1>1 DEF Read, AskOpen, Ask, AskAgain, Refreshed
<1>2. ASSUME NEW c \in Calls, Call(c) \/ Retry(c) \/ Answered(c) \/ Mark(c) \/ GiveUp(c) \/ FindClosed(c)
      PROVE  UNCHANGED <<document, server>>
  BY <1>2 DEF Call, Retry, Answered, Mark, GiveUp, FindClosed
<1> QED BY <1>1, <1>2 DEF Next, Edit, Notice, Register, RefreshAsked, SendClose, Discover, TakeJob, Refresh

\* Content that is opened reaches the server, whose newest content never gets older.
LEMMA Opened ==
  ASSUME TypeOK, GivenInv, NEW content \in Nat, OpenContent(content)
  PROVE  /\ server'.newest \in Nat /\ server'.newest >= content /\ server'.newest >= server.newest
         /\ document'.content = content
         /\ server'.alive = server.alive /\ server'.forgot = server.forgot
         /\ document'.needs_refresh = document.needs_refresh /\ document'.holders = document.holders + 1
<1>1. server.newest \in Nat /\ server \in Servers /\ document \in Documents /\ document.holders \in Nat
  BY DEF TypeOK, Servers, Documents
<1>2. /\ document'.content = content /\ document'.needs_refresh = document.needs_refresh
      /\ document'.holders = document.holders + 1
  BY <1>1 DEF OpenContent, Documents
<1>3. CASE document.holders = 0 \/ document.content # content
  BY <1>1, <1>2, <1>3 DEF OpenContent, Servers
<1>4. CASE document.holders # 0 /\ document.content = content
  BY <1>1, <1>2, <1>4 DEF OpenContent, GivenInv
<1> QED BY <1>3, <1>4

LEMMA GivenNext == TypeOK /\ GivenInv /\ DeadInv /\ Next => GivenInv'
<1> SUFFICES ASSUME TypeOK, GivenInv, DeadInv, Next PROVE GivenInv'
  OBVIOUS
<1>1. CASE UNCHANGED <<document, server>>
  BY <1>1 DEF GivenInv
<1>2. CASE Forward
  BY <1>2 DEF Forward, GivenInv, TypeOK, Documents
<1>3. CASE Die
  BY <1>3 DEF Die, NoDocument, GivenInv
<1>4. CASE Spawn
  BY <1>4 DEF Spawn, DeadInv, GivenInv
<1>5. CASE Handle
  <2>1. commands # <<>> /\ Head(commands) \in Commands
    BY <1>5, HeadTailProperties DEF Handle, TypeOK
  <2>2. CASE Head(commands).kind = "Open" /\ HandleOpen(Head(commands))
    <3> DEFINE content == Head(commands).content
    <3>1. CASE content = None
      BY <2>2, <3>1 DEF HandleOpen, OpenMissing, NoDocument, GivenInv
    <3>2. CASE content \in Nat
      BY <2>2, <3>2, Opened, ConstantsAssumption DEF HandleOpen, GivenInv
    <3> QED BY <2>1, <3>1, <3>2 DEF Commands, Contents
  <2>3. CASE HandleClose
    <3>1. document \in Documents /\ server \in Servers
      BY DEF TypeOK
    <3>2. server'.newest = server.newest
      BY <2>3, <3>1 DEF HandleClose, Servers
    <3>3. CASE document.holders = 0
      BY <2>3, <3>3 DEF HandleClose, GivenInv
    <3>4. CASE document.holders # 0
      <4>1. Released(document).content = document.content
        BY <3>1 DEF Released, Documents
      <4>2. document'.content = document.content
        BY <2>3, <3>1, <3>4, <4>1 DEF HandleClose, Released, Documents
      <4>3. document.holders > 0
        BY <3>1, <3>4 DEF Documents
      <4> QED BY <3>2, <4>2, <4>3 DEF GivenInv
    <3> QED BY <3>3, <3>4
  <2>4. CASE UNCHANGED <<document, server>>
    BY <2>4 DEF GivenInv
  <2> QED BY <1>5, <2>2, <2>3, <2>4 DEF Handle, HandleRequest, HandleWritten
<1> QED BY <1>1, <1>2, <1>3, <1>4, <1>5, DocumentSteps

\* Jobs of some kinds in a queue.
Has(queue, kinds) == \E i \in DOMAIN queue : queue[i].kind \in kinds

LEMMA HasAppend ==
  ASSUME NEW q \in Seq(Jobs), NEW job \in Jobs, NEW kinds
  PROVE  /\ Has(q, kinds) => Has(Append(q, job), kinds)
         /\ job.kind \in kinds => Has(Append(q, job), kinds)
<1>1. /\ Len(q) + 1 \in DOMAIN Append(q, job) /\ Append(q, job)[Len(q) + 1] = job
      /\ \A i \in DOMAIN q : i \in DOMAIN Append(q, job) /\ Append(q, job)[i] = q[i]
  OBVIOUS
<1> QED BY <1>1 DEF Has

LEMMA HasStill ==
  ASSUME NEW q \in Seq(Jobs), NEW job \in Jobs, NEW next, next = q \/ next = Append(q, job)
  PROVE  \A kinds : Has(q, kinds) => Has(next, kinds)
<1>1. CASE next = q
  BY <1>1
<1>2. CASE next = Append(q, job)
  BY <1>2, HasAppend
<1> QED BY <1>1, <1>2

LEMMA HasTail ==
  ASSUME NEW q \in Seq(Jobs), q # <<>>, NEW kinds, Head(q).kind \notin kinds, Has(q, kinds)
  PROVE  Has(Tail(q), kinds)
<1>1. PICK i \in DOMAIN q : q[i].kind \in kinds
  BY DEF Has
<1>2. i # 1 /\ i \in 1..Len(q)
  BY <1>1
<1>3. i - 1 \in DOMAIN Tail(q) /\ Tail(q)[i - 1] = q[i]
  BY <1>2
<1> QED BY <1>1, <1>3 DEF Has

\* A file that is queued, or stale, stays so or is queued when a job is taken in.
Coming(w) == w.stale \/ Has(w.queue, {"Uri"})
Honest(w) == w.queued => Has(w.queue, {"Uri"})

LEMMA Enqueued ==
  ASSUME NEW w \in Works, Honest(w)
  PROVE  Enqueue(w) \in Works /\ Honest(Enqueue(w)) /\ Has(Enqueue(w).queue, {"Uri"})
<1>1. Job("Uri", None) \in Jobs /\ Job("Uri", None).kind = "Uri"
  BY Fixed DEF Job
<1>2. Has(Append(w.queue, Job("Uri", None)), {"Uri"})
  BY <1>1, HasAppend DEF Works
<1>3. Enqueue(w).queue = IF w.queued THEN w.queue ELSE Append(w.queue, Job("Uri", None))
  BY DEF Enqueue, Works
<1>4. Has(Enqueue(w).queue, {"Uri"})
  BY <1>2, <1>3 DEF Honest
<1> QED BY <1>4, EnqueueType DEF Honest

LEMMA Pushed ==
  ASSUME NEW w \in Works, NEW job \in Jobs, Honest(w)
  PROVE  /\ Honest(Push(w, job))
         /\ Coming(w) => Coming(Push(w, job))
         /\ job.kind \in {"Stale", "Uri"} => Coming(Push(w, job))
<1>1. CASE job.kind = "Uri"
  BY <1>1, Enqueued DEF Push, Coming
<1>2. CASE job.kind = "Stale"
  BY <1>2 DEF Push, Coming, Honest, Works
<1>3. CASE job.kind = "Barrier"
  <2>1. Push(w, job) = [w EXCEPT !.queue = Append(@, job)]
    BY <1>3 DEF Push
  <2>2. Has(w.queue, {"Uri"}) => Has(Append(w.queue, job), {"Uri"})
    BY HasAppend DEF Works
  <2> QED BY <1>3, <2>1, <2>2 DEF Coming, Honest, Works
<1>4. CASE job.kind = "Workspace"
  <2> DEFINE v == IF w.stale THEN Enqueue(w) ELSE w
             barrier == Job("Barrier", job.call)
  <2>1. v \in Works /\ Honest(v) /\ (Coming(w) => Coming(v))
    BY Enqueued DEF Coming
  <2>2. barrier \in Jobs
    BY Fixed DEF Jobs
  <2>3. Push(w, job) = [v EXCEPT !.queue = Append(@, barrier)]
    BY <1>4 DEF Push
  <2> HIDE DEF v, barrier
  <2>4. Has(v.queue, {"Uri"}) => Has(Append(v.queue, barrier), {"Uri"})
    BY <2>1, <2>2, HasAppend DEF Works
  <2> QED BY <1>4, <2>1, <2>3, <2>4 DEF Coming, Honest, Works
<1> QED BY <1>1, <1>2, <1>3, <1>4 DEF Jobs

LEMMA QueuedIsHonest == QueuedInv <=> Honest(work)
BY DEF QueuedInv, Honest, Has

LEMMA QueuedNext == TypeOK /\ QueuedInv /\ Next => QueuedInv'
<1> SUFFICES ASSUME TypeOK, QueuedInv, Next PROVE QueuedInv'
  OBVIOUS
<1>1. work \in Works
  BY DEF TypeOK
<1>2. CASE UNCHANGED work
  BY <1>2 DEF QueuedInv
<1>3. CASE Discover
  BY <1>1, <1>3 DEF Discover, QueuedInv, Works
<1>4. CASE TakeJob
  <2>1. Head(jobs) \in Jobs
    BY <1>4, HeadTailProperties DEF TakeJob, TypeOK
  <2>2. Honest(Push(work, Head(jobs)))
    BY <1>1, <2>1, Pushed, QueuedIsHonest
  <2> QED BY <1>4, <2>2 DEF TakeJob, QueuedInv, Honest, Has
<1>5. CASE Refresh
  <2>1. work' = Pop(work) /\ work.queue # <<>> /\ work.queue \in Seq(Jobs)
    BY <1>1, <1>5 DEF Refresh, Works
  <2>2. work'.queue = Tail(work.queue) /\ work'.queued = (work.queued /\ Head(work.queue).kind # "Uri")
    BY <1>1, <2>1 DEF Pop, Works
  <2>3. ASSUME work'.queued PROVE Has(work'.queue, {"Uri"})
    BY <2>1, <2>2, <2>3, HasTail, QueuedIsHonest DEF Honest
  <2> QED BY <2>3 DEF QueuedInv, Has
<1>6. CASE Die
  BY <1>6 DEF Die, NoWork, QueuedInv
<1>7. ASSUME NEW t \in Tasks, Read(t) \/ AskOpen(t) \/ Ask(t) \/ AskAgain(t) \/ Refreshed(t)
      PROVE  UNCHANGED work
  BY <1>7 DEF Read, AskOpen, Ask, AskAgain, Refreshed
<1>8. ASSUME NEW c \in Calls, Call(c) \/ Retry(c) \/ Answered(c) \/ Mark(c) \/ GiveUp(c) \/ FindClosed(c)
      PROVE  UNCHANGED work
  BY <1>8 DEF Call, Retry, Answered, Mark, GiveUp, FindClosed
<1> QED BY <1>2, <1>3, <1>4, <1>5, <1>6, <1>7, <1>8
        DEF Next, Edit, Notice, Register, Forward, RefreshAsked, Handle, SendClose, Spawn

-----------------------------------------------------------------------------
(* A session that is closed.                                                *)

Closed == commands = <<>> /\ closes = 0 /\ pending = {} /\ document.holders = 0 /\ R.at = "discover"

LEMMA DeadNext == TypeOK /\ DeadInv /\ Next => DeadInv'
<1> SUFFICES ASSUME TypeOK, DeadInv, Next PROVE DeadInv'
  OBVIOUS
<1>1. CASE Die
  <2>1. R' = Task("discover")
    BY <1>1 DEF Die, R, TypeOK, Tasks
  <2> QED BY <1>1, <2>1 DEF Die, NoDocument, DeadInv, Task
<1>2. CASE Spawn
  BY <1>2 DEF Spawn, Started, DeadInv
<1>3. CASE server.alive /\ ~Die /\ ~Spawn
  <2>1. server'.alive = server.alive
    <3>1. server \in Servers
      BY DEF TypeOK
    <3>2. CASE Handle
      BY <3>1, <3>2 DEF Handle, HandleOpen, OpenMissing, OpenContent, HandleClose, HandleRequest, HandleWritten, Servers
    <3>3. CASE UNCHANGED server
      BY <3>3
    <3> QED BY <1>3, <3>2, <3>3, DocumentSteps DEF Forward
  <2> QED BY <1>3, <2>1 DEF DeadInv
<1>4. CASE ~server.alive /\ ~Die /\ ~Spawn
  <2>1. Closed
    BY <1>4 DEF DeadInv, Closed
  <2>2. CASE UNCHANGED <<commands, closes, pending, document, tasks>>
    BY <2>1, <2>2 DEF Closed, DeadInv, R
  <2>3. CASE Forward
    <3>1. document'.holders = 0
      BY <2>1, <2>3 DEF Forward, Closed, TypeOK, Documents
    <3> QED BY <2>1, <2>3, <3>1 DEF Forward, Closed, DeadInv, R
  <2>4. ~Handle /\ ~SendClose /\ ~Discover /\ ~TakeJob /\ ~Refresh /\ ~RefreshAsked
    BY <1>4, <2>1 DEF Closed, Handle, SendClose, Discover, TakeJob, Refresh, Idle, RefreshAsked
  <2>5. ASSUME NEW t \in Tasks, Read(t) \/ AskOpen(t) \/ Ask(t) \/ AskAgain(t) \/ Refreshed(t)
        PROVE  UNCHANGED <<commands, closes, pending, document>> /\ Stays
    <3>1. ~AskOpen(t) /\ ~Ask(t) /\ ~AskAgain(t) /\ ~Refreshed(t)
      BY <1>4, <2>1 DEF AskOpen, Ask, AskAgain, Refreshed, Attached, Closed
    <3>2. t # Refresher
      BY <2>1, <2>5, <3>1 DEF Read, Closed, R
    <3> QED BY <2>5, <3>1, <3>2 DEF Read, Stays, R, TypeOK, Tasks
  <2>6. ASSUME NEW c \in Calls, Call(c) \/ Retry(c) \/ Answered(c) \/ Mark(c) \/ GiveUp(c) \/ FindClosed(c)
        PROVE  UNCHANGED <<commands, closes, pending, document>> /\ Stays
    <3>1. FindClosed(c)
      BY <1>4, <2>1, <2>6 DEF Call, Retry, Answered, Mark, GiveUp, Attached, Closed
    <3> QED BY <3>1, Elsewhere DEF FindClosed, Stays, R, TypeOK, Tasks
  <2>7. ASSUME UNCHANGED <<commands, closes, pending, document>>, Stays PROVE DeadInv'
    BY <2>1, <2>7 DEF Closed, DeadInv, Stays
  <2> QED BY <1>4, <2>2, <2>3, <2>4, <2>5, <2>6, <2>7 DEF Next, Edit, Notice, Register
<1> QED BY <1>1, <1>2, <1>3, <1>4

-----------------------------------------------------------------------------
(* The edits that are to reach the server.                                  *)

\* They are edits that were made, to a file that is still there.
DueInv == watched.due # {} => file.exists /\ \A edit \in watched.due : edit <= file.edit

\* Only these change the file or what the watcher knows of it.
LEMMA WatchSteps ==
  Next => UNCHANGED <<file, watched>> \/ Edit \/ Notice \/ Register \/ Forward \/ Die \/ Spawn
<1> SUFFICES ASSUME Next PROVE UNCHANGED <<file, watched>> \/ Edit \/ Notice \/ Register \/ Forward \/ Die \/ Spawn
  OBVIOUS
<1>1. ASSUME NEW t \in Tasks, Read(t) \/ AskOpen(t) \/ Ask(t) \/ AskAgain(t) \/ Refreshed(t)
      PROVE  UNCHANGED <<file, watched>>
  BY <1>1 DEF Read, AskOpen, Ask, AskAgain, Refreshed
<1>2. ASSUME NEW c \in Calls, Call(c) \/ Retry(c) \/ Answered(c) \/ Mark(c) \/ GiveUp(c) \/ FindClosed(c)
      PROVE  UNCHANGED <<file, watched>>
  BY <1>2 DEF Call, Retry, Answered, Mark, GiveUp, FindClosed
<1> QED BY <1>1, <1>2 DEF Next, RefreshAsked, Handle, SendClose, Discover, TakeJob, Refresh

LEMMA DueNext == TypeOK /\ DueInv /\ Next => DueInv'
<1> SUFFICES ASSUME TypeOK, DueInv, Next PROVE DueInv'
  OBVIOUS
<1>0. file \in Files /\ watched \in Watches /\ file.edit \in Nat /\ watched.due \subseteq Nat
  BY DEF TypeOK, Files, Watches
<1>1. CASE file' = file /\ watched'.due \subseteq watched.due
  BY <1>1 DEF DueInv
<1>2. CASE Edit
  <2>1. PICK exists \in BOOLEAN, kind \in EventKinds \cup {None} :
          /\ file' = [file EXCEPT !.edit = @ + 1, !.exists = exists]
          /\ watched' = [watched EXCEPT
               !.events = IF kind = None THEN @ ELSE Append(@, [kind |-> kind, edit |-> file.edit + 1]),
               !.due = IF ~exists THEN {} ELSE IF kind = None THEN @ ELSE @ \cup {file.edit + 1}]
    BY <1>2 DEF Edit
  <2>2. file'.edit = file.edit + 1 /\ file'.exists = exists
    BY <1>0, <2>1 DEF Files
  <2>3. watched'.due = IF ~exists THEN {} ELSE IF kind = None THEN watched.due ELSE watched.due \cup {file.edit + 1}
    BY <1>0, <2>1 DEF Watches
  <2>4. \A edit \in watched'.due : exists /\ edit <= file.edit + 1
    BY <1>0, <2>3 DEF DueInv
  <2> QED BY <2>2, <2>4 DEF DueInv
<1>3. CASE Notice
  <2>1. watched'.due \subseteq watched.due
    BY <1>0, <1>3 DEF Notice, Watches
  <2> QED BY <1>1, <1>3, <2>1 DEF Notice
<1>4. CASE Register \/ Forward
  <2>1. watched'.due = watched.due
    BY <1>0, <1>4 DEF Register, Forward, Watches
  <2> QED BY <1>1, <1>4, <2>1 DEF Register, Forward
<1>5. CASE Die
  <2>1. watched'.due = {}
    BY <1>5 DEF Die, Unwatched
  <2> QED BY <2>1 DEF DueInv
<1>6. CASE Spawn
  <2>1. watched'.due = (IF file.exists /\ file.location = "tracked" THEN {file.edit} ELSE {}) /\ file' = file
    BY <1>6 DEF Spawn, Watching, Unwatched
  <2> QED BY <1>0, <2>1 DEF DueInv
<1> QED BY <1>1, <1>2, <1>3, <1>4, <1>5, <1>6, WatchSteps

-----------------------------------------------------------------------------
(* A change on its way.                                                     *)

Wanted(edit) ==
  server.alive /\ Refreshable /\ ~server.forgot /\ edit \in watched.due /\ server.newest < edit

PutOff == document.holders > 0 /\ document.needs_refresh
Reported(edit) == \E i \in DOMAIN watched.events : watched.events[i].edit = edit
Current(edit) ==
  \/ R.at = "read"
  \/ R.at \in {"reserve", "opening"} /\ R.read # None /\ R.read >= edit
Undiscovered == R.at = "discover" /\ file.location = "tracked"

OnItsWay(edit) ==
  \/ Reported(edit) \/ watched.noticed # {}
  \/ Has(jobs, {"Stale", "Uri"}) \/ Coming(work) \/ PutOff
  \/ Undiscovered \/ Current(edit)

LEMMA LostIsOnItsWay == NoChangeIsLost <=> \A edit : Wanted(edit) => OnItsWay(edit)
BY DEF NoChangeIsLost, Wanted, OnItsWay, PutOff, Current, Reported, Undiscovered, Opens, Coming, Has, R

LEMMA LostSteps ==
  ASSUME \A edit : Wanted(edit)' => OnItsWay(edit)'
  PROVE  NoChangeIsLost'
BY DEF NoChangeIsLost, Wanted, OnItsWay, PutOff, Current, Reported, Undiscovered, Opens, Coming, Has, R

\* What is wanted of a file that can be refreshed is marked stale.
LEMMA Marked ==
  ASSUME TypeOK
  PROVE  /\ MarkStale = jobs \/ MarkStale = Append(jobs, Stale)
         /\ Has(jobs, {"Stale", "Uri"}) => Has(MarkStale, {"Stale", "Uri"})
         /\ Refreshable => Has(MarkStale, {"Stale", "Uri"})
<1>1. Stale \in Jobs /\ Stale.kind = "Stale" /\ jobs \in Seq(Jobs)
  BY Fixed DEF Stale, Job, TypeOK
<1>2. Has(Append(jobs, Stale), {"Stale", "Uri"})
  BY <1>1, HasAppend
<1> QED BY <1>2 DEF MarkStale

\* What leaves the file, the server, the document and the queues alone, and the refresher where it was
\* or off with nothing to open.
LEMMA WayKept ==
  ASSUME NEW edit, Wanted(edit) => OnItsWay(edit), UNCHANGED <<file, server, document, watched, work>>,
         Has(jobs, {"Stale", "Uri"}) => Has(jobs', {"Stale", "Uri"}),
         Stays \/ R.at \in {"idle", "opened", "awaiting"},
         Wanted(edit)'
  PROVE  OnItsWay(edit)'
<1>1. Wanted(edit)
  BY DEF Wanted, Refreshable
<1> QED BY <1>1 DEF OnItsWay, PutOff, Current, Reported, Undiscovered, Coming, Stays

LEMMA LostHandle ==
  ASSUME TypeOK, OpeningInv, GivenInv, Handle, NEW edit, Wanted(edit) => OnItsWay(edit), Wanted(edit)'
  PROVE  OnItsWay(edit)'
<1> DEFINE command == Head(commands)
<1>1. /\ command \in Commands /\ commands # <<>> /\ UNCHANGED <<file, watched, work>>
      /\ command = commands[1] /\ 1 \in DOMAIN commands
  BY HeadTailProperties DEF Handle, TypeOK
<1>2. /\ server \in Servers /\ document \in Documents /\ server.newest \in Nat
      /\ edit \in Nat /\ R.read \in Contents
  <2>1. edit \in watched'.due /\ watched' = watched /\ watched.due \subseteq Nat
    BY <1>1 DEF Wanted, TypeOK, Watches
  <2>2. R.read \in Contents
    BY Fixed DEF R, TypeOK, TaskStates
  <2> QED BY <2>1, <2>2 DEF TypeOK, Servers
<1>3. CASE command.kind = "Open" /\ HandleOpen(command) /\ command.content = None
  <2>1. /\ server' = [server EXCEPT !.missed = TRUE, !.forgot = @ \/ document.needs_refresh]
        /\ jobs' = jobs /\ tasks' = Reply(command.task, "opened")
    BY <1>3 DEF HandleOpen, OpenMissing
  <2>2. Wanted(edit) /\ ~PutOff
    BY <1>1, <1>2, <2>1 DEF Wanted, Refreshable, PutOff, Servers
  <2>3. Stays \/ ~Current(edit)
    <3>1. CASE command.task = Refresher
      <4>1. R.at = "opening" /\ R.read = None
        BY <1>1, <1>3, <3>1 DEF OpeningInv, OfRefresher
      <4> QED BY <4>1 DEF Current
    <3>2. CASE command.task # Refresher
      BY <2>1, <3>2 DEF Reply, Stays, R, TypeOK, Tasks
    <3> QED BY <3>1, <3>2
  <2>4. Stays \/ R.at # "discover"
    BY <2>1 DEF Reply, Stays, R, TypeOK, Tasks
  <2> QED BY <1>1, <2>1, <2>2, <2>3, <2>4 DEF OnItsWay, Current, Reported, Undiscovered, Stays, Coming
<1>4. CASE command.kind = "Open" /\ HandleOpen(command) /\ command.content \in Nat
  <2>1. OpenContent(command.content) /\ jobs' = jobs /\ tasks' = Reply(command.task, "opened")
    BY <1>4, ConstantsAssumption DEF HandleOpen
  <2>2. /\ server'.newest \in Nat /\ server'.newest >= command.content /\ server'.newest >= server.newest
        /\ server'.alive = server.alive /\ server'.forgot = server.forgot
        /\ document'.needs_refresh = document.needs_refresh /\ document'.holders = document.holders + 1
    BY <1>4, <2>1, Opened
  <2>3. Wanted(edit) /\ server'.newest < edit
    BY <1>1, <1>2, <2>2 DEF Wanted, Refreshable
  <2>4. PutOff => PutOff'
    BY <1>2, <2>2 DEF PutOff, Documents
  <2>5. ASSUME Current(edit) PROVE Stays
    <3>1. CASE command.task = Refresher
      <4>1. R.at = "opening" /\ R.read = command.content
        BY <1>1, <1>4, <3>1 DEF OpeningInv, OfRefresher
      <4>2. command.content >= edit
        BY <2>5, <4>1 DEF Current
      <4> QED BY <1>2, <1>4, <2>2, <2>3, <4>2
    <3>2. CASE command.task # Refresher
      BY <2>1, <3>2 DEF Reply, Stays, R, TypeOK, Tasks
    <3> QED BY <3>1, <3>2
  <2>6. Stays \/ R.at # "discover"
    BY <2>1 DEF Reply, Stays, R, TypeOK, Tasks
  <2> QED BY <1>1, <2>1, <2>3, <2>4, <2>5, <2>6 DEF OnItsWay, Current, Reported, Undiscovered, Stays, Coming
<1>5. CASE HandleClose
  <2>1. tasks' = tasks /\ server' \in {server, [server EXCEPT !.open = None]}
    BY <1>5 DEF HandleClose
  <2>2. Wanted(edit)
    BY <1>1, <1>2, <2>1 DEF Wanted, Refreshable, Servers
  <2>3. Has(jobs, {"Stale", "Uri"}) => Has(jobs', {"Stale", "Uri"})
    BY <1>5, Marked DEF HandleClose
  <2>4. PutOff => PutOff' \/ Has(jobs', {"Stale", "Uri"})
    <3>1. CASE document.holders = 0
      BY <3>1 DEF PutOff
    <3>2. CASE document.holders # 0 /\ Released(document).holders > 0
      BY <1>2, <1>5, <3>2 DEF HandleClose, PutOff, Released, Documents
    <3>3. CASE document.holders # 0 /\ ~(Released(document).holders > 0)
      <4>1. document.needs_refresh => jobs' = MarkStale
        BY <1>5, <3>3 DEF HandleClose
      <4>2. Refreshable
        BY <2>2 DEF Wanted
      <4> QED BY <4>1, <4>2, Marked DEF PutOff
    <3> QED BY <3>1, <3>2, <3>3
  <2> QED BY <1>1, <2>1, <2>2, <2>3, <2>4 DEF OnItsWay, Current, Reported, Undiscovered, Coming, R
<1>6. CASE HandleRequest(command) \/ HandleWritten
  <2>1. UNCHANGED <<document, server, jobs, tasks>>
    BY <1>6 DEF HandleRequest, HandleWritten
  <2> QED BY <1>1, <2>1, WayKept DEF Stays, R
<1>7. command.content = None \/ command.content \in Nat
  BY <1>1 DEF Commands, Contents
<1> QED BY <1>3, <1>4, <1>5, <1>6, <1>7 DEF Handle

LEMMA LostNext ==
  ASSUME TypeOK, OpeningInv, AwaitedInv, GivenInv, QueuedInv, DeadInv, DueInv, NoChangeIsLost, Next
  PROVE  NoChangeIsLost'
<1> SUFFICES ASSUME NEW edit, Wanted(edit)' PROVE OnItsWay(edit)'
  BY LostSteps
<1>w. Wanted(edit) => OnItsWay(edit)
  BY LostIsOnItsWay
<1>0. /\ file \in Files /\ server \in Servers /\ document \in Documents /\ watched \in Watches
      /\ jobs \in Seq(Jobs) /\ work \in Works /\ tasks \in [Tasks -> TaskStates] /\ R \in TaskStates
  BY Fixed DEF TypeOK, R
<1>1. CASE Edit
  <2>1. PICK exists \in BOOLEAN, kind \in EventKinds \cup {None} :
          /\ file' = [file EXCEPT !.edit = @ + 1, !.exists = exists]
          /\ watched' = [watched EXCEPT
               !.events = IF kind = None THEN @ ELSE Append(@, [kind |-> kind, edit |-> file.edit + 1]),
               !.due = IF ~exists THEN {} ELSE IF kind = None THEN @ ELSE @ \cup {file.edit + 1}]
    BY <1>1 DEF Edit
  <2>2. watched'.due = IF ~exists THEN {} ELSE IF kind = None THEN watched.due ELSE watched.due \cup {file.edit + 1}
    BY <1>0, <2>1 DEF Watches
  <2>3. /\ watched'.events =
             IF kind = None THEN watched.events ELSE Append(watched.events, [kind |-> kind, edit |-> file.edit + 1])
        /\ watched'.noticed = watched.noticed /\ watched.events \in Seq(Events)
    BY <1>0, <2>1 DEF Watches
  <2>4. CASE edit = file.edit + 1 /\ kind # None
    <3> DEFINE event == [kind |-> kind, edit |-> file.edit + 1]
    <3>1. watched'.events = Append(watched.events, event) /\ event.edit = edit
      BY <2>3, <2>4
    <3> HIDE DEF event
    <3>2. /\ Len(watched.events) + 1 \in DOMAIN Append(watched.events, event)
          /\ Append(watched.events, event)[Len(watched.events) + 1] = event
      BY <2>3
    <3> QED BY <3>1, <3>2 DEF OnItsWay, Reported
  <2>5. CASE edit \in watched.due
    <3>1. file'.location = file.location
      BY <1>0, <2>1 DEF Files
    <3>2. Wanted(edit)
      BY <1>1, <2>5, <3>1 DEF Edit, Wanted, Refreshable
    <3>3. Reported(edit) => Reported(edit)'
      <4> SUFFICES ASSUME NEW i \in DOMAIN watched.events, watched.events[i].edit = edit PROVE Reported(edit)'
        BY DEF Reported
      <4>1. i \in DOMAIN watched'.events /\ watched'.events[i] = watched.events[i]
        BY <2>3
      <4> QED BY <4>1 DEF Reported
    <3> QED BY <1>1, <1>w, <2>3, <3>1, <3>2, <3>3 DEF Edit, OnItsWay, Current, Undiscovered, Coming, PutOff, R
  <2>6. (edit = file.edit + 1 /\ kind # None) \/ edit \in watched.due
    BY <2>2 DEF Wanted
  <2> QED BY <2>4, <2>5, <2>6
<1>2. CASE Notice
  <2> DEFINE event == Head(watched.events)
  <2>1. CASE Relevant(event)
    <3>1. watched'.noticed # {}
      BY <1>0, <1>2, <2>1 DEF Notice, Watches
    <3> QED BY <3>1 DEF OnItsWay
  <2>2. CASE ~Relevant(event)
    <3>1. /\ watched'.due = watched.due \ {event.edit} /\ watched'.events = Tail(watched.events)
          /\ watched'.noticed = watched.noticed /\ watched.events # <<>> /\ watched.events \in Seq(Events)
      BY <1>0, <1>2, <2>2 DEF Notice, Watches
    <3>2. Wanted(edit) /\ edit # event.edit
      BY <1>2, <3>1 DEF Notice, Wanted, Refreshable
    <3>3. Reported(edit) => Reported(edit)'
      <4> SUFFICES ASSUME NEW i \in DOMAIN watched.events, watched.events[i].edit = edit PROVE Reported(edit)'
        BY DEF Reported
      <4>1. i \in 1..Len(watched.events) /\ i # 1
        BY <3>1, <3>2
      <4>2. i - 1 \in DOMAIN Tail(watched.events) /\ Tail(watched.events)[i - 1] = watched.events[i]
        BY <3>1, <4>1
      <4> QED BY <3>1, <4>2 DEF Reported
    <3> QED BY <1>2, <1>w, <3>1, <3>2, <3>3 DEF Notice, OnItsWay, Current, Undiscovered, Coming, PutOff, R
  <2> QED BY <2>1, <2>2
<1>3. CASE Register
  <2>1. watched'.events = watched.events /\ watched'.noticed = watched.noticed /\ watched'.due = watched.due
    BY <1>0, <1>3 DEF Register, Watches
  <2>2. Wanted(edit)
    BY <1>3, <2>1 DEF Register, Wanted, Refreshable
  <2> QED BY <1>3, <1>w, <2>1, <2>2 DEF Register, OnItsWay, Reported, Undiscovered, Coming, PutOff, Current, R
<1>4. CASE Forward
  <2>0. Refreshable
    BY <1>4 DEF Forward, Wanted, Refreshable
  <2>1. CASE "changed" \in watched.noticed /\ document.holders > 0
    <3>1. PutOff'
      BY <1>0, <1>4, <2>1 DEF Forward, PutOff, Documents
    <3> QED BY <3>1 DEF OnItsWay
  <2>2. CASE ~("changed" \in watched.noticed /\ document.holders > 0)
    <3>1. jobs' = MarkStale
      BY <1>4, <2>2 DEF Forward
    <3> QED BY <2>0, <3>1, Marked DEF OnItsWay
  <2> QED BY <2>1, <2>2
<1>5. CASE RefreshAsked
  <2>1. jobs' = MarkStale /\ Refreshable
    BY <1>5 DEF RefreshAsked, Wanted, Refreshable
  <2> QED BY <2>1, Marked DEF OnItsWay
<1>6. CASE Handle
  BY <1>6, <1>w, LostHandle
<1>7. CASE SendClose
  BY <1>7, <1>w, WayKept DEF SendClose, Stays, R
<1>8. CASE Discover
  <2>1. Wanted(edit) /\ file.exists /\ R.at = "discover"
    BY <1>8 DEF Discover, Wanted, Refreshable, DueInv, R
  <2>2. work'.stale = (work.stale \/ (file.exists /\ file.location = "tracked")) /\ work'.queue = work.queue
    BY <1>0, <1>8 DEF Discover, Works
  <2>3. CASE Undiscovered
    BY <2>1, <2>2, <2>3 DEF OnItsWay, Undiscovered, Coming
  <2>4. CASE ~Undiscovered
    BY <1>8, <1>w, <2>1, <2>2, <2>4 DEF Discover, OnItsWay, Reported, Current, PutOff, Coming
  <2> QED BY <2>3, <2>4
<1>9. CASE TakeJob
  <2> DEFINE job == Head(jobs)
  <2>1. job \in Jobs /\ jobs # <<>> /\ jobs' = Tail(jobs) /\ work' = Push(work, job)
    BY <1>0, <1>9, HeadTailProperties DEF TakeJob
  <2>2. Honest(work)
    BY QueuedIsHonest
  <2>3. (Coming(work) => Coming(work')) /\ (job.kind \in {"Stale", "Uri"} => Coming(work'))
    BY <1>0, <2>1, <2>2, Pushed
  <2>4. Has(jobs, {"Stale", "Uri"}) => job.kind \in {"Stale", "Uri"} \/ Has(jobs', {"Stale", "Uri"})
    BY <1>0, <2>1, HasTail
  <2>5. Wanted(edit)
    BY <1>9 DEF TakeJob, Wanted, Refreshable
  <2> QED BY <1>9, <1>w, <2>3, <2>4, <2>5 DEF TakeJob, OnItsWay, Reported, Undiscovered, PutOff, Current, R
<1>10. CASE Refresh
  <2>1. work.queue # <<>> /\ work.queue \in Seq(Jobs) /\ R.at = "idle"
    BY <1>0, <1>10 DEF Refresh, Works, Idle, R
  <2>2. CASE Head(work.queue).kind = "Uri" /\ Goes(Refresher, "read")
    <3>1. R'.at = "read"
      BY <2>2, Moved
    <3> QED BY <3>1 DEF OnItsWay, Current
  <2>3. CASE Head(work.queue).kind = "Barrier"
    <3>1. work'.queue = Tail(work.queue) /\ work'.stale = work.stale
      BY <1>0, <1>10 DEF Refresh, Pop, Works
    <3>2. Coming(work) => Coming(work')
      BY <2>1, <2>3, <3>1, HasTail DEF Coming
    <3>3. Wanted(edit)
      BY <1>10 DEF Refresh, Wanted, Refreshable
    <3> QED BY <1>10, <1>w, <2>1, <3>2, <3>3 DEF Refresh, OnItsWay, Reported, Undiscovered, PutOff, Current
  <2> QED BY <1>10, <2>2, <2>3 DEF Refresh
<1>11. CASE Die
  <2>1. ~server'.alive
    BY <1>0, <1>11 DEF Die, Servers
  <2> QED BY <2>1 DEF Wanted
<1>12. CASE Spawn
  <2>1. R.at = "discover"
    BY <1>12 DEF Spawn, DeadInv
  <2>2. R' = [R EXCEPT !.session = server.number + 1]
    BY <1>0, <1>12, Fixed DEF Spawn, R
  <2>3. R'.at = "discover"
    BY <1>0, <2>1, <2>2 DEF TaskStates
  <2>4. watched'.due = (IF file.exists /\ file.location = "tracked" THEN {file.edit} ELSE {}) /\ file' = file
    BY <1>12 DEF Spawn, Watching, Unwatched
  <2> QED BY <2>3, <2>4 DEF OnItsWay, Undiscovered, Wanted
<1>13. ASSUME NEW t \in Tasks, Read(t) PROVE OnItsWay(edit)'
  <2>1. CASE t = Refresher
    <3>1. R.at = "read" /\ R' = [R EXCEPT !.at = "reserve", !.read = IF file.exists THEN file.edit ELSE None]
      BY <1>0, <1>13, <2>1, Fixed DEF Read, R
    <3>2. R'.at = "reserve" /\ (file.exists => R'.read = file.edit)
      BY <1>0, <3>1 DEF TaskStates
    <3>3. edit \in watched.due
      BY <1>13 DEF Read, Wanted
    <3>4. file.exists /\ file.edit >= edit /\ file.edit # None
      BY <1>0, <3>3, ConstantsAssumption DEF DueInv, Files, Watches
    <3> QED BY <3>2, <3>4 DEF OnItsWay, Current
  <2>2. CASE t # Refresher
    <3>1. Stays
      BY <1>0, <1>13, <2>2, Fixed DEF Read, Stays, R
    <3> QED BY <1>13, <1>w, <3>1, WayKept DEF Read
  <2> QED BY <2>1, <2>2
<1>14. ASSUME NEW t \in Tasks, AskOpen(t) PROVE OnItsWay(edit)'
  <2>1. CASE t = Refresher
    <3>1. R.at = "reserve" /\ R'.at = "opening" /\ R'.read = R.read
      BY <1>14, <2>1, Moved DEF AskOpen, R
    <3>2. Wanted(edit)
      BY <1>14 DEF AskOpen, Wanted, Refreshable
    <3> QED BY <1>14, <1>w, <3>1, <3>2 DEF AskOpen, OnItsWay, Reported, Undiscovered, Coming, PutOff, Current
  <2>2. CASE t \in Calls
    BY <1>14, <1>w, <2>2, Elsewhere, WayKept DEF AskOpen
  <2> QED BY <2>1, <2>2 DEF Tasks
<1>15. ASSUME NEW t \in Tasks, Ask(t) \/ AskAgain(t) PROVE OnItsWay(edit)'
  <2>1. Stays \/ R.at \in {"opened", "awaiting"}
    BY <1>15, Elsewhere DEF Ask, AskAgain, AwaitedInv, Tasks, R
  <2> QED BY <1>15, <1>w, <2>1, WayKept DEF Ask, AskAgain
<1>16. ASSUME NEW t \in Tasks, Refreshed(t) PROVE OnItsWay(edit)'
  <2>1. Stays \/ R.at \in {"opened", "awaiting"}
    BY <1>16, Elsewhere DEF Refreshed, Tasks, R
  <2>2. Job("Barrier", t) \in Jobs
    BY Fixed
  <2>3. Has(jobs, {"Stale", "Uri"}) => Has(jobs', {"Stale", "Uri"})
    <3>1. jobs' = jobs \/ jobs' = Append(jobs, Job("Barrier", t))
      BY <1>16 DEF Refreshed
    <3> QED BY <1>0, <2>2, <3>1, HasStill
  <2> QED BY <1>16, <1>w, <2>1, <2>3, WayKept DEF Refreshed
<1>17. ASSUME NEW c \in Calls, Call(c) \/ Retry(c) \/ Answered(c) \/ Mark(c) \/ GiveUp(c) \/ FindClosed(c)
       PROVE  OnItsWay(edit)'
  <2>1. Stays
    <3>1. CASE FindClosed(c)
      <4>1. c # Refresher /\ Refresher \in Tasks
        BY Elsewhere DEF Tasks
      <4>2. CASE tasks' = [tasks EXCEPT ![c].at = "retry", ![c].retried = TRUE]
        BY <1>0, <4>1, <4>2 DEF Stays, R
      <4>3. CASE tasks' = [tasks EXCEPT ![c].at = "done"]
        BY <1>0, <4>1, <4>3 DEF Stays, R
      <4> QED BY <3>1, <4>2, <4>3 DEF FindClosed
    <3>2. CASE Call(c) \/ Retry(c) \/ Answered(c) \/ Mark(c) \/ GiveUp(c)
      BY <3>2, Elsewhere DEF Call, Retry, Answered, Mark, GiveUp
    <3> QED BY <1>17, <3>1, <3>2
  <2>2. Job("Workspace", c) \in Jobs /\ Job("Uri", None) \in Jobs
    BY Fixed
  <2>3. Has(jobs, {"Stale", "Uri"}) => Has(jobs', {"Stale", "Uri"})
    <3>1. \/ jobs' = jobs \/ jobs' = Append(jobs, Job("Uri", None))
          \/ jobs' = Append(jobs, Job("Workspace", c))
      BY <1>17 DEF Call, Retry, Answered, Mark, GiveUp, FindClosed
    <3>2. CASE jobs' = jobs \/ jobs' = Append(jobs, Job("Uri", None))
      BY <1>0, <2>2, <3>2, HasStill
    <3>3. CASE jobs' = Append(jobs, Job("Workspace", c))
      BY <1>0, <2>2, <3>3, HasStill
    <3> QED BY <3>1, <3>2, <3>3
  <2>4. UNCHANGED <<file, server, document, watched, work>>
    BY <1>17 DEF Call, Retry, Answered, Mark, GiveUp, FindClosed
  <2> QED BY <1>w, <2>1, <2>3, <2>4, WayKept
<1> QED BY <1>1, <1>2, <1>3, <1>4, <1>5, <1>6, <1>7, <1>8, <1>9, <1>10, <1>11, <1>12, <1>13, <1>14, <1>15, <1>16,
           <1>17 DEF Next

-----------------------------------------------------------------------------
(* Theorems.                                                                *)

IInv == TypeOK /\ OpeningInv /\ AwaitedInv /\ GivenInv /\ QueuedInv /\ DeadInv /\ DueInv /\ NoChangeIsLost

LEMMA InitInv == Init => IInv
<1> SUFFICES ASSUME Init PROVE IInv
  OBVIOUS
<1>1. TypeOK
  BY InitType
<1>2. R = Task("discover")
  BY DEF Init, R, Tasks
<1>3. R.at = "discover"
  BY <1>2 DEF Task
<1>4. commands = <<>> /\ pending = {} /\ document = NoDocument /\ work = NoWork /\ server = Started(1)
  BY DEF Init
<1>5. watched.due = (IF file.exists /\ file.location = "tracked" THEN {file.edit} ELSE {}) /\ file.edit = 1
  BY DEF Init, Watching, Unwatched
<1>6. NoChangeIsLost
  BY <1>3, <1>5 DEF NoChangeIsLost, R
<1>7. DueInv
  BY <1>5 DEF DueInv
<1> QED BY <1>1, <1>4, <1>6, <1>7
        DEF IInv, OpeningInv, AwaitedInv, GivenInv, QueuedInv, DeadInv, NoDocument, NoWork, Started

LEMMA StutterInv == IInv /\ UNCHANGED vars => IInv'
BY DEF IInv, TypeOK, OpeningInv, AwaitedInv, GivenInv, QueuedInv, DeadInv, DueInv, NoChangeIsLost, Refreshable, Opens,
       OfRefresher, R, vars

\* The invariant holds of every reachable state.
THEOREM Invariance == Spec => []IInv
<1>1. IInv /\ [Next]_vars => IInv'
  BY NextType, OpeningNext, AwaitedNext, GivenNext, QueuedNext, DeadNext, DueNext, LostNext, StutterInv DEF IInv
<1> QED BY <1>1, InitInv, PTL DEF Spec

\* Every variable holds what it should, for any number of calls, edits and sessions.
THEOREM TypeCorrectness == Spec => []TypeOK
<1>1. IInv => TypeOK
  BY DEF IInv
<1> QED BY <1>1, Invariance, PTL

\* However many calls share a document, open it late, give up and release it, and however often the server
\* registers and dies: a change of the file that was reported, that the registration does not leave out, and
\* that the server was never given, is still to be noticed, noticed, stale, queued, being refreshed, or put
\* off to a close of a document that is held; and so is what a session finds at its start.
THEOREM NothingIsLost == Spec => []NoChangeIsLost
<1>1. IInv => NoChangeIsLost
  BY DEF IInv
<1> QED BY <1>1, Invariance, PTL

-----------------------------------------------------------------------------
(* Who holds the document.  The actor's count of holders, with the commands  *)
(* that are on their way and the closes still to be sent counted in, is that *)
(* of the tasks that hold it.                                                *)

Holding == {t \in Tasks : Holds(t) /\ Attached(t)}

Change(command) == IF command.kind = "Open" THEN 1 ELSE IF command.kind = "Close" THEN -1 ELSE 0

\* The holders before each command, from the first to after the last: never below zero, and there are
\* some at each request.
Balanced(cs, first, last) ==
  \E b \in [1..Len(cs) + 1 -> Nat] :
    /\ b[1] = first /\ b[Len(cs) + 1] = last
    /\ \A i \in 1..Len(cs) : b[i + 1] = b[i] + Change(cs[i]) /\ (cs[i].kind = "Request" => b[i] > 0)

\* Until a missing file has closed the document under those that held it.
BalanceInv ==
  server.alive /\ ~server.missed => Balanced(commands, document.holders, Cardinality(Holding) + closes)
FiniteInv == IsFiniteSet(Holding)

\* The server has open what the document holds.
ContentInv == server.alive /\ document.holders > 0 => server.open = document.content

\* No task is of a session to come; those that the server and the actor hear of are of this one.
SessionInv == server.number >= 1 /\ \A t \in Tasks : tasks[t].session <= server.number
SentInv == \A i \in DOMAIN commands : commands[i].kind = "Request" => tasks[commands[i].task].session = server.number
PendingInv == \A t \in pending : tasks[t].at = "awaiting" /\ Attached(t)

LEMMA BalancedEmpty ==
  ASSUME NEW n \in Nat
  PROVE  Balanced(<<>>, n, n)
<1> DEFINE b == [i \in 1..Len(<<>>) + 1 |-> n]
<1>1. b \in [1..Len(<<>>) + 1 -> Nat] /\ b[1] = n /\ b[Len(<<>>) + 1] = n
  OBVIOUS
<1>2. 1..Len(<<>>) = {}
  OBVIOUS
<1> HIDE DEF b
<1> QED BY <1>1, <1>2 DEF Balanced

LEMMA BalancedAppend ==
  ASSUME NEW cs \in Seq(Commands), NEW first, NEW last \in Nat, NEW command \in Commands, NEW next \in Nat,
         Balanced(cs, first, last), next = last + Change(command), command.kind = "Request" => last > 0
  PROVE  Balanced(Append(cs, command), first, next)
<1> DEFINE n == Len(cs)
           ds == Append(cs, command)
<1>1. PICK b \in [1..n + 1 -> Nat] :
        /\ b[1] = first /\ b[n + 1] = last
        /\ \A i \in 1..n : b[i + 1] = b[i] + Change(cs[i]) /\ (cs[i].kind = "Request" => b[i] > 0)
  BY DEF Balanced
<1> DEFINE d == [i \in 1..n + 2 |-> IF i = n + 2 THEN next ELSE b[i]]
<1>2. n \in Nat /\ Len(ds) = n + 1 /\ ds[n + 1] = command /\ \A i \in 1..n : ds[i] = cs[i]
  OBVIOUS
<1>3. \A i \in 1..n + 2 : d[i] \in Nat
  BY <1>2
<1>4. d[1] = first /\ d[n + 2] = next /\ d[n + 1] = last /\ \A i \in 1..n + 1 : d[i] = b[i]
  BY <1>1, <1>2
<1>5. d \in [1..n + 2 -> Nat]
  BY <1>3
<1> HIDE DEF d, ds, n
<1>6. ASSUME NEW i \in 1..n + 1
      PROVE  d[i + 1] = d[i] + Change(ds[i]) /\ (ds[i].kind = "Request" => d[i] > 0)
  <2>1. CASE i \in 1..n
    <3>1. i + 1 \in 1..n + 1
      BY <1>2, <2>1
    <3> QED BY <1>1, <1>2, <1>4, <2>1, <3>1
  <2>2. CASE i = n + 1
    <3>1. i + 1 = n + 2
      BY <1>2, <2>2
    <3> QED BY <1>2, <1>4, <2>2, <3>1
  <2> QED BY <1>2, <2>1, <2>2
<1>7. Len(ds) + 1 = n + 2 /\ 1..Len(ds) = 1..n + 1
  BY <1>2
<1>8. d \in [1..Len(ds) + 1 -> Nat] /\ d[1] = first /\ d[Len(ds) + 1] = next
  BY <1>4, <1>5, <1>7
<1>9. \A i \in 1..Len(ds) : d[i + 1] = d[i] + Change(ds[i]) /\ (ds[i].kind = "Request" => d[i] > 0)
  BY <1>6, <1>7
<1>10. Balanced(ds, first, next)
  BY <1>8, <1>9 DEF Balanced
<1> QED BY <1>10 DEF ds

LEMMA BalancedTail ==
  ASSUME NEW cs \in Seq(Commands), cs # <<>>, NEW first \in Nat, NEW last \in Nat, Balanced(cs, first, last)
  PROVE  /\ first + Change(Head(cs)) \in Nat
         /\ Head(cs).kind = "Request" => first > 0
         /\ Balanced(Tail(cs), first + Change(Head(cs)), last)
<1> DEFINE n == Len(cs)
           ds == Tail(cs)
<1>1. PICK b \in [1..n + 1 -> Nat] :
        /\ b[1] = first /\ b[n + 1] = last
        /\ \A i \in 1..n : b[i + 1] = b[i] + Change(cs[i]) /\ (cs[i].kind = "Request" => b[i] > 0)
  BY DEF Balanced
<1> DEFINE d == [i \in 1..n |-> b[i + 1]]
<1>2. n \in Nat \ {0} /\ Len(ds) = n - 1 /\ Head(cs) = cs[1]
  OBVIOUS
<1>3. \A i \in 1..n - 1 : ds[i] = cs[i + 1]
  BY <1>2
<1>4. \A i \in 1..n : d[i] = b[i + 1] /\ d[i] \in Nat
  BY <1>2
<1>5. d \in [1..n -> Nat]
  BY <1>4
<1>6. b[2] = first + Change(Head(cs)) /\ (Head(cs).kind = "Request" => first > 0) /\ b[2] \in Nat
  <2>1. 1 \in 1..n /\ 2 \in 1..n + 1 /\ 1 + 1 = 2
    BY <1>2
  <2> QED BY <1>1, <1>2, <2>1
<1> HIDE DEF d, ds, n
<1>7. d[1] = b[2] /\ d[n] = last
  <2>1. 1 \in 1..n /\ n \in 1..n /\ 1 + 1 = 2
    BY <1>2
  <2> QED BY <1>1, <1>4, <2>1
<1>8. ASSUME NEW i \in 1..n - 1
      PROVE  d[i + 1] = d[i] + Change(ds[i]) /\ (ds[i].kind = "Request" => d[i] > 0)
  <2>1. i \in 1..n /\ i + 1 \in 1..n
    BY <1>2
  <2> QED BY <1>1, <1>3, <1>4, <2>1
<1>9. Len(ds) + 1 = n
  BY <1>2
<1>10. Balanced(ds, first + Change(Head(cs)), last)
  BY <1>2, <1>5, <1>6, <1>7, <1>8, <1>9 DEF Balanced
<1> QED BY <1>6, <1>10 DEF ds

\* Only t moves, or changes its session.
Only(t) == \A s \in Tasks \ {t} : tasks'[s].at = tasks[s].at /\ tasks'[s].session = tasks[s].session

LEMMA Moving ==
  ASSUME TypeOK, NEW t \in Tasks
  PROVE  /\ \A at : Goes(t, at) => Only(t) /\ tasks'[t].at = at /\ tasks'[t].session = tasks[t].session
         /\ \A kind : Begin(t, kind) => Only(t) /\ ~Holds(t)' /\ tasks'[t].session = server.number
         /\ Read(t) \/ FindClosed(t) => Only(t) /\ ~Holds(t)' /\ tasks'[t].session = tasks[t].session
<1>0. tasks \in [Tasks -> TaskStates]
  BY DEF TypeOK
<1>1. \A at : Goes(t, at) => Only(t) /\ tasks'[t].at = at /\ tasks'[t].session = tasks[t].session
  BY <1>0 DEF Goes, Only, TaskStates
<1>2. ASSUME NEW kind, Begin(t, kind)
      PROVE  Only(t) /\ ~Holds(t)' /\ tasks'[t].session = server.number
  <2> DEFINE at == CASE kind = "Workspace" -> "barrier" [] kind = "Written" -> "marking" [] OTHER -> "read"
  <2>1. at \in {"barrier", "marking", "read"}
    OBVIOUS
  <2>2. tasks' = [tasks EXCEPT ![t].kind = kind, ![t].session = server.number, ![t].at = at]
    BY <1>2 DEF Begin
  <2> HIDE DEF at
  <2>3. tasks'[t] = [tasks[t] EXCEPT !.kind = kind, !.session = server.number, !.at = at] /\ tasks[t] \in TaskStates
    BY <1>0, <2>2
  <2>4. tasks'[t].at = at /\ tasks'[t].session = server.number
    BY <2>3 DEF TaskStates
  <2>5. Only(t)
    BY <1>0, <2>2 DEF Only
  <2> QED BY <2>1, <2>4, <2>5 DEF Holds
<1>3. ASSUME Read(t)
      PROVE  Only(t) /\ ~Holds(t)' /\ tasks'[t].session = tasks[t].session
  <2>1. PICK read : tasks' = [tasks EXCEPT ![t].at = "reserve", ![t].read = read]
    BY <1>3 DEF Read
  <2>2. tasks'[t].at = "reserve" /\ tasks'[t].session = tasks[t].session
    BY <1>0, <2>1 DEF TaskStates
  <2> QED BY <1>0, <2>1, <2>2 DEF Only, Holds
<1>4. ASSUME FindClosed(t)
      PROVE  Only(t) /\ ~Holds(t)' /\ tasks'[t].session = tasks[t].session
  <2>1. CASE tasks' = [tasks EXCEPT ![t].at = "retry", ![t].retried = TRUE]
    <3>1. tasks'[t].at = "retry" /\ tasks'[t].session = tasks[t].session
      BY <1>0, <2>1 DEF TaskStates
    <3> QED BY <1>0, <2>1, <3>1 DEF Only, Holds
  <2>2. CASE tasks' = [tasks EXCEPT ![t].at = "done"]
    <3>1. tasks'[t].at = "done" /\ tasks'[t].session = tasks[t].session
      BY <1>0, <2>2 DEF TaskStates
    <3> QED BY <1>0, <2>2, <3>1 DEF Only, Holds
  <2> QED BY <1>4, <2>1, <2>2 DEF FindClosed
<1> QED BY <1>1, <1>2, <1>3, <1>4

SameServer == server'.alive = server.alive /\ server'.number = server.number

LEMMA HoldingAfter ==
  ASSUME NEW t \in Tasks, Only(t), SameServer
  PROVE  /\ ~Holds(t)' => Holding' = Holding \ {t}
         /\ Holds(t)' /\ tasks'[t].session = tasks[t].session /\ Attached(t) => Holding' = Holding \cup {t}
         /\ Holds(t) /\ Holds(t)' /\ tasks'[t].session = tasks[t].session => Holding' = Holding
<1>1. \A s \in Tasks \ {t} : s \in Holding' <=> s \in Holding
  BY DEF Only, SameServer, Holding, Holds, Attached
<1>2. Holding \subseteq Tasks /\ Holding' \subseteq Tasks
  BY DEF Holding
<1>3. ~Holds(t)' => t \notin Holding'
  BY DEF Holding
<1>4. Holds(t)' /\ tasks'[t].session = tasks[t].session /\ Attached(t) => t \in Holding'
  BY DEF SameServer, Holding, Attached
<1>5. Holds(t) /\ Holds(t)' /\ tasks'[t].session = tasks[t].session => (t \in Holding' <=> t \in Holding)
  BY DEF SameServer, Holding, Attached
<1> QED BY <1>1, <1>2, <1>3, <1>4, <1>5

LEMMA HoldingStays == UNCHANGED tasks /\ SameServer => Holding' = Holding
BY DEF SameServer, Holding, Holds, Attached

-----------------------------------------------------------------------------
(* What one step enters into the books.                                     *)

\* What the server is still asked stays asked by the same task.
Kept == \A t \in pending' : t \in pending /\ tasks'[t].at = tasks[t].at /\ tasks'[t].session = tasks[t].session
Joined == \A t \in Tasks : tasks'[t].session \in {tasks[t].session, server.number}

Noted ==
  /\ Holding' = Holding /\ closes' = closes
  /\ \E command \in Commands :
       /\ commands' = Append(commands, command) /\ command.kind \in {"Request", "MarkWritten"}
       /\ command.kind = "Request" => command.task \in Holding
Entered(t) ==
  /\ t \notin Holding /\ Holding' = Holding \cup {t} /\ closes' = closes
  /\ \E command \in Commands : commands' = Append(commands, command) /\ command.kind = "Open"
Left(t) == t \in Holding /\ Holding' = Holding \ {t} /\ Release
Booked ==
  \/ Holding' = Holding /\ UNCHANGED <<commands, closes>>
  \/ Holding' = Holding /\ SendClose
  \/ Noted \/ \E t \in Tasks : Entered(t) \/ Left(t)

\* A task that does not hold the document goes where it does not hold it either.
LEMMA Passes ==
  ASSUME TypeOK, NEW t \in Tasks, t \notin Holding, PendingInv, Only(t), ~Holds(t)', SameServer,
         tasks'[t].session \in {tasks[t].session, server.number},
         UNCHANGED <<commands, closes>>, pending' \subseteq pending
  PROVE  Kept /\ Joined /\ Booked
<1>1. t \notin pending
  BY DEF PendingInv, Holding, Holds
<1>2. Kept /\ Joined
  BY <1>1 DEF Kept, Joined, Only, TypeOK
<1>3. Holding' = Holding
  BY HoldingAfter
<1> QED BY <1>2, <1>3 DEF Booked

LEMMA Leaving ==
  ASSUME TypeOK, NEW t \in Tasks, t \in Holding, SameServer, NEW at, at \notin {"opening", "opened", "awaiting"}, Goes(t, at),
         Release, pending' = pending \ {t}
  PROVE  Kept /\ Joined /\ Booked
<1>1. Only(t) /\ tasks'[t].at = at /\ tasks'[t].session = tasks[t].session
  BY Moving
<1>2. Kept /\ Joined
  BY <1>1 DEF Kept, Joined, Only, TypeOK
<1>3. ~Holds(t)'
  BY <1>1 DEF Holds
<1>4. Holding' = Holding \ {t}
  BY <1>1, <1>3, HoldingAfter
<1> QED BY <1>2, <1>4 DEF Booked, Left

LEMMA BookedStep ==
  ASSUME TypeOK, PendingInv, Next, ~Handle, ~Die, ~Spawn
  PROVE  SameServer /\ Kept /\ Joined /\ Booked
<1>0. SameServer /\ UNCHANGED server
  BY DocumentSteps DEF SameServer, Forward
<1>1. CASE UNCHANGED <<tasks, pending, commands, closes>>
  BY <1>0, <1>1, HoldingStays DEF Kept, Joined, Booked
<1>2. CASE SendClose
  BY <1>0, <1>2, HoldingStays DEF SendClose, Kept, Joined, Booked
<1>3. CASE Discover
  <2>1. R.at = "discover" /\ Goes(Refresher, "idle") /\ UNCHANGED <<commands, closes, pending>>
    BY <1>3 DEF Discover, R
  <2>2. Only(Refresher) /\ ~Holds(Refresher)' /\ R'.session = R.session
    BY <2>1, Fixed, Moving DEF Holds, R
  <2>3. Refresher \notin Holding
    BY <2>1 DEF Holding, Holds, R
  <2> QED BY <1>0, <2>1, <2>2, <2>3, Fixed, Passes DEF R
<1>4. CASE Refresh
  <2> DEFINE job == Head(work.queue)
  <2>0. UNCHANGED <<commands, closes, pending>> /\ R.at = "idle"
    BY <1>4 DEF Refresh, Idle, R
  <2>1. CASE Goes(Refresher, "read")
    <3>1. Only(Refresher) /\ ~Holds(Refresher)' /\ R'.session = R.session
      BY <2>1, Fixed, Moving DEF Holds, R
    <3>2. Refresher \notin Holding
      BY <2>0 DEF Holding, Holds, R
    <3> QED BY <1>0, <2>0, <3>1, <3>2, Fixed, Passes DEF R
  <2>2. CASE tasks' = [tasks EXCEPT ![job.call].at = IF @ = "barrier" THEN "done" ELSE @]
    <3>1. CASE job.call \in Tasks /\ tasks[job.call].at = "barrier"
      <4>0. PICK t \in Tasks : t = job.call
        BY <3>1
      <4>1. Goes(t, "done")
        BY <2>2, <3>1, <4>0 DEF Goes
      <4>2. Only(t) /\ ~Holds(t)' /\ tasks'[t].session = tasks[t].session
        BY <4>1, Moving DEF Holds
      <4>3. t \notin Holding
        BY <3>1, <4>0 DEF Holding, Holds
      <4> QED BY <1>0, <2>0, <4>2, <4>3, Passes
    <3>2. CASE job.call \in Tasks /\ tasks[job.call].at # "barrier"
      <4>1. tasks' = tasks
        BY <2>2, <3>2 DEF TypeOK, TaskStates
      <4> QED BY <1>1, <2>0, <4>1
    <3>3. CASE job.call \notin Tasks
      <4>1. tasks' = tasks
        BY <2>2, <3>3 DEF TypeOK
      <4> QED BY <1>1, <2>0, <4>1
    <3> QED BY <3>1, <3>2, <3>3
  <2> QED BY <1>4, <2>1, <2>2 DEF Refresh
<1>5. ASSUME NEW t \in Tasks, Read(t) PROVE Kept /\ Joined /\ Booked
  <2>1. Only(t) /\ ~Holds(t)' /\ tasks'[t].session = tasks[t].session
    BY <1>5, Moving
  <2>2. t \notin Holding /\ UNCHANGED <<commands, closes, pending>>
    BY <1>5 DEF Read, Holding, Holds
  <2> QED BY <1>0, <2>1, <2>2, Passes
<1>6. ASSUME NEW t \in Tasks, AskOpen(t) PROVE Kept /\ Joined /\ Booked
  <2> DEFINE command == Command("Open", t, tasks[t].read)
  <2>1. Only(t) /\ tasks'[t].at = "opening" /\ tasks'[t].session = tasks[t].session /\ Attached(t)
    BY <1>6, Moving DEF AskOpen
  <2>2. Holding' = Holding \cup {t}
    BY <1>0, <2>1, HoldingAfter DEF Holds
  <2>3. t \notin Holding /\ t \notin pending /\ pending' = pending /\ closes' = closes
    BY <1>6 DEF AskOpen, Holding, Holds, PendingInv
  <2>4. command \in Commands /\ command.kind = "Open"
    <3>1. tasks[t].read \in Contents
      BY DEF TypeOK, TaskStates
    <3> QED BY <3>1, Fixed DEF Command
  <2>5. commands' = Append(commands, command)
    BY <1>6 DEF AskOpen, Send
  <2>6. Entered(t)
    BY <2>2, <2>3, <2>4, <2>5 DEF Entered
  <2>7. Kept /\ Joined
    BY <2>1, <2>3 DEF Kept, Joined, Only, TypeOK
  <2> QED BY <2>6, <2>7 DEF Booked
<1>7. ASSUME NEW t \in Tasks, Ask(t) PROVE Kept /\ Joined /\ Booked
  <2> DEFINE command == Command("Request", t, None)
  <2>1. Only(t) /\ tasks'[t].at = "awaiting" /\ tasks'[t].session = tasks[t].session /\ Attached(t)
    BY <1>7, Moving DEF Ask
  <2>2. Holds(t) /\ t \in Holding /\ t \notin pending /\ pending' = pending /\ closes' = closes
    BY <1>7, <2>1 DEF Ask, Holding, Holds, PendingInv
  <2>3. Holding' = Holding
    BY <1>0, <2>1, <2>2, HoldingAfter DEF Holds
  <2>4. command \in Commands /\ command.kind = "Request" /\ command.task = t
    BY Fixed DEF Command, Contents
  <2>5. commands' = Append(commands, command)
    BY <1>7 DEF Ask, Send
  <2>6. Noted
    BY <2>2, <2>3, <2>4, <2>5 DEF Noted
  <2>7. Kept /\ Joined
    BY <2>1, <2>2 DEF Kept, Joined, Only, TypeOK
  <2> QED BY <2>6, <2>7 DEF Booked
<1>8. ASSUME NEW t \in Tasks, AskAgain(t) PROVE Kept /\ Joined /\ Booked
  <2>1. Only(t) /\ tasks'[t].at = "opened" /\ tasks'[t].session = tasks[t].session
    BY <1>8, Moving DEF AskAgain
  <2>2. Holds(t) /\ pending' = pending \ {t} /\ UNCHANGED <<commands, closes>>
    BY <1>8 DEF AskAgain, Holds, PendingInv
  <2>3. Holding' = Holding
    BY <1>0, <2>1, <2>2, HoldingAfter DEF Holds
  <2>4. Kept /\ Joined
    BY <2>1, <2>2 DEF Kept, Joined, Only, TypeOK
  <2> QED BY <2>2, <2>3, <2>4 DEF Booked
<1>9. ASSUME NEW t \in Tasks, Refreshed(t) PROVE Kept /\ Joined /\ Booked
  <2>1. t \in Holding /\ Release /\ pending' = pending \ {t}
    BY <1>9 DEF Refreshed, Holding, Holds
  <2>2. \E at \in {"idle", "done", "barrier"} : Goes(t, at)
    BY <1>9 DEF Refreshed
  <2> QED BY <1>0, <2>1, <2>2, Leaving
<1>10. ASSUME NEW c \in Calls, Call(c) \/ Retry(c) PROVE Kept /\ Joined /\ Booked
  <2>1. PICK kind : Begin(c, kind)
    BY <1>10 DEF Call, Retry
  <2>2. c \in Tasks /\ c \notin Holding /\ UNCHANGED <<commands, closes, pending>>
    BY <1>10, Fixed DEF Call, Retry, Holding, Holds
  <2>3. Only(c) /\ ~Holds(c)' /\ tasks'[c].session = server.number
    BY <2>1, <2>2, Moving
  <2> QED BY <1>0, <2>2, <2>3, Passes
<1>11. ASSUME NEW c \in Calls, FindClosed(c) PROVE Kept /\ Joined /\ Booked
  <2>1. c \in Tasks /\ c \notin Holding /\ UNCHANGED <<commands, closes, pending>>
    BY <1>11, Fixed DEF FindClosed, Holding
  <2>2. Only(c) /\ ~Holds(c)' /\ tasks'[c].session = tasks[c].session
    BY <1>11, <2>1, Moving
  <2> QED BY <1>0, <2>1, <2>2, Passes
<1>12. ASSUME NEW c \in Calls, Answered(c) PROVE Kept /\ Joined /\ Booked
  <2>1. c \in Tasks /\ c \in Holding /\ Release /\ pending' = pending \ {c} /\ Goes(c, "done")
    BY <1>12, Fixed DEF Answered, PendingInv, Holding, Holds
  <2> QED BY <1>0, <2>1, Leaving
<1>13. ASSUME NEW c \in Calls, Mark(c) PROVE Kept /\ Joined /\ Booked
  <2>1. c \in Tasks /\ c \notin Holding /\ c \notin pending /\ Goes(c, "done") /\ UNCHANGED <<closes, pending>>
    BY <1>13, Fixed DEF Mark, Holding, Holds, PendingInv
  <2>2. Only(c) /\ tasks'[c].at = "done" /\ tasks'[c].session = tasks[c].session
    BY <2>1, Moving
  <2>3. Holding' = Holding
    BY <1>0, <2>1, <2>2, HoldingAfter DEF Holds
  <2>4. Command("MarkWritten", None, None) \in Commands /\ Command("MarkWritten", None, None).kind = "MarkWritten"
    BY Fixed DEF Command
  <2>5. Noted
    BY <1>13, <2>1, <2>3, <2>4 DEF Mark, Send, Noted
  <2>6. Kept /\ Joined
    BY <2>1, <2>2 DEF Kept, Joined, Only, TypeOK
  <2> QED BY <2>5, <2>6 DEF Booked
<1>14. ASSUME NEW c \in Calls, GiveUp(c) PROVE Kept /\ Joined /\ Booked
  <2>1. c \in Tasks /\ Goes(c, "done") /\ pending' = pending \ {c} /\ Attached(c)
    BY <1>14, Fixed DEF GiveUp
  <2>2. CASE Holds(c)
    <3>1. c \in Holding /\ Release
      BY <1>14, <2>1, <2>2 DEF GiveUp, Holding
    <3> QED BY <1>0, <2>1, <3>1, Leaving
  <2>3. CASE ~Holds(c)
    <3>1. c \notin Holding /\ UNCHANGED <<commands, closes>>
      BY <1>14, <2>3 DEF GiveUp, Holding
    <3>2. Only(c) /\ ~Holds(c)' /\ tasks'[c].session = tasks[c].session
      BY <2>1, Moving DEF Holds
    <3> QED BY <1>0, <2>1, <3>1, <3>2, Passes
  <2> QED BY <2>2, <2>3
<1> QED BY <1>0, <1>1, <1>2, <1>3, <1>4, <1>5, <1>6, <1>7, <1>8, <1>9, <1>10, <1>11, <1>12, <1>13, <1>14
        DEF Next, Edit, Notice, Register, Forward, RefreshAsked, TakeJob

\* A command that is handled leaves who holds the document alone.
LEMMA HandledStep ==
  ASSUME TypeOK, Handle
  PROVE  /\ SameServer /\ Holding' = Holding /\ Joined
         /\ \A t \in Tasks : tasks[t].at = "awaiting" => tasks'[t].at = "awaiting" /\ tasks'[t].session = tasks[t].session
         /\ pending' \subseteq pending \cup {t \in Tasks : tasks[t].at = "awaiting" /\ Head(commands).kind = "Request"
                                                         /\ Head(commands).task = t}
<1> DEFINE command == Head(commands)
<1>0. command \in Commands /\ server \in Servers /\ tasks \in [Tasks -> TaskStates] /\ pending \in SUBSET Tasks
  BY HeadTailProperties DEF Handle, TypeOK
<1>1. CASE command.kind = "Open" /\ HandleOpen(command)
  <2>1. SameServer
    BY <1>0, <1>1 DEF HandleOpen, OpenMissing, OpenContent, Servers, SameServer
  <2>2. command.task \in Tasks /\ pending' = pending
    BY <1>0, <1>1 DEF Commands, HandleOpen
  <2>3. CASE tasks[command.task].at = "opening"
    <3>1. Goes(command.task, "opened")
      BY <1>1, <2>3 DEF HandleOpen, Reply, Goes
    <3>2. Only(command.task) /\ tasks'[command.task].at = "opened"
          /\ tasks'[command.task].session = tasks[command.task].session
      BY <2>2, <3>1, Moving
    <3>3. Holding' = Holding
      BY <2>1, <2>2, <2>3, <3>2, HoldingAfter DEF Holds
    <3> QED BY <2>1, <2>2, <2>3, <3>2, <3>3 DEF Only, Joined
  <2>4. CASE tasks[command.task].at # "opening"
    <3>1. tasks' = tasks
      BY <1>1, <2>4 DEF HandleOpen, Reply
    <3> QED BY <2>1, <2>2, <3>1, HoldingStays DEF Joined
  <2> QED BY <2>3, <2>4
<1>2. CASE HandleClose \/ HandleWritten
  <2>1. SameServer /\ UNCHANGED <<tasks, pending>>
    BY <1>0, <1>2 DEF HandleClose, HandleWritten, Servers, SameServer
  <2> QED BY <2>1, HoldingStays DEF Joined
<1>3. CASE command.kind = "Request" /\ HandleRequest(command)
  <2>1. SameServer /\ UNCHANGED tasks
    BY <1>3 DEF HandleRequest, SameServer
  <2>2. command.task \in Tasks
    BY <1>0, <1>3 DEF Commands
  <2>3. pending' \subseteq pending \cup {t \in Tasks : tasks[t].at = "awaiting" /\ command.kind = "Request" /\ command.task = t}
    BY <1>3, <2>2 DEF HandleRequest
  <2> QED BY <2>1, <2>3, HoldingStays DEF Joined
<1> QED BY <1>1, <1>2, <1>3 DEF Handle

-----------------------------------------------------------------------------
(* The books balance.                                                       *)

HeldInv == BalanceInv /\ FiniteInv /\ ContentInv /\ SessionInv /\ SentInv /\ PendingInv

LEMMA Counted == FiniteInv => Cardinality(Holding) \in Nat
BY FS_CardinalityType DEF FiniteInv

LEMMA Sum ==
  ASSUME TypeOK, FiniteInv, NEW t
  PROVE  /\ t \notin Holding => Cardinality(Holding \cup {t}) = Cardinality(Holding) + 1 /\ IsFiniteSet(Holding \cup {t})
         /\ t \in Holding => Cardinality(Holding \ {t}) = Cardinality(Holding) - 1 /\ IsFiniteSet(Holding \ {t})
         /\ t \in Holding => Cardinality(Holding) > 0
<1>1. IsFiniteSet(Holding)
  BY DEF FiniteInv
<1>2. Cardinality(Holding) \in Nat
  BY Counted
<1>3. t \notin Holding => Cardinality(Holding \cup {t}) = Cardinality(Holding) + 1 /\ IsFiniteSet(Holding \cup {t})
  BY <1>1, FS_AddElement
<1>4. t \in Holding => Cardinality(Holding \ {t}) = Cardinality(Holding) - 1 /\ IsFiniteSet(Holding \ {t})
  BY <1>1, FS_RemoveElement
<1>5. t \in Holding => Cardinality(Holding) > 0
  <2>1. t \in Holding => Holding # {}
    OBVIOUS
  <2>2. Cardinality(Holding) = 0 <=> Holding = {}
    BY <1>1, FS_EmptySet
  <2> QED BY <1>2, <2>1, <2>2
<1> QED BY <1>3, <1>4, <1>5

\* A command is sent that the holders account for.
LEMMA BalanceSent ==
  ASSUME TypeOK, BalanceInv, NEW command \in Commands, commands' = Append(commands, command),
         server'.alive = server.alive, server'.missed = server.missed, document'.holders = document.holders,
         NEW old \in Nat, old = Cardinality(Holding) + closes,
         NEW new \in Nat, new = Cardinality(Holding') + closes', new = old + Change(command),
         command.kind = "Request" => old > 0
  PROVE  BalanceInv'
<1> SUFFICES ASSUME server.alive, ~server.missed
             PROVE  Balanced(Append(commands, command), document.holders, new)
  BY DEF BalanceInv
<1>1. Balanced(commands, document.holders, old) /\ commands \in Seq(Commands)
  BY DEF BalanceInv, TypeOK
<1> QED BY <1>1, BalancedAppend

LEMMA BalanceBooked ==
  ASSUME TypeOK, FiniteInv, BalanceInv, Booked,
         server'.alive = server.alive, server'.missed = server.missed, document'.holders = document.holders
  PROVE  FiniteInv' /\ BalanceInv'
<1> DEFINE old == Cardinality(Holding) + closes
<1>0. closes \in Nat /\ Cardinality(Holding) \in Nat /\ old \in Nat /\ Close \in Commands /\ Change(Close) = -1
  <2>1. closes \in Nat /\ Cardinality(Holding) \in Nat
    BY Counted DEF TypeOK
  <2>2. Change(Close) = -1
    BY DEF Change, Close, Command
  <2> QED BY <2>1, <2>2, Fixed
<1>1. CASE Holding' = Holding /\ UNCHANGED <<commands, closes>>
  BY <1>1 DEF FiniteInv, BalanceInv
<1>2. CASE Holding' = Holding /\ SendClose
  <2>1. closes' = closes - 1 /\ closes > 0 /\ commands' = Append(commands, Close)
    BY <1>2 DEF SendClose, Send
  <2>2. old - 1 \in Nat /\ old - 1 = Cardinality(Holding') + closes' /\ old - 1 = old + Change(Close)
    BY <1>0, <1>2, <2>1
  <2>3. Close.kind # "Request"
    BY DEF Close, Command
  <2> HIDE DEF old
  <2>4. BalanceInv'
    BY <1>0, <2>1, <2>2, <2>3, BalanceSent DEF old
  <2> QED BY <1>2, <2>4 DEF FiniteInv
<1>3. CASE Noted
  <2>1. PICK command \in Commands :
          /\ commands' = Append(commands, command) /\ command.kind \in {"Request", "MarkWritten"}
          /\ command.kind = "Request" => command.task \in Holding
    BY <1>3 DEF Noted
  <2>2. Change(command) = 0
    BY <2>1 DEF Change
  <2>3. Holding' = Holding /\ closes' = closes
    BY <1>3 DEF Noted
  <2>4. old = Cardinality(Holding') + closes' /\ old = old + Change(command)
    BY <1>0, <2>2, <2>3
  <2>5. command.kind = "Request" => old > 0
    <3> SUFFICES ASSUME command.kind = "Request" PROVE old > 0
      OBVIOUS
    <3>1. Cardinality(Holding) > 0
      BY <2>1, Sum
    <3> QED BY <1>0, <3>1
  <2>6. BalanceInv'
    BY <1>0, <2>1, <2>4, <2>5, BalanceSent
  <2> QED BY <2>3, <2>6 DEF FiniteInv
<1>4. ASSUME NEW t \in Tasks, Entered(t) PROVE FiniteInv' /\ BalanceInv'
  <2>1. PICK command \in Commands : commands' = Append(commands, command) /\ command.kind = "Open"
    BY <1>4 DEF Entered
  <2>2. t \notin Holding /\ Holding' = Holding \cup {t} /\ closes' = closes
    BY <1>4 DEF Entered
  <2>3. Cardinality(Holding') = Cardinality(Holding) + 1 /\ IsFiniteSet(Holding')
    BY <2>2, Sum
  <2>4. Change(command) = 1 /\ command.kind # "Request"
    BY <2>1 DEF Change
  <2>5. old + 1 \in Nat /\ old + 1 = Cardinality(Holding') + closes' /\ old + 1 = old + Change(command)
    BY <1>0, <2>2, <2>3, <2>4
  <2>6. BalanceInv'
    BY <1>0, <2>1, <2>4, <2>5, BalanceSent
  <2> QED BY <2>3, <2>6 DEF FiniteInv
<1>5. ASSUME NEW t \in Tasks, Left(t) PROVE FiniteInv' /\ BalanceInv'
  <2>1. t \in Holding /\ Holding' = Holding \ {t} /\ Release
    BY <1>5 DEF Left
  <2>2. Cardinality(Holding') = Cardinality(Holding) - 1 /\ IsFiniteSet(Holding') /\ Cardinality(Holding) > 0
    BY <2>1, Sum
  <2>3. CASE commands' = Append(commands, Close) /\ closes' = closes
    <3>1. old - 1 \in Nat /\ old - 1 = Cardinality(Holding') + closes' /\ old - 1 = old + Change(Close)
      BY <1>0, <2>2, <2>3
    <3>2. Close.kind # "Request"
      BY DEF Close, Command
    <3>3. BalanceInv'
      BY <1>0, <2>3, <3>1, <3>2, BalanceSent
    <3> QED BY <2>2, <3>3 DEF FiniteInv
  <2>4. CASE closes' = closes + 1 /\ commands' = commands
    <3>1. Cardinality(Holding') + closes' = Cardinality(Holding) + closes
      BY <1>0, <2>2, <2>4
    <3>2. BalanceInv'
      BY <2>4, <3>1 DEF BalanceInv
    <3> QED BY <2>2, <3>2 DEF FiniteInv
  <2> QED BY <2>1, <2>3, <2>4 DEF Release
<1> QED BY <1>1, <1>2, <1>3, <1>4, <1>5 DEF Booked

\* What the commands and the books say of the one that is next.
LEMMA BalanceHead ==
  ASSUME TypeOK, FiniteInv, BalanceInv, server.alive, ~server.missed, commands # <<>>
  PROVE  /\ document.holders + Change(Head(commands)) \in Nat
         /\ Head(commands).kind = "Request" => document.holders > 0
         /\ Balanced(Tail(commands), document.holders + Change(Head(commands)), Cardinality(Holding) + closes)
<1>1. Cardinality(Holding) + closes \in Nat /\ document.holders \in Nat /\ commands \in Seq(Commands)
  <2>1. Cardinality(Holding) \in Nat /\ closes \in Nat
    BY Counted DEF TypeOK
  <2> QED BY <2>1 DEF TypeOK, Documents
<1> QED BY <1>1, BalancedTail DEF BalanceInv

LEMMA BalanceHandle ==
  ASSUME TypeOK, FiniteInv, BalanceInv, DeadInv, Handle
  PROVE  FiniteInv' /\ BalanceInv'
<1> DEFINE command == Head(commands)
<1>1. Holding' = Holding /\ server'.alive = server.alive
  BY HandledStep DEF SameServer
<1> SUFFICES BalanceInv'
  BY <1>1 DEF FiniteInv
<1>2. /\ commands # <<>> /\ commands' = Tail(commands) /\ closes' = closes /\ server.alive
      /\ command \in Commands /\ document \in Documents /\ server \in Servers
  BY HeadTailProperties DEF Handle, DeadInv, TypeOK
<1>3. ~server.missed /\ document'.holders = document.holders + Change(command) => BalanceInv'
  BY <1>1, <1>2, BalanceHead DEF BalanceInv
<1>4. server'.missed => BalanceInv'
  BY DEF BalanceInv
<1>5. CASE command.kind = "Open" /\ HandleOpen(command)
  <2>1. CASE OpenMissing
    <3>1. server'.missed
      BY <1>2, <2>1 DEF OpenMissing, Servers
    <3> QED BY <1>4, <3>1
  <2>2. CASE OpenContent(command.content)
    <3>1. server'.missed = server.missed /\ document'.holders = document.holders + 1 /\ server.missed \in BOOLEAN
      BY <1>2, <2>2 DEF OpenContent, Servers, Documents
    <3>2. Change(command) = 1
      BY <1>5 DEF Change
    <3>3. CASE server.missed
      BY <1>4, <3>1, <3>3
    <3>4. CASE ~server.missed
      BY <1>3, <3>1, <3>2, <3>4
    <3> QED BY <3>3, <3>4
  <2> QED BY <1>5, <2>1, <2>2 DEF HandleOpen
<1>6. CASE command.kind = "Close" /\ HandleClose
  <2>1. server'.missed = server.missed
    BY <1>2, <1>6 DEF HandleClose, Servers
  <2>2. Change(command) = -1
    BY <1>6 DEF Change
  <2>3. CASE ~server.missed
    <3>1. document.holders # 0 /\ document.holders \in Nat
      BY <1>2, <2>2, <2>3, BalanceHead DEF Documents
    <3>2. document'.holders = document.holders - 1
      BY <1>2, <1>6, <3>1 DEF HandleClose, Released, Documents
    <3> QED BY <1>3, <2>2, <2>3, <3>1, <3>2
  <2> QED BY <1>4, <2>1, <2>3
<1>7. CASE command.kind \in {"Request", "MarkWritten"} /\ UNCHANGED <<document, server>>
  <2>1. Change(command) = 0 /\ document.holders \in Nat
    BY <1>2, <1>7 DEF Change, Documents
  <2>2. document'.holders = document.holders + Change(command)
    BY <1>7, <2>1
  <2> QED BY <1>3, <1>4, <1>7, <2>2
<1> QED BY <1>5, <1>6, <1>7 DEF Handle, HandleRequest, HandleWritten

LEMMA ContentNext == TypeOK /\ DeadInv /\ ContentInv /\ Next => ContentInv'
<1> SUFFICES ASSUME TypeOK, DeadInv, ContentInv, Next PROVE ContentInv'
  OBVIOUS
<1>0. server \in Servers /\ document \in Documents
  BY DEF TypeOK
<1>1. CASE UNCHANGED <<document, server>>
  BY <1>1 DEF ContentInv
<1>2. CASE Forward
  BY <1>0, <1>2 DEF Forward, ContentInv, Documents
<1>3. CASE Die
  BY <1>3 DEF Die, NoDocument, ContentInv
<1>4. CASE Spawn
  BY <1>4 DEF Spawn, DeadInv, ContentInv
<1>5. CASE Handle
  <2>0. server.alive
    BY <1>5 DEF Handle, DeadInv
  <2>1. CASE OpenMissing
    BY <2>1 DEF OpenMissing, NoDocument, ContentInv
  <2>2. ASSUME NEW content, OpenContent(content) PROVE ContentInv'
    <3>1. document'.content = content
      BY <1>0, <2>2 DEF OpenContent, Documents
    <3>2. CASE document.holders = 0 \/ document.content # content
      <4>1. server'.open = content
        BY <1>0, <2>2, <3>2 DEF OpenContent, Servers
      <4> QED BY <3>1, <4>1 DEF ContentInv
    <3>3. CASE document.holders # 0 /\ document.content = content
      <4>1. server' = server /\ document.holders > 0
        BY <1>0, <2>2, <3>3 DEF OpenContent, Documents
      <4> QED BY <2>0, <3>1, <3>3, <4>1 DEF ContentInv
    <3> QED BY <3>2, <3>3
  <2>3. CASE HandleClose
    <3>1. CASE document.holders = 0
      BY <2>3, <3>1 DEF HandleClose, ContentInv
    <3>2. CASE document.holders # 0 /\ Released(document).holders > 0
      <4>1. document' = Released(document) /\ server' = server
        BY <2>3, <3>2 DEF HandleClose
      <4>2. document'.content = document.content /\ document.holders > 0
        BY <1>0, <3>2, <4>1 DEF Released, Documents
      <4> QED BY <2>0, <4>1, <4>2 DEF ContentInv
    <3>3. CASE document.holders # 0 /\ ~(Released(document).holders > 0)
      <4>1. document' = [Released(document) EXCEPT !.needs_refresh = FALSE]
        BY <2>3, <3>3 DEF HandleClose
      <4>2. document'.holders = Released(document).holders
        BY <1>0, <4>1 DEF Released, Documents
      <4> QED BY <3>3, <4>2 DEF ContentInv
    <3> QED BY <3>1, <3>2, <3>3
  <2>4. CASE UNCHANGED <<document, server>>
    BY <2>4 DEF ContentInv
  <2> QED BY <1>5, <2>1, <2>2, <2>3, <2>4 DEF Handle, HandleOpen, HandleRequest, HandleWritten
<1> QED BY <1>1, <1>2, <1>3, <1>4, <1>5, DocumentSteps

\* Who is of which session, and who waits for an answer.
LEMMA SessionKept ==
  ASSUME TypeOK, SessionInv, SameServer, Joined
  PROVE  SessionInv'
<1>1. server.number \in Nat /\ \A t \in Tasks : tasks[t].session \in Nat
  BY DEF TypeOK, Servers, TaskStates
<1> QED BY <1>1 DEF SessionInv, SameServer, Joined

LEMMA SentKept ==
  ASSUME TypeOK, SentInv, SameServer, Joined,
         NEW command \in Commands, command.kind = "Request" => Attached(command.task),
         \/ commands' = commands \/ commands' = Append(commands, command)
         \/ commands # <<>> /\ commands' = Tail(commands)
  PROVE  SentInv'
<1>0. commands \in Seq(Commands) /\ \A i \in DOMAIN commands : commands[i] \in Commands
  BY DEF TypeOK
<1>1. ASSUME NEW c \in Commands, c.kind = "Request", tasks[c.task].session = server.number
      PROVE  tasks'[c.task].session = server'.number
  BY <1>1 DEF Commands, Joined, SameServer
<1>2. CASE commands' = commands
  BY <1>0, <1>1, <1>2 DEF SentInv
<1>3. CASE commands # <<>> /\ commands' = Tail(commands)
  <2>1. \A i \in DOMAIN commands' : i + 1 \in DOMAIN commands /\ commands'[i] = commands[i + 1]
    BY <1>0, <1>3
  <2> QED BY <1>0, <1>1, <2>1 DEF SentInv
<1>4. CASE commands' = Append(commands, command)
  <2>1. \A i \in DOMAIN commands' : (i \in DOMAIN commands /\ commands'[i] = commands[i]) \/ commands'[i] = command
    BY <1>0, <1>4
  <2> QED BY <1>0, <1>1, <1>4, <2>1 DEF SentInv, Attached
<1> QED BY <1>2, <1>3, <1>4

LEMMA HeldNext == IInv /\ HeldInv /\ Next => HeldInv'
<1> SUFFICES ASSUME TypeOK, DeadInv, HeldInv, Next PROVE HeldInv'
  BY DEF IInv
<1> USE DEF HeldInv
<1>0. ContentInv'
  BY ContentNext
<1>1. CASE Die
  <2>1. ~server'.alive /\ server'.number = server.number
    BY <1>1 DEF Die, TypeOK, Servers
  <2>2. Holding' = {}
    BY <2>1 DEF Holding, Attached
  <2>3. FiniteInv' /\ BalanceInv'
    BY <2>1, <2>2, FS_EmptySet DEF FiniteInv, BalanceInv
  <2>4. \A t \in Tasks : tasks'[t].session \in {1, tasks[t].session}
    BY <1>1 DEF Die, TypeOK, TaskStates, Task
  <2>5. SessionInv'
    BY <2>1, <2>4 DEF SessionInv
  <2>6. SentInv' /\ PendingInv'
    BY <1>1 DEF Die, SentInv, PendingInv
  <2> QED BY <1>0, <2>3, <2>5, <2>6
<1>2. CASE Spawn
  <2>0. server.number \in Nat /\ tasks \in [Tasks -> TaskStates] /\ \A t \in Tasks : tasks[t].session \in Nat
    BY DEF TypeOK, Servers, TaskStates
  <2>1. /\ commands' = <<>> /\ closes' = 0 /\ pending' = {} /\ document'.holders = 0 /\ R.at = "discover"
        /\ server'.number = server.number + 1
    BY <1>2 DEF Spawn, DeadInv, Started
  <2>2. tasks' = [tasks EXCEPT ![Refresher].session = server.number + 1]
    BY <1>2 DEF Spawn
  <2>3. /\ \A t \in Tasks \ {Refresher} : tasks'[t].session = tasks[t].session
        /\ R'.session = server.number + 1 /\ R'.at = "discover"
    BY <2>0, <2>1, <2>2, Fixed DEF R, TaskStates
  <2>4. SessionInv'
    <3>1. \A t \in Tasks : tasks'[t].session \in {tasks[t].session, server.number + 1}
      BY <2>3 DEF R
    <3> QED BY <2>0, <2>1, <3>1 DEF SessionInv
  <2>5. \A t \in Tasks \ {Refresher} : tasks'[t].session # server'.number
    BY <2>0, <2>1, <2>3 DEF SessionInv
  <2>6. Holding' = {}
    BY <2>3, <2>5 DEF Holding, Holds, Attached, R
  <2>7. FiniteInv' /\ BalanceInv'
    <3>1. Cardinality({}) = 0 /\ IsFiniteSet({})
      BY FS_EmptySet
    <3>2. Cardinality(Holding') + closes' = 0
      BY <2>1, <2>6, <3>1
    <3> QED BY <2>1, <2>6, <3>1, <3>2, BalancedEmpty DEF FiniteInv, BalanceInv
  <2>8. SentInv' /\ PendingInv'
    BY <2>1 DEF SentInv, PendingInv
  <2> QED BY <1>0, <2>4, <2>7, <2>8
<1>3. CASE Handle
  <2>1. SameServer /\ Joined /\ commands # <<>> /\ commands' = Tail(commands)
    BY <1>3, HandledStep DEF Handle
  <2>2. FiniteInv' /\ BalanceInv' /\ SessionInv' /\ SentInv'
    <3>1. FiniteInv' /\ BalanceInv' /\ SessionInv'
      BY <1>3, <2>1, BalanceHandle, SessionKept
    <3>2. Close \in Commands /\ Close.kind # "Request"
      BY Fixed DEF Close, Command
    <3>3. SentInv'
      BY <2>1, <3>2, SentKept
    <3> QED BY <3>1, <3>3
  <2>3. ASSUME NEW t \in pending' PROVE tasks'[t].at = "awaiting" /\ Attached(t)'
    <3>1. \/ t \in pending
          \/ t \in Tasks /\ tasks[t].at = "awaiting" /\ Head(commands).kind = "Request" /\ Head(commands).task = t
      BY <1>3, HandledStep
    <3>2. 1 \in DOMAIN commands /\ Head(commands) = commands[1] /\ server.alive
      BY <2>1 DEF TypeOK, DeadInv
    <3>3. t \in Tasks /\ tasks[t].at = "awaiting" /\ tasks[t].session = server.number
      BY <3>1, <3>2 DEF PendingInv, Attached, SentInv, TypeOK
    <3>4. tasks'[t].at = "awaiting" /\ tasks'[t].session = tasks[t].session
      BY <1>3, <3>3, HandledStep
    <3> QED BY <2>1, <3>2, <3>3, <3>4 DEF SameServer, Attached
  <2>4. PendingInv'
    BY <2>3 DEF PendingInv
  <2> QED BY <1>0, <2>2, <2>4
<1>4. ASSUME ~Handle, ~Die, ~Spawn PROVE HeldInv'
  <2>1. SameServer /\ Kept /\ Joined /\ Booked
    BY <1>4, BookedStep
  <2>2. server' = server /\ document'.holders = document.holders
    BY <1>4, DocumentSteps DEF Forward, TypeOK, Documents
  <2>3. FiniteInv' /\ BalanceInv'
    BY <2>1, <2>2, BalanceBooked
  <2>4. PICK command \in Commands :
          /\ commands' = commands \/ commands' = Append(commands, command)
          /\ command.kind = "Request" => Attached(command.task)
    <3>1. Close \in Commands /\ Close.kind # "Request"
      BY Fixed DEF Close, Command
    <3> QED BY <2>1, <3>1 DEF Booked, Noted, Entered, Left, Release, SendClose, Send, Holding
  <2>5. SessionInv' /\ SentInv'
    <3>1. SessionInv'
      BY <2>1, SessionKept
    <3>2. SentInv'
      BY <2>1, <2>4, SentKept
    <3> QED BY <3>1, <3>2
  <2>6. PendingInv'
    BY <2>1 DEF PendingInv, Kept, SameServer, Attached
  <2> QED BY <1>0, <2>3, <2>5, <2>6
<1> QED BY <1>1, <1>2, <1>3, <1>4

LEMMA HeldInit == Init => HeldInv
<1> SUFFICES ASSUME Init PROVE HeldInv
  OBVIOUS
<1>1. \A t \in Tasks : tasks[t].at \in {"discover", "new"} /\ tasks[t].session = 1
  BY DEF Init, Task
<1>2. Holding = {}
  BY <1>1 DEF Holding, Holds
<1>3. Cardinality({}) = 0 /\ IsFiniteSet({})
  BY FS_EmptySet
<1>4. commands = <<>> /\ closes = 0 /\ pending = {} /\ document.holders = 0 /\ server.number = 1
  BY DEF Init, NoDocument, Started
<1>5. FiniteInv /\ BalanceInv
  <2>1. Cardinality(Holding) + closes = 0
    BY <1>2, <1>3, <1>4
  <2> QED BY <1>2, <1>3, <1>4, <2>1, BalancedEmpty DEF FiniteInv, BalanceInv
<1>6. ContentInv /\ SessionInv /\ SentInv /\ PendingInv
  BY <1>1, <1>4 DEF ContentInv, SessionInv, SentInv, PendingInv
<1> QED BY <1>5, <1>6 DEF HeldInv

LEMMA HeldStutter == HeldInv /\ UNCHANGED vars => HeldInv'
BY DEF HeldInv, BalanceInv, FiniteInv, ContentInv, SessionInv, SentInv, PendingInv, Holding, Holds, Attached, vars

\* The books of the holders balance in every reachable state.
THEOREM HoldersBalance == Spec => []HeldInv
<1>1. IInv /\ HeldInv /\ [Next]_vars => HeldInv'
  BY HeldNext, HeldStutter
<1> QED BY <1>1, HeldInit, Invariance, PTL DEF Spec

\* Whatever calls overlap, are given up and release what they hold, through a channel with or without room:
\* as long as no file was missing when it was to be opened, a request that reaches the actor finds the file
\* open in the server.
THEOREM RequestsReachOpenDocumentsHolds == Spec => RequestsReachOpenDocuments
<1> DEFINE Open == Handle /\ Head(commands).kind = "Request" /\ ~server.missed => server.open # None
<1>1. IInv /\ HeldInv => Open
  <2> SUFFICES ASSUME IInv, HeldInv, Handle, Head(commands).kind = "Request", ~server.missed
               PROVE  server.open # None
    OBVIOUS
  <2>1. server.alive /\ commands # <<>>
    BY DEF IInv, Handle, DeadInv
  <2>2. document.holders > 0
    BY <2>1, BalanceHead DEF IInv, HeldInv
  <2> QED BY <2>1, <2>2, ConstantsAssumption DEF IInv, HeldInv, ContentInv, GivenInv
<1>2. IInv /\ HeldInv => [Open]_vars
  BY <1>1
<1> HIDE DEF Open
<1>3. Spec => [][Open]_vars
  BY <1>2, Invariance, HoldersBalance, PTL
<1> QED BY <1>3 DEF RequestsReachOpenDocuments, Open
=============================================================================
