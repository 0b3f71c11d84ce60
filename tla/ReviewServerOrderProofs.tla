------------------------ MODULE ReviewServerOrderProofs ------------------------
(***************************************************************************)
(* Proofs about what a session of ReviewServer shows, answers and          *)
(* completes, for any connections, targets and bounds: what a command      *)
(* brought about is shown before its answer, a review is of the target     *)
(* that was shown, a lookup reads what was shown, answers come in the      *)
(* order of the requests, a completion is lost only to a disruption, and   *)
(* the server implements ReviewCompletion.                                 *)
(***************************************************************************)
EXTENDS ReviewServerProofs

-----------------------------------------------------------------------------
(* The invariant of a session.                                              *)

\* No snapshot is of a later version than the repository has.
ChannelInv == \A t \in Targets : channel[t].loaded <= repo

\* What was shown last, and what a command is of.
ShownInv(c) ==
  /\ published[c] # NoDocument => shown[c] = published[c]
  /\ run[c].stage # "none" => run[c].target = target[c] /\ shown[c].target = target[c]
  /\ finished[c].stage # "none" =>
       IF finished[c].kind = "SetTarget" /\ finished[c].ok THEN finished[c].next = target[c]
       ELSE finished[c].target = target[c] /\ shown[c].target = target[c]

\* A session has one command at a time, and none before it serves.
WorkInv(c) ==
  /\ run[c].stage # "none" => phase[c] = "serving" /\ finished[c].stage = "none"
  /\ finished[c].stage # "none" => phase[c] \in {"serving", "completing"} /\ reply[c] = <<>>
  /\ phase[c] \notin {"serving", "completing"} =>
       queued[c] = <<>> /\ reply[c] = <<>> /\ published[c] = NoDocument

\* The state shows what the command is answered to have brought about.
Outcome(state, r) ==
  r.stage = "done" /\ r.ok =>
    /\ r.kind = "Refresh" => state.loaded >= r.since
    /\ r.kind = "Apply" => state.loaded >= r.since \/ state.error \/ ~watcherUp

FreshInv(c) ==
  /\ run[c].stage # "none" => run[c].since <= repo
  /\ phase[c] = "serving" => channel[target[c]].live
  /\ run[c].stage = "done" /\ run[c].kind = "SetTarget" /\ run[c].ok => channel[run[c].next].live
  /\ Outcome(channel[target[c]], run[c])
  /\ Outcome(current[c], finished[c])

SessionInv(c) == ShownInv(c) /\ WorkInv(c) /\ FreshInv(c)

-----------------------------------------------------------------------------
(* The numbers of the requests.                                             *)

Busy(c) == IF run[c].stage = "none" /\ finished[c].stage = "none" THEN 0 ELSE 1

\* Requests the session has taken from its transport.
Taken(c) == answered[c] + Busy(c) + Len(queued[c])
Answering(c) == phase[c] \in {"unused", "handshake", "greeting", "subscribing", "serving"}

\* What the transport carries: the requests from `first` + 1 to `last`, in order, among lookups.
Carries(box, first, last) ==
  /\ first <= last
  /\ \A i, j \in DOMAIN box :
       i < j /\ box[i].kind # "Lookup" /\ box[j].kind # "Lookup" => box[i].number < box[j].number
  /\ \A i \in DOMAIN box : box[i].kind # "Lookup" => box[i].number \in first + 1..last
  /\ \A n \in first + 1..last : \E i \in DOMAIN box : box[i].kind # "Lookup" /\ box[i].number = n

\* While a session may still answer, its requests are the next ones, in order, wherever they are: the
\* command, the queue, the transport.
NumberInv(c) ==
  Answering(c) =>
    /\ run[c].stage # "none" => run[c].number = answered[c] + 1
    /\ finished[c].stage # "none" => finished[c].number = answered[c] + 1
    /\ \A i \in DOMAIN queued[c] : queued[c][i].number = answered[c] + Busy(c) + i
    /\ Carries(inbox[c], Taken(c), sent[c].requests)

OrderInv ==
  /\ IInv /\ ChannelInv
  /\ \A c \in Connections : SessionInv(c) /\ NumberInv(c)

-----------------------------------------------------------------------------
(* A step of a connection leaves the others alone.                          *)

Step(c) ==
  Client(c) \/ Connect(c) \/ Establish(c) \/ LoopBody(c) \/ CommandFuture(c) \/ Select(c) \/ Close(c)

SessionSame(d) ==
  UNCHANGED <<phase[d], target[d], current[d], published[d], health[d], run[d], finished[d], queued[d], reply[d],
              shown[d], lookups[d]>>
WireSame(d) == UNCHANGED <<inbox[d], sent[d], answered[d]>>

LEMMA EndApart ==
  ASSUME TypeOK, NEW c \in Connections, NEW to, EndSession(c, to), NEW d \in Connections \ {c}
  PROVE  SessionSame(d)
BY DEF TypeOK, EndSession, SessionSame

LEMMA FailApart ==
  ASSUME TypeOK, NEW c \in Connections, NEW code, Fail(c, code), NEW d \in Connections \ {c}
  PROVE  SessionSame(d)
BY EndApart DEF Fail

LEMMA ClientApart ==
  ASSUME TypeOK, NEW c \in Connections, Client(c) \/ Connect(c), NEW d \in Connections \ {c}
  PROVE  SessionSame(d) /\ WireSame(d)
<1> USE DEF hostVars, repoVars, clientVars, lifeVars, viewVars, sentVars, workVars, ackVars, sessionVars,
            SessionSame, WireSame
<1>1. CASE ClientSends(c)
  BY <1>1 DEF TypeOK, ClientSends
<1>2. CASE ClientReads(c) \/ ClientHangsUp(c)
  BY <1>2 DEF TypeOK, ClientReads, ClientHangsUp
<1>3. CASE Connect(c)
  BY <1>3 DEF TypeOK, Connect
<1> QED BY <1>1, <1>2, <1>3 DEF Client

LEMMA EstablishApart ==
  ASSUME TypeOK, NEW c \in Connections, Establish(c) \/ Close(c), NEW d \in Connections \ {c}
  PROVE  SessionSame(d) /\ WireSame(d)
<1> USE DEF hostVars, repoVars, clientVars, lifeVars, viewVars, sentVars, workVars, ackVars, sessionVars
<1>1. CASE ReceiveHello(c)
  <2>1. WireSame(d)
    BY <1>1, SMTT(30) DEF TypeOK, ReceiveHello, Receive, WireSame
  <2>2. SessionSame(d)
    BY <1>1, FailApart DEF TypeOK, ReceiveHello, SessionSame
  <2> QED BY <2>1, <2>2
<1>2. CASE HelloFails(c)
  BY <1>2, FailApart DEF HelloFails, WireSame
<1>3. CASE Greet(c)
  <2>1. WireSame(d)
    BY <1>3 DEF Greet, WireSame
  <2>2. SessionSame(d)
    BY <1>3, FailApart DEF TypeOK, Greet, SessionSame
  <2> QED BY <2>1, <2>2
<1>4. CASE Subscribe(c)
  <2>1. WireSame(d)
    BY <1>4 DEF Subscribe, WireSame
  <2>2. SessionSame(d)
    BY <1>4, FailApart DEF TypeOK, Subscribe, SessionSame
  <2> QED BY <2>1, <2>2
<1>5. CASE ReportFailure(c)
  BY <1>5 DEF TypeOK, ReportFailure, SessionSame, WireSame
<1>6. CASE DropSession(c)
  <2>1. WireSame(d)
    BY <1>6 DEF TypeOK, DropSession, WireSame
  <2> QED BY <1>6, <2>1, EndApart DEF DropSession
<1>7. CASE CloseTransport(c)
  BY <1>7 DEF TypeOK, CloseTransport, SessionSame, WireSame
<1> QED BY <1>1, <1>2, <1>3, <1>4, <1>5, <1>6, <1>7 DEF Establish, Close

LEMMA LoopBodyApart ==
  ASSUME TypeOK, NEW c \in Connections, LoopBody(c), NEW d \in Connections \ {c}
  PROVE  SessionSame(d) /\ WireSame(d)
<1> USE DEF hostVars, repoVars, clientVars, lifeVars, viewVars, sentVars, workVars, ackVars, sessionVars
<1>1. CASE PublishDocument(c) \/ PublishFiles(c) \/ PublishHealth(c)
  BY <1>1 DEF TypeOK, PublishDocument, PublishFiles, PublishHealth, SessionSame, WireSame
<1>2. CASE PublishFails(c)
  BY <1>2, FailApart DEF PublishFails, WireSame
<1>3. CASE AnswerRequest(c)
  <2>1. WireSame(d)
    BY <1>3 DEF TypeOK, AnswerRequest, WireSame
  <2>2. SessionSame(d)
    BY <1>3, FailApart DEF TypeOK, AnswerRequest, SessionSame
  <2> QED BY <2>1, <2>2
<1>4. CASE PublishCompletion(c)
  <2>1. WireSame(d)
    BY <1>4 DEF TypeOK, PublishCompletion, WireSame
  <2> QED BY <1>4, <2>1, FailApart, EndApart DEF PublishCompletion
<1>5. CASE StartQueued(c)
  <2>1. WireSame(d)
    BY <1>5 DEF StartQueued, WireSame
  <2>2. CASE \E code : Fail(c, code)
    BY <2>1, <2>2, FailApart
  <2>3. CASE \E r : run' = [run EXCEPT ![c] = r] /\ queued' = [queued EXCEPT ![c] = Tail(@)]
                    /\ UNCHANGED <<lifeVars, viewVars, sentVars, finished, lookups, reply, shown>>
    BY <2>1, <2>3 DEF TypeOK, SessionSame
  <2> QED BY <1>5, <2>2, <2>3 DEF StartQueued
<1>6. CASE PublishReply(c)
  <2>1. WireSame(d)
    BY <1>6 DEF PublishReply, WireSame
  <2>2. SessionSame(d)
    BY <1>6, FailApart, ZenonT(60) DEF TypeOK, PublishReply, Borrow, SessionSame
  <2> QED BY <2>1, <2>2
<1> QED BY <1>1, <1>2, <1>3, <1>4, <1>5, <1>6 DEF LoopBody

LEMMA CommandFutureApart ==
  ASSUME TypeOK, NEW c \in Connections, CommandFuture(c), NEW d \in Connections \ {c}
  PROVE  SessionSame(d) /\ WireSame(d)
<1> USE DEF hostVars, repoVars, clientVars, lifeVars, viewVars, sentVars, workVars, ackVars, sessionVars
<1>1. CASE \E r : run' = [run EXCEPT ![c] = r]
  <2>1. run'[d] = run[d]
    BY <1>1 DEF TypeOK
  <2> QED BY <2>1 DEF CommandFuture, SwitchTarget, RefreshTarget, ApplyAction, SessionSame, WireSame
<1>2. \E r : run' = [run EXCEPT ![c] = r]
  BY DEF CommandFuture, SwitchTarget, RefreshTarget, ApplyAction, Done
<1> QED BY <1>1, <1>2

LEMMA SelectApart ==
  ASSUME TypeOK, NEW c \in Connections, Select(c), NEW d \in Connections \ {c}
  PROVE  SessionSame(d) /\ WireSame(d)
<1> USE DEF hostVars, repoVars, clientVars, lifeVars, viewVars, sentVars, workVars, ackVars, sessionVars
<1>1. CASE StateChanged(c) \/ LookupEnds(c) \/ Heartbeat(c)
  BY <1>1 DEF TypeOK, StateChanged, LookupEnds, Heartbeat, Borrow, SessionSame, WireSame
<1>2. CASE WatcherGone(c)
  BY <1>2, FailApart DEF WatcherGone, WireSame
<1>3. CASE ReceiveRequest(c) \/ ReceiveLookup(c)
  BY <1>3 DEF TypeOK, ReceiveRequest, ReceiveLookup, Receive, Borrow, SessionSame, WireSame
<1>4. CASE ReceiveFails(c)
  <2>1. WireSame(d)
    BY <1>4 DEF TypeOK, ReceiveFails, Receive, WireSame
  <2> QED BY <1>4, <2>1, FailApart DEF ReceiveFails
<1>5. CASE CommandEnds(c)
  BY <1>5, SMTT(30) DEF TypeOK, CommandEnds, Borrow, SessionSame, WireSame
<1> QED BY <1>1, <1>2, <1>3, <1>4, <1>5 DEF Select

LEMMA Apart ==
  ASSUME TypeOK, NEW c \in Connections, Step(c), NEW d \in Connections \ {c}
  PROVE  SessionSame(d) /\ WireSame(d)
BY ClientApart, EstablishApart, LoopBodyApart, CommandFutureApart, SelectApart DEF Step

-----------------------------------------------------------------------------
(* What the watcher and the repository do to a session.                     *)

\* A target that somebody receives is kept, and gets no older.
Better(t) ==
  channel[t].live =>
    /\ channel'[t].live /\ channel'[t].loaded \in Nat /\ channel'[t].loaded >= channel[t].loaded
    /\ channel'[t] = channel[t] \/ channel'[t].loaded = repo \/ channel'[t].error

Forward ==
  /\ repo' \in Nat /\ repo' >= repo /\ (watcherUp' => watcherUp)
  /\ \A t \in Targets : Better(t) \/ \A c \in Connections : ~Receives(c, t)

LEMMA Subscribed ==
  ASSUME TypeOK, NEW t \in Targets, SubscribeTo(t)
  PROVE  channel'[t].live
BY DEF TypeOK, SubscribeTo

LEMMA Loaded ==
  ASSUME TypeOK, NEW t \in Targets, channel[t].live, LoadInto(t)
  PROVE  channel'[t] = [live |-> TRUE, loaded |-> repo, error |-> FALSE]
BY DEF TypeOK, LoadInto

LEMMA FailedToLoad ==
  ASSUME TypeOK, NEW t \in Targets, channel[t].live, LoadFailsInto(t)
  PROVE  channel'[t] = [live |-> TRUE, loaded |-> channel[t].loaded, error |-> TRUE]
BY DEF TypeOK, LoadFailsInto, State

LEMMA ChannelSteps ==
  ASSUME TypeOK, ChannelInv, NEW t \in Targets, repo' \in Nat, repo' >= repo,
         SubscribeTo(t) \/ LoadInto(t) \/ LoadFailsInto(t) \/ UNCHANGED channel
  PROVE  ChannelInv' /\ \A u \in Targets : Better(u)
<1>1. channel \in [Targets -> State] /\ repo \in Nat
  BY DEF TypeOK
<1>2. \A u \in Targets : channel[u].loaded \in Nat /\ channel[u].loaded <= repo
  BY <1>1 DEF State, ChannelInv
<1>3. \A u \in Targets \ {t} : channel'[u] = channel[u]
  BY <1>1 DEF SubscribeTo, LoadInto, LoadFailsInto
<1>4. \/ channel'[t] = channel[t]
      \/ channel'[t] = [live |-> TRUE, loaded |-> repo, error |-> FALSE]
      \/ channel[t].live /\ channel'[t] = [live |-> TRUE, loaded |-> channel[t].loaded, error |-> TRUE]
  <2>1. CASE SubscribeTo(t)
    BY <1>1, <2>1 DEF SubscribeTo
  <2>2. CASE (LoadInto(t) \/ LoadFailsInto(t)) /\ ~channel[t].live
    BY <1>1, <2>2 DEF LoadInto, LoadFailsInto
  <2> QED BY <2>1, <2>2, Loaded, FailedToLoad
<1>5. channel'[t].loaded \in Nat /\ channel'[t].loaded <= repo'
  BY <1>1, <1>2, <1>4
<1>6. Better(t)
  BY <1>1, <1>2, <1>4 DEF Better
<1>7. \A u \in Targets \ {t} : Better(u) /\ channel'[u].loaded <= repo'
  BY <1>1, <1>2, <1>3 DEF Better
<1> QED BY <1>5, <1>6, <1>7 DEF ChannelInv

\* What is received is received until its session moves on.
LEMMA SessionKept ==
  ASSUME TypeOK, ChannelInv, NEW d \in Connections, SessionInv(d), SessionSame(d), Forward
  PROVE  SessionInv(d)'
<1> USE DEF SessionInv, SessionSame
<1>1. ShownInv(d)' /\ WorkInv(d)'
  BY DEF ShownInv, WorkInv
<1>2. /\ run[d] \in Run /\ finished[d] \in Run /\ target[d] \in Targets /\ run[d].next \in Targets
      /\ repo \in Nat /\ channel \in [Targets -> State] /\ run[d].since \in Nat
  BY DEF TypeOK, Run
<1>3. Better(target[d]) \/ phase[d] # "serving"
  BY <1>2 DEF Forward, Receives
<1>4. run[d].stage = "done" /\ run[d].kind = "SetTarget" /\ run[d].ok => Better(run[d].next)
  BY <1>2 DEF Forward, Receives
<1>5. run[d].stage # "none" => run[d].since <= repo'
  BY <1>2 DEF FreshInv, Forward
<1>6. Outcome(current[d], finished[d])'
  BY DEF FreshInv, Forward, Outcome
<1>7. Outcome(channel[target[d]], run[d])'
  <2>1. CASE run[d].stage = "none"
    BY <2>1 DEF Outcome
  <2>2. CASE run[d].stage # "none"
    <3>1. phase[d] = "serving" /\ channel[target[d]].live /\ run[d].since <= repo
      BY <2>2 DEF WorkInv, FreshInv
    <3>2. /\ channel'[target[d]].loaded \in Nat /\ channel'[target[d]].loaded >= channel[target[d]].loaded
          /\ \/ channel'[target[d]] = channel[target[d]]
             \/ channel'[target[d]].loaded = repo \/ channel'[target[d]].error
      BY <1>3, <3>1 DEF Better
    <3>3. Outcome(channel[target[d]], run[d])
      BY DEF FreshInv
    <3>4. channel[target[d]].loaded \in Nat /\ (channel'[target[d]] = channel[target[d]]
             \/ channel'[target[d]].loaded = repo \/ channel'[target[d]].error)
      BY <1>2, <3>2 DEF State
    <3> QED BY <1>2, <3>1, <3>2, <3>3, <3>4 DEF Outcome, Forward
  <2> QED BY <2>1, <2>2
<1> QED BY <1>1, <1>3, <1>4, <1>5, <1>6, <1>7 DEF FreshInv, Better

LEMMA ForwardSteps ==
  ASSUME TypeOK, ChannelInv, \A c \in Connections : SessionInv(c), Next
  PROVE  Forward /\ ChannelInv'
<1> USE DEF hostVars, repoVars, clientVars, lifeVars, viewVars, sentVars, workVars, ackVars, sessionVars
<1>0. repo \in Nat /\ watcherUp \in BOOLEAN /\ \A c \in Connections : target[c] \in Targets /\ run[c] \in Run
  BY DEF TypeOK
<1>1. CASE UNCHANGED <<channel, watcherUp>> /\ repo' \in {repo, repo + 1}
  <2>1. repo' \in Nat /\ repo' >= repo
    BY <1>0, <1>1
  <2> QED BY <1>0, <1>1, <2>1, Constants, ChannelSteps DEF Forward
<1>2. CASE UNCHANGED <<repo, watcherUp>> /\ \E t \in Targets : SubscribeTo(t) \/ LoadInto(t) \/ LoadFailsInto(t)
  BY <1>0, <1>2, ChannelSteps DEF Forward
<1>3. CASE WatcherStops
  <2>1. UNCHANGED <<channel, repo>> /\ repo' \in Nat /\ repo' >= repo /\ (watcherUp' => watcherUp)
    BY <1>0, <1>3 DEF WatcherStops
  <2> QED BY <2>1, Constants, ChannelSteps DEF Forward
<1>4. ASSUME NEW t \in Targets, WatcherForgets(t)
      PROVE  Forward /\ ChannelInv'
  <2>1. /\ channel' = [channel EXCEPT ![t] = Unsubscribed] /\ repo' = repo /\ watcherUp' = watcherUp
        /\ \A c \in Connections : ~Receives(c, t)
    BY <1>4 DEF WatcherForgets
  <2>2. channel \in [Targets -> State] /\ Unsubscribed.loaded = 0
    BY DEF TypeOK, Unsubscribed
  <2>3. \A u \in Targets \ {t} : channel'[u] = channel[u] /\ channel[u].loaded \in Nat
    BY <2>1, <2>2 DEF State
  <2>4. channel'[t].loaded = 0
    BY <2>1, <2>2
  <2>5. ChannelInv'
    BY <1>0, <2>1, <2>3, <2>4 DEF ChannelInv
  <2>6. \A u \in Targets \ {t} : Better(u)
    BY <2>3 DEF Better
  <2> QED BY <1>0, <2>1, <2>5, <2>6 DEF Forward
<1>5. ASSUME NEW c \in Connections, Step(c), ~CommandFuture(c), ~Subscribe(c)
      PROVE  UNCHANGED repoVars
  <2>1. CASE Client(c) \/ Connect(c)
    BY <2>1 DEF Client, ClientSends, ClientReads, ClientHangsUp, Connect
  <2>2. CASE Establish(c) \/ Close(c)
    BY <1>5, <2>2 DEF Establish, ReceiveHello, HelloFails, Greet, Close, ReportFailure, DropSession, CloseTransport
  <2>3. CASE LoopBody(c)
    BY <2>3 DEF LoopBody, PublishDocument, PublishFiles, PublishHealth, PublishFails, AnswerRequest,
                PublishCompletion, StartQueued, PublishReply
  <2>4. CASE Select(c)
    BY <2>4 DEF Select, StateChanged, WatcherGone, ReceiveRequest, ReceiveLookup, ReceiveFails, LookupEnds,
                Heartbeat, CommandEnds
  <2> QED BY <1>5, <2>1, <2>2, <2>3, <2>4 DEF Step
<1>6. ASSUME NEW c \in Connections, Subscribe(c) PROVE Forward /\ ChannelInv'
  <2>1. UNCHANGED <<repo, watcherUp>> /\ (SubscribeTo(target[c]) \/ UNCHANGED channel)
    BY <1>6 DEF Subscribe
  <2> QED BY <1>0, <1>1, <1>2, <2>1
<1>7. ASSUME NEW c \in Connections, CommandFuture(c) PROVE Forward /\ ChannelInv'
  <2>1. run[c].target \in Targets /\ run[c].next \in Targets
    BY <1>0 DEF Run
  <2>2. CASE SwitchTarget(c)
    BY <1>1, <1>2, <2>1, <2>2 DEF SwitchTarget
  <2>3. CASE RefreshTarget(c)
    <3>1. UNCHANGED <<repo, watcherUp>>
           /\ (LoadInto(run[c].target) \/ LoadFailsInto(run[c].target) \/ UNCHANGED channel)
      BY <2>3 DEF RefreshTarget
    <3> QED BY <1>1, <1>2, <2>1, <3>1
  <2>4. CASE ApplyAction(c)
    BY <1>1, <2>4 DEF ApplyAction
  <2> QED BY <1>7, <2>2, <2>3, <2>4 DEF CommandFuture
<1>8. CASE NextReview \/ StopServer \/ GiveUp \/ RepositoryChanges \/ Terminated
  BY <1>1, <1>8 DEF NextReview, StopServer, GiveUp, RepositoryChanges, Terminated, vars
<1>9. CASE Watcher
  <2>1. PICK t \in Targets : WatcherLoads(t) \/ WatcherForgets(t)
    BY <1>9 DEF Watcher
  <2> QED BY <1>2, <1>4, <2>1 DEF WatcherLoads
<1> QED BY <1>1, <1>3, <1>5, <1>6, <1>7, <1>8, <1>9 DEF Next, Step

-----------------------------------------------------------------------------
(* A session's own steps.                                                   *)

LEMMA EndedSession ==
  ASSUME TypeOK, NEW c \in Connections, NEW to \in {"failed", "closing"}, EndSession(c, to)
  PROVE  SessionInv(c)'
<1>1. /\ phase'[c] = to /\ run'[c] = NoRun /\ finished'[c] = NoRun /\ queued'[c] = <<>> /\ reply'[c] = <<>>
      /\ published'[c] = NoDocument
  BY DEF TypeOK, EndSession
<1>2. NoRun.stage = "none"
  BY DEF NoRun
<1> QED BY <1>1, <1>2 DEF SessionInv, ShownInv, WorkInv, FreshInv, Outcome

LEMMA FailedSession ==
  ASSUME TypeOK, NEW c \in Connections, NEW code, Fail(c, code)
  PROVE  SessionInv(c)'
BY EndedSession DEF Fail

\* The next iteration, with nothing finished.
LEMMA BorrowedSession ==
  ASSUME TypeOK, ChannelInv, NEW c \in Connections, SessionInv(c), Forward, Borrow(c),
         finished[c].stage = "none", phase[c] = "serving", reply'[c] \in {<<>>, reply[c]},
         UNCHANGED <<phase[c], target[c], published[c], run[c], finished[c], shown[c]>>
  PROVE  SessionInv(c)'
<1>1. ShownInv(c)' /\ WorkInv(c)'
  BY DEF SessionInv, ShownInv, WorkInv
<1>2. \A t \in Targets : Receives(c, t) => Better(t)
  BY DEF Forward
<1>3. run[c] \in Run /\ target[c] \in Targets /\ channel \in [Targets -> State] /\ run[c].since \in Nat /\ repo \in Nat
  BY DEF TypeOK, Run
<1>4. Better(target[c]) /\ channel[target[c]].live
  BY <1>2, <1>3 DEF Receives, SessionInv, FreshInv
<1>5. Outcome(channel[target[c]], run[c])'
  <2>1. Outcome(channel[target[c]], run[c]) /\ (run[c].stage # "none" => run[c].since <= repo)
    BY DEF SessionInv, FreshInv
  <2>2. channel[target[c]].loaded \in Nat
    BY <1>3 DEF State
  <2> QED BY <1>3, <1>4, <2>1, <2>2 DEF Outcome, Better, Forward
<1>6. run[c].stage = "done" /\ run[c].kind = "SetTarget" /\ run[c].ok => channel'[run[c].next].live
  BY <1>2, <1>3 DEF Receives, SessionInv, FreshInv, Better, Run
<1>7. run[c].stage # "none" => run[c].since <= repo'
  BY <1>3 DEF Forward, SessionInv, FreshInv
<1> QED BY <1>1, <1>4, <1>5, <1>6, <1>7 DEF SessionInv, FreshInv, Outcome, Better

LEMMA EstablishSession ==
  ASSUME TypeOK, ChannelInv, NEW c \in Connections, SessionInv(c), Connect(c) \/ Establish(c)
  PROVE  SessionInv(c)'
<1> USE DEF hostVars, repoVars, clientVars, lifeVars, viewVars, sentVars, workVars, ackVars, sessionVars
<1>0. /\ phase \in [Connections -> Phases] /\ target \in [Connections -> Targets]
      /\ channel \in [Targets -> State] /\ current \in [Connections -> State]
  BY DEF TypeOK
<1>1. CASE \E code : Fail(c, code)
  BY <1>1, FailedSession
<1>2. CASE /\ phase[c] \notin {"serving", "completing"} /\ phase'[c] \notin {"serving", "completing"}
           /\ UNCHANGED <<published, run, finished, queued, reply, shown>>
  BY <1>2 DEF SessionInv, ShownInv, WorkInv, FreshInv, Outcome
<1>3. CASE /\ phase[c] \notin {"serving", "completing"}
           /\ phase'[c] = "serving" /\ SubscribeTo(target[c])
           /\ UNCHANGED <<target, published, run, finished, queued, reply, shown>>
  <2>1. channel'[target[c]].live
    BY <1>0, <1>3, Subscribed
  <2> QED BY <1>3, <2>1 DEF SessionInv, ShownInv, WorkInv, FreshInv, Outcome
<1>4. CASE Connect(c)
  BY <1>0, <1>2, <1>4 DEF Connect
<1>5. CASE ReceiveHello(c)
  BY <1>0, <1>1, <1>2, <1>5 DEF ReceiveHello
<1>6. CASE HelloFails(c)
  BY <1>1, <1>6 DEF HelloFails
<1>7. CASE Greet(c)
  BY <1>0, <1>1, <1>2, <1>7 DEF Greet
<1>8. CASE Subscribe(c)
  BY <1>0, <1>1, <1>3, <1>8 DEF Subscribe
<1> QED BY <1>4, <1>5, <1>6, <1>7, <1>8 DEF Establish

\* What a session that is up to date has shown.
LEMMA UpToDateIsShown ==
  ASSUME TypeOK, NEW c \in Connections, ShownInv(c), UpToDate(c)
  PROVE  shown[c] = Snapshot(c) /\ published[c] = Snapshot(c) /\ shown[c].loaded = current[c].loaded
         /\ shown[c].loaded >= 0 /\ health[c] = current[c].error
<1>1. published[c] = Snapshot(c)
  BY DEF UpToDate, DocumentDue
<1>2. current[c].loaded \in Nat /\ Snapshot(c).loaded = current[c].loaded
  BY DEF TypeOK, State, Snapshot
<1>3. published[c] # NoDocument
  BY <1>1, <1>2 DEF NoDocument
<1>4. health[c] = current[c].error
  BY DEF UpToDate, HealthDue
<1> QED BY <1>1, <1>2, <1>3, <1>4 DEF ShownInv

LEMMA PublishSession ==
  ASSUME TypeOK, ChannelInv, NEW c \in Connections, SessionInv(c), Forward,
         PublishDocument(c) \/ PublishFiles(c) \/ PublishHealth(c) \/ PublishFails(c) \/ PublishReply(c)
  PROVE  SessionInv(c)'
<1> USE DEF hostVars, repoVars, clientVars, lifeVars, viewVars, sentVars, workVars, ackVars, sessionVars
<1>1. CASE PublishDocument(c)
  <2>1. published'[c] = Snapshot(c) /\ shown'[c] = Snapshot(c) /\ Snapshot(c).target = target[c]
    BY <1>1 DEF TypeOK, PublishDocument, Snapshot
  <2>2. UNCHANGED <<phase, target, current, run, finished, queued, reply, channel, repo, watcherUp>>
        /\ phase[c] = "serving"
    BY <1>1 DEF PublishDocument, Serving
  <2>3. ShownInv(c)'
    BY <2>1, <2>2 DEF SessionInv, ShownInv
  <2>4. WorkInv(c)'
    BY <2>2 DEF SessionInv, WorkInv
  <2>5. FreshInv(c)'
    BY <2>2 DEF SessionInv, FreshInv, Outcome
  <2> QED BY <2>3, <2>4, <2>5 DEF SessionInv
<1>2. CASE PublishFiles(c) \/ PublishHealth(c)
  BY <1>2 DEF PublishFiles, PublishHealth, SessionInv, ShownInv, WorkInv, FreshInv, Outcome
<1>3. CASE PublishFails(c)
  BY <1>3, FailedSession DEF PublishFails
<1>4. CASE PublishReply(c)
  <2>1. CASE \E code : Fail(c, code)
    BY <2>1, FailedSession
  <2>2. CASE reply' = [reply EXCEPT ![c] = <<>>] /\ Borrow(c)
             /\ UNCHANGED <<lifeVars, target, sentVars, queued, run, finished, lookups, shown>>
    <3>1. finished[c].stage = "none" /\ phase[c] = "serving"
      BY <1>4 DEF PublishReply, SessionInv, WorkInv
    <3>2. reply'[c] = <<>>
      BY <2>2 DEF TypeOK
    <3> QED BY <2>2, <3>1, <3>2, BorrowedSession
  <2> QED BY <1>4, <2>1, <2>2 DEF PublishReply
<1> QED BY <1>1, <1>2, <1>3, <1>4

LEMMA AnswerSession ==
  ASSUME TypeOK, ChannelInv, NEW c \in Connections, SessionInv(c), AnswerRequest(c) \/ PublishCompletion(c)
  PROVE  SessionInv(c)'
<1> USE DEF hostVars, repoVars, clientVars, lifeVars, viewVars, sentVars, workVars, ackVars, sessionVars
<1>1. CASE \E code : Fail(c, code)
  BY <1>1, FailedSession
<1>2. CASE EndSession(c, "closing")
  BY <1>2, EndedSession
<1>3. CASE AnswerRequest(c) /\ phase' = [phase EXCEPT ![c] = "completing"] /\ UNCHANGED finished
  <2>1. UNCHANGED <<target, current, published, run, finished, queued, reply, shown, channel, repo, watcherUp>>
    <3>1. \A code : Fail(c, code) => phase'[c] = "failed"
      BY DEF TypeOK, Fail, EndSession
    <3>2. phase'[c] = "completing"
      BY <1>3 DEF TypeOK
    <3> QED BY <1>3, <3>1, <3>2 DEF AnswerRequest
  <2>2. phase'[c] = "completing" /\ phase[c] = "serving" /\ finished[c].stage = "done" /\ reply[c] = <<>>
    BY <1>3 DEF TypeOK, AnswerRequest, Serving, AnswerDue
  <2> QED BY <2>1, <2>2 DEF SessionInv, ShownInv, WorkInv, FreshInv, Outcome
<1>4. CASE AnswerRequest(c) /\ finished' = [finished EXCEPT ![c] = NoRun] /\ UNCHANGED phase
  <2>1. UNCHANGED <<phase, target, current, published, run, queued, reply, shown, channel, repo, watcherUp>>
    BY <1>4 DEF TypeOK, AnswerRequest, Fail, EndSession, Serving
  <2>2. finished'[c].stage = "none" /\ phase[c] = "serving"
    BY <1>4 DEF TypeOK, AnswerRequest, Serving, NoRun
  <2> QED BY <2>1, <2>2 DEF SessionInv, ShownInv, WorkInv, FreshInv, Outcome
<1>5. CASE AnswerRequest(c)
  BY <1>1, <1>3, <1>4, <1>5 DEF AnswerRequest
<1>6. CASE PublishCompletion(c)
  BY <1>1, <1>2, <1>6 DEF PublishCompletion
<1> QED BY <1>5, <1>6

LEMMA StartSession ==
  ASSUME TypeOK, ChannelInv, NEW c \in Connections, SessionInv(c), StartQueued(c)
  PROVE  SessionInv(c)'
<1> USE DEF hostVars, repoVars, clientVars, lifeVars, viewVars, sentVars, workVars, ackVars, sessionVars
<1> DEFINE command == Head(queued[c])
           started == [stage |-> "requested", kind |-> command.kind, number |-> command.number,
                       target |-> target[c], next |-> command.target, ok |-> FALSE, since |-> repo]
           ended == [started EXCEPT !.stage = "done", !.ok = Reserves(command.kind)]
<1>1. CASE Fail(c, "Protocol")
  BY <1>1, FailedSession
<1>2. CASE run' = [run EXCEPT ![c] = started] \/ (run' = [run EXCEPT ![c] = ended] /\ command.kind \in Completing)
  <2>1. /\ run'[c].stage \in {"requested", "done"} /\ run'[c].target = target[c] /\ run'[c].since = repo
        /\ run'[c].stage = "done" => run'[c].kind \notin {"SetTarget", "Refresh", "Apply"}
    <3>1. run'[c] = started \/ (run'[c] = ended /\ command.kind \in Completing)
      BY <1>2 DEF TypeOK
    <3>2. ended.stage = "done" /\ ended.target = target[c] /\ ended.since = repo /\ ended.kind = command.kind
      OBVIOUS
    <3>3. started.stage = "requested" /\ started.target = target[c] /\ started.since = repo
      OBVIOUS
    <3> HIDE DEF started, ended, command
    <3> QED BY <3>1, <3>2, <3>3 DEF Completing
  <2>2. UNCHANGED <<phase, target, current, published, finished, reply, shown, channel, repo, watcherUp>>
    <3>1. phase[c] = "serving" /\ (Fail(c, "Protocol") => run'[c].stage = "none")
      BY DEF StartQueued, Serving, Fail, EndSession, TypeOK, NoRun
    <3>2. ~Fail(c, "Protocol")
      BY <2>1, <3>1
    <3> QED BY <3>2 DEF StartQueued
  <2>3. phase[c] = "serving" /\ finished[c].stage = "none" /\ shown[c] = Snapshot(c)
    BY UpToDateIsShown DEF StartQueued, StartDue, Serving, SessionInv
  <2>4. shown[c].target = target[c] /\ repo \in Nat
    BY <2>3 DEF Snapshot, TypeOK
  <2> HIDE DEF started, ended, command
  <2> QED BY <2>1, <2>2, <2>3, <2>4 DEF SessionInv, ShownInv, WorkInv, FreshInv, Outcome
<1> QED BY <1>1, <1>2 DEF StartQueued

LEMMA FutureSession ==
  ASSUME TypeOK, ChannelInv, RefreshingApplies, NEW c \in Connections, SessionInv(c), Forward, CommandFuture(c)
  PROVE  SessionInv(c)'
<1> USE DEF hostVars, repoVars, clientVars, lifeVars, viewVars, sentVars, workVars, ackVars, sessionVars
<1>0. /\ run \in [Connections -> Run] /\ run[c] \in Run /\ run[c].target \in Targets /\ run[c].next \in Targets
      /\ run[c].since \in Nat /\ repo \in Nat /\ run[c].stage \in {"requested", "refreshing"}
  BY DEF TypeOK, Run, CommandFuture, SwitchTarget, RefreshTarget, ApplyAction
<1>00. /\ UNCHANGED <<phase, target, current, published, finished, queued, reply, shown>>
       /\ phase[c] = "serving" /\ finished[c].stage = "none"
       /\ run[c].target = target[c] /\ shown[c].target = target[c] /\ run[c].since <= repo
       /\ channel[target[c]].live
  BY <1>0 DEF CommandFuture, SwitchTarget, RefreshTarget, ApplyAction, SessionInv, WorkInv, ShownInv, FreshInv
<1>1. channel'[target[c]].live /\ repo' \in Nat /\ repo' >= repo
  <2>1. Better(target[c])
    BY <1>00 DEF Forward, Receives, TypeOK
  <2> QED BY <1>00, <2>1 DEF Better, Forward
<1>2. ASSUME NEW ok \in BOOLEAN, Done(c, ok)
      PROVE  run'[c] = [run[c] EXCEPT !.stage = "done", !.ok = ok]
  BY <1>0, <1>2 DEF Done
\* What is left to show of the command's new stage.
<1>3. ASSUME run'[c].stage # "none", run'[c].target = target[c], run'[c].since <= repo',
             run'[c].stage = "done" /\ run'[c].kind = "SetTarget" /\ run'[c].ok => channel'[run'[c].next].live,
             Outcome(channel[target[c]], run[c])'
      PROVE  SessionInv(c)'
  BY <1>00, <1>1, <1>3 DEF SessionInv, WorkInv, ShownInv, FreshInv, Outcome
<1>4. CASE SwitchTarget(c)
  <2>1. PICK ok \in BOOLEAN : Done(c, ok) /\ (ok => SubscribeTo(run[c].next))
    BY <1>4 DEF SwitchTarget
  <2>2. run'[c] = [run[c] EXCEPT !.stage = "done", !.ok = ok]
    BY <1>2, <2>1
  <2>3. /\ run'[c].stage = "done" /\ run'[c].ok = ok /\ run'[c].kind = "SetTarget" /\ run'[c].target = run[c].target
        /\ run'[c].since = run[c].since /\ run'[c].next = run[c].next /\ repo' = repo
    BY <1>0, <1>4, <2>2 DEF Run, SwitchTarget
  <2>4. ok => channel'[run[c].next].live
    BY <1>0, <2>1, Subscribed
  <2> QED BY <1>00, <1>3, <2>3, <2>4 DEF Outcome
<1>5. CASE RefreshTarget(c)
  <2>1. PICK ok \in BOOLEAN : Done(c, ok)
    BY <1>5 DEF RefreshTarget
  <2>2. run'[c] = [run[c] EXCEPT !.stage = "done", !.ok = ok]
    BY <1>2, <2>1
  <2>3. /\ run'[c].stage = "done" /\ run'[c].ok = ok /\ run'[c].kind = run[c].kind /\ run'[c].target = run[c].target
        /\ run'[c].since = run[c].since /\ repo' = repo /\ watcherUp' = watcherUp
    BY <1>0, <1>5, <2>2 DEF Run, RefreshTarget
  <2>4. run[c].kind \in {"Refresh", "Apply"}
    BY <1>5 DEF RefreshTarget, RefreshingApplies
  <2>5. \/ channel'[target[c]].loaded = repo
        \/ run[c].kind = "Apply" /\ channel'[target[c]].error
        \/ run[c].kind = "Apply" /\ ~watcherUp
        \/ ~ok
    <3>1. CASE watcherUp /\ LoadInto(run[c].target)
      BY <1>0, <1>00, <3>1, Loaded
    <3>2. CASE watcherUp /\ LoadFailsInto(run[c].target) /\ Done(c, run[c].kind = "Apply")
      <4>0. channel'[target[c]] = [live |-> TRUE, loaded |-> channel[target[c]].loaded, error |-> TRUE]
        BY <1>0, <1>00, <3>2, FailedToLoad
      <4>1. channel'[target[c]].error
        BY <4>0
      <4>2. run'[c] = [run[c] EXCEPT !.stage = "done", !.ok = (run[c].kind = "Apply")]
        BY <1>2, <3>2
      <4>3. ok => run[c].kind = "Apply"
        BY <1>0, <2>3, <4>2 DEF Run
      <4> QED BY <4>1, <4>3
    <3>3. CASE ~watcherUp /\ Done(c, run[c].kind = "Apply")
      <4>1. run'[c] = [run[c] EXCEPT !.stage = "done", !.ok = (run[c].kind = "Apply")]
        BY <1>2, <3>3
      <4>2. ok => run[c].kind = "Apply"
        BY <1>0, <2>3, <4>1 DEF Run
      <4> QED BY <3>3, <4>2
    <3> QED BY <1>5, <3>1, <3>2, <3>3 DEF RefreshTarget
  <2>6. Outcome(channel[target[c]], run[c])'
    BY <1>0, <1>00, <2>3, <2>4, <2>5 DEF Outcome
  <2> QED BY <1>0, <1>00, <1>3, <2>3, <2>4, <2>6
<1>6. CASE ApplyAction(c)
  <2>1. CASE run' = [run EXCEPT ![c] = [@ EXCEPT !.stage = "refreshing", !.since = repo + 1]] /\ repo' = repo + 1
    <3>1. run'[c] = [run[c] EXCEPT !.stage = "refreshing", !.since = repo + 1]
      BY <1>0, <2>1
    <3>2. run'[c].stage = "refreshing" /\ run'[c].since = repo' /\ run'[c].target = run[c].target
      BY <1>0, <2>1, <3>1 DEF Run
    <3> QED BY <1>00, <1>1, <1>3, <3>2 DEF Outcome
  <2>2. CASE Done(c, FALSE)
    <3>1. run'[c] = [run[c] EXCEPT !.stage = "done", !.ok = FALSE]
      BY <1>2, <2>2
    <3>2. run'[c].stage = "done" /\ run'[c].ok = FALSE /\ run'[c].since = run[c].since /\ run'[c].target = run[c].target
      BY <1>0, <3>1 DEF Run
    <3> QED BY <1>0, <1>00, <1>1, <1>3, <3>2 DEF Outcome
  <2> QED BY <1>6, <2>1, <2>2 DEF ApplyAction
<1> QED BY <1>4, <1>5, <1>6 DEF CommandFuture

LEMMA SelectSession ==
  ASSUME TypeOK, ChannelInv, NEW c \in Connections, SessionInv(c), Forward, Select(c)
  PROVE  SessionInv(c)'
<1> USE DEF hostVars, repoVars, clientVars, lifeVars, viewVars, sentVars, workVars, ackVars, sessionVars
<1>1. CASE \E code : Fail(c, code)
  BY <1>1, FailedSession
<1>2. AtSelect(c) /\ phase[c] = "serving" /\ finished[c].stage = "none" /\ reply[c] = <<>>
  BY DEF Select, StateChanged, WatcherGone, ReceiveRequest, ReceiveLookup, ReceiveFails, LookupEnds, Heartbeat,
         CommandEnds, AtSelect, Serving
<1>3. CASE StateChanged(c) \/ ReceiveRequest(c) \/ ReceiveLookup(c)
  BY <1>2, <1>3, BorrowedSession DEF StateChanged, ReceiveRequest, ReceiveLookup
<1>4. CASE WatcherGone(c) \/ ReceiveFails(c)
  BY <1>1, <1>4 DEF WatcherGone, ReceiveFails
<1>5. CASE LookupEnds(c) \/ Heartbeat(c)
  BY <1>2, <1>5 DEF LookupEnds, Heartbeat, SessionInv, ShownInv, WorkInv, FreshInv, Outcome
<1>6. CASE CommandEnds(c)
  <2>1. /\ finished'[c] = run[c] /\ run'[c] = NoRun /\ run[c].stage = "done"
        /\ UNCHANGED <<phase, queued, reply, shown, channel, repo, watcherUp>>
    BY <1>6 DEF TypeOK, CommandEnds
  <2>2. NoRun.stage = "none" /\ run[c].target = target[c] /\ shown[c].target = target[c]
    BY <2>1 DEF NoRun, SessionInv, ShownInv
  <2>3. WorkInv(c)'
    BY <1>2, <2>1, <2>2 DEF WorkInv
  <2>4. CASE run[c].kind = "SetTarget" /\ run[c].ok
    <3>1. target'[c] = run[c].next /\ published'[c] = NoDocument
      BY <1>6, <2>4 DEF TypeOK, CommandEnds
    <3>2. channel[run[c].next].live
      BY <2>1, <2>4 DEF SessionInv, FreshInv
    <3>3. ShownInv(c)' /\ FreshInv(c)'
      BY <2>1, <2>2, <2>4, <3>1, <3>2 DEF ShownInv, FreshInv, Outcome
    <3> QED BY <2>3, <3>3 DEF SessionInv
  <2>5. CASE ~(run[c].kind = "SetTarget" /\ run[c].ok)
    <3>1. current'[c] = channel[target[c]] /\ UNCHANGED <<target, published>>
      BY <1>6, <2>5 DEF TypeOK, CommandEnds, Borrow
    <3>2. Outcome(channel[target[c]], run[c]) /\ channel[target[c]].live
      BY <1>2 DEF SessionInv, FreshInv
    <3>3. ShownInv(c)' /\ FreshInv(c)'
      BY <1>2, <2>1, <2>2, <2>5, <3>1, <3>2 DEF SessionInv, ShownInv, FreshInv, Outcome
    <3> QED BY <2>3, <3>3 DEF SessionInv
  <2> QED BY <2>4, <2>5
<1> QED BY <1>3, <1>4, <1>5, <1>6 DEF Select

LEMMA CloseSession ==
  ASSUME TypeOK, NEW c \in Connections, SessionInv(c), Close(c)
  PROVE  SessionInv(c)'
<1> USE DEF hostVars, repoVars, clientVars, lifeVars, viewVars, sentVars, workVars, ackVars, sessionVars
<1>1. CASE ReportFailure(c)
  <2>1. /\ phase[c] = "failed" /\ phase'[c] = "closing"
        /\ UNCHANGED <<target, current, published, run, finished, queued, reply, shown, repoVars>>
    BY <1>1 DEF TypeOK, ReportFailure
  <2> QED BY <2>1 DEF SessionInv, ShownInv, WorkInv, FreshInv, Outcome
<1>2. CASE DropSession(c)
  BY <1>2, EndedSession DEF DropSession
<1>3. CASE CloseTransport(c)
  <2>1. /\ phase[c] = "closing" /\ phase'[c] = "closed"
        /\ UNCHANGED <<target, current, published, run, finished, queued, reply, shown, repoVars>>
    BY <1>3 DEF TypeOK, CloseTransport
  <2> QED BY <2>1 DEF SessionInv, ShownInv, WorkInv, FreshInv, Outcome
<1> QED BY <1>1, <1>2, <1>3 DEF Close

LEMMA SessionStep ==
  ASSUME IInv, ChannelInv, \A c \in Connections : SessionInv(c), Next, NEW d \in Connections
  PROVE  SessionInv(d)'
<1> USE DEF hostVars, repoVars, clientVars, lifeVars, viewVars, sentVars, workVars, ackVars, sessionVars
<1>0. TypeOK /\ RefreshingApplies /\ Forward
  BY ForwardSteps DEF IInv, CompletionInv
<1>1. CASE SessionSame(d)
  BY <1>0, <1>1, SessionKept
<1>2. CASE NextReview \/ StopServer \/ GiveUp \/ RepositoryChanges \/ Watcher \/ WatcherStops \/ Terminated
  <2>1. SessionSame(d)
    BY <1>2 DEF NextReview, StopServer, GiveUp, RepositoryChanges, Watcher, WatcherLoads, WatcherForgets, WatcherStops,
                Terminated, vars, SessionSame
  <2> QED BY <1>1, <2>1
<1>3. ASSUME NEW c \in Connections, Step(c), c # d PROVE SessionInv(d)'
  BY <1>0, <1>1, <1>3, Apart
<1>4. CASE Client(d)
  <2>1. SessionSame(d)
    BY <1>4 DEF Client, ClientSends, ClientReads, ClientHangsUp, SessionSame
  <2> QED BY <1>1, <2>1
<1>5. CASE Step(d)
  BY <1>0, <1>4, <1>5, EstablishSession, PublishSession, AnswerSession, StartSession, FutureSession, SelectSession,
     CloseSession DEF Step, LoopBody
<1> QED BY <1>2, <1>3, <1>5 DEF Next, Step

-----------------------------------------------------------------------------
(* The requests in the transport.                                           *)

LEMMA CarriesAppended ==
  ASSUME NEW box \in Seq(Command), NEW first \in Nat, NEW last \in Nat, Carries(box, first, last),
         NEW command \in Command, command.kind # "Lookup", command.number = last + 1
  PROVE  Carries(Append(box, command), first, last + 1)
<1> DEFINE longer == Append(box, command)
<1>1. /\ DOMAIN box = 1..Len(box) /\ DOMAIN longer = 1..Len(box) + 1 /\ Len(box) \in Nat
      /\ \A i \in 1..Len(box) : longer[i] = box[i]
      /\ longer[Len(box) + 1] = command
  OBVIOUS
<1>2. \A i \in 1..Len(box) : box[i].number \in Nat
  <2>1. \A i \in 1..Len(box) : box[i] \in Command
    OBVIOUS
  <2> QED BY <2>1 DEF Command
<1> HIDE DEF longer
<1>3. \A i \in DOMAIN longer : longer[i].kind # "Lookup" => longer[i].number \in first + 1..last + 1
  BY <1>1, <1>2, SMTT(30) DEF Carries
<1>4. \A i, j \in DOMAIN longer :
         i < j /\ longer[i].kind # "Lookup" /\ longer[j].kind # "Lookup" => longer[i].number < longer[j].number
  BY <1>1, <1>2, SMTT(30) DEF Carries
<1>5. \A n \in first + 1..last + 1 : \E i \in DOMAIN longer : longer[i].kind # "Lookup" /\ longer[i].number = n
  <2> TAKE n \in first + 1..last + 1
  <2>1. CASE n = last + 1
    BY <1>1, <2>1
  <2>2. CASE n \in first + 1..last
    BY <1>1, <2>2, SMTT(30) DEF Carries
  <2> QED BY <2>1, <2>2
<1>6. first <= last + 1
  BY DEF Carries
<1> QED BY <1>3, <1>4, <1>5, <1>6 DEF Carries, longer

LEMMA CarriesLookup ==
  ASSUME NEW box \in Seq(Command), NEW first \in Nat, NEW last \in Nat, Carries(box, first, last),
         NEW command \in Command, command.kind = "Lookup"
  PROVE  Carries(Append(box, command), first, last)
<1> DEFINE longer == Append(box, command)
<1>1. /\ DOMAIN box = 1..Len(box) /\ DOMAIN longer = 1..Len(box) + 1 /\ Len(box) \in Nat
      /\ \A i \in 1..Len(box) : longer[i] = box[i]
      /\ longer[Len(box) + 1] = command
  OBVIOUS
<1> HIDE DEF longer
<1>2. \A i \in DOMAIN longer : longer[i].kind # "Lookup" => i \in DOMAIN box /\ longer[i] = box[i]
  BY <1>1
<1>3. \A i \in DOMAIN box : i \in DOMAIN longer /\ longer[i] = box[i]
  BY <1>1
<1> QED BY <1>2, <1>3 DEF Carries, longer

\* The first request in the transport is the next one.
LEMMA CarriesNext ==
  ASSUME NEW box \in Seq(Command), NEW first \in Nat, NEW last \in Nat, Carries(box, first, last),
         box # <<>>, Head(box).kind # "Lookup"
  PROVE  Head(box).number = first + 1 /\ Carries(Tail(box), first + 1, last)
<1> DEFINE rest == Tail(box)
<1>1. /\ DOMAIN box = 1..Len(box) /\ DOMAIN rest = 1..Len(box) - 1 /\ Len(box) \in Nat \ {0}
      /\ \A i \in 1..Len(box) - 1 : rest[i] = box[i + 1]
      /\ Head(box) = box[1] /\ 1 \in DOMAIN box
  OBVIOUS
<1>2. \A i \in 1..Len(box) : box[i].number \in Nat
  <2>1. \A i \in 1..Len(box) : box[i] \in Command
    OBVIOUS
  <2> QED BY <2>1 DEF Command
<1> HIDE DEF rest
<1>3. first + 1 <= last /\ box[1].number \in first + 1..last
  BY <1>1 DEF Carries
<1>4. PICK i \in DOMAIN box : box[i].kind # "Lookup" /\ box[i].number = first + 1
  BY <1>3 DEF Carries
<1>5. i = 1
  BY <1>1, <1>2, <1>3, <1>4, SMTT(30) DEF Carries
<1>6. \A k \in DOMAIN rest : k + 1 \in DOMAIN box /\ 1 < k + 1 /\ rest[k] = box[k + 1]
  BY <1>1
<1>7. \A k \in DOMAIN rest : rest[k].kind # "Lookup" => rest[k].number \in first + 2..last
  BY <1>1, <1>2, <1>3, <1>4, <1>5, <1>6, SMTT(30) DEF Carries
<1>8. \A k, j \in DOMAIN rest :
         k < j /\ rest[k].kind # "Lookup" /\ rest[j].kind # "Lookup" => rest[k].number < rest[j].number
  BY <1>1, <1>6, SMTT(30) DEF Carries
<1>9. \A n \in first + 2..last : \E k \in DOMAIN rest : rest[k].kind # "Lookup" /\ rest[k].number = n
  <2> TAKE n \in first + 2..last
  <2>1. PICK k \in DOMAIN box : box[k].kind # "Lookup" /\ box[k].number = n
    BY SMTT(30) DEF Carries
  <2>2. k # 1
    BY <1>4, <1>5, <2>1
  <2>3. k - 1 \in DOMAIN rest /\ rest[k - 1] = box[k]
    BY <1>1, <2>2
  <2> QED BY <2>1, <2>3
<1> QED BY <1>1, <1>3, <1>4, <1>5, <1>7, <1>8, <1>9, SMTT(30) DEF Carries, rest

LEMMA CarriesNextLookup ==
  ASSUME NEW box \in Seq(Command), NEW first \in Nat, NEW last \in Nat, Carries(box, first, last),
         box # <<>>, Head(box).kind = "Lookup"
  PROVE  Carries(Tail(box), first, last)
<1> DEFINE rest == Tail(box)
<1>1. /\ DOMAIN box = 1..Len(box) /\ DOMAIN rest = 1..Len(box) - 1 /\ Len(box) \in Nat \ {0}
      /\ \A i \in 1..Len(box) - 1 : rest[i] = box[i + 1]
      /\ Head(box) = box[1]
  OBVIOUS
<1> HIDE DEF rest
<1>2. \A k \in DOMAIN rest : k + 1 \in DOMAIN box /\ rest[k] = box[k + 1]
  BY <1>1
<1>3. ASSUME NEW k \in DOMAIN rest, NEW j \in DOMAIN rest, k < j, rest[k].kind # "Lookup", rest[j].kind # "Lookup"
      PROVE  rest[k].number < rest[j].number
  <2>1. k + 1 < j + 1
    BY <1>1, <1>3
  <2> QED BY <1>2, <1>3, <2>1 DEF Carries
<1>4. \A n \in first + 1..last : \E k \in DOMAIN rest : rest[k].kind # "Lookup" /\ rest[k].number = n
  <2> TAKE n \in first + 1..last
  <2>1. PICK k \in DOMAIN box : box[k].kind # "Lookup" /\ box[k].number = n
    BY DEF Carries
  <2>2. k - 1 \in DOMAIN rest /\ rest[k - 1] = box[k]
    BY <1>1, <2>1
  <2> QED BY <2>1, <2>2
<1>5. \A k \in DOMAIN rest : rest[k].kind # "Lookup" => rest[k].number \in first + 1..last
  BY <1>2 DEF Carries
<1> QED BY <1>3, <1>4, <1>5 DEF Carries, rest

-----------------------------------------------------------------------------
(* A session's own requests.                                                *)

\* The numbers that a session's requests are counted with.
LEMMA TakenType ==
  ASSUME TypeOK, NEW c \in Connections
  PROVE  /\ Busy(c) \in {0, 1} /\ answered[c] \in Nat /\ Len(queued[c]) \in Nat /\ Taken(c) \in Nat
         /\ sent[c].requests \in Nat /\ sent[c].lookups \in Nat
         /\ queued[c] \in Seq(Command) /\ inbox[c] \in Seq(Command)
BY DEF TypeOK, Busy, Taken

LEMMA NumbersKept ==
  ASSUME NEW d \in Connections, NumberInv(d), WireSame(d), Answering(d)' => Answering(d),
         UNCHANGED <<run[d], finished[d], queued[d]>>
  PROVE  NumberInv(d)'
BY DEF NumberInv, WireSame, Answering, Taken, Busy

LEMMA SendNumbers ==
  ASSUME TypeOK, NEW c \in Connections, NumberInv(c), ClientSends(c)
  PROVE  NumberInv(c)'
<1> USE DEF hostVars, repoVars, clientVars, lifeVars, viewVars, sentVars, workVars, ackVars, sessionVars
<1>1. PICK kind \in RequestKinds, t \in Targets :
        LET number == IF kind = "Lookup" THEN sent[c].lookups + 1 ELSE sent[c].requests + 1
        IN /\ inbox' = [inbox EXCEPT ![c] = Append(@, [kind |-> kind, number |-> number, target |-> t])]
           /\ sent' = IF kind = "Lookup" THEN [sent EXCEPT ![c].lookups = number]
                                         ELSE [sent EXCEPT ![c].requests = number]
  BY DEF ClientSends
<1> DEFINE number == IF kind = "Lookup" THEN sent[c].lookups + 1 ELSE sent[c].requests + 1
           command == [kind |-> kind, number |-> number, target |-> t]
<1>2. UNCHANGED <<phase, run, finished, queued, answered>>
  BY DEF ClientSends
<1>3. /\ inbox \in [Connections -> Seq(Command)] /\ sent \in [Connections -> [requests: Nat, lookups: Nat]]
      /\ Taken(c)' = Taken(c) /\ kind \in Kinds
  BY <1>2, ConstantsAssumption DEF TypeOK, Taken, Busy
<1>4. command \in Command
  BY <1>3, TakenType DEF Command
<1>5. inbox'[c] = Append(inbox[c], command)
  BY <1>1, <1>3
<1>6. sent'[c].requests = IF kind = "Lookup" THEN sent[c].requests ELSE number
  BY <1>1, <1>3
<1>7. Answering(c) => Carries(inbox'[c], Taken(c), sent'[c].requests)
  <2> SUFFICES ASSUME Answering(c) PROVE Carries(inbox'[c], Taken(c), sent'[c].requests)
    OBVIOUS
  <2>0. Carries(inbox[c], Taken(c), sent[c].requests)
    BY DEF NumberInv
  <2>1. CASE kind = "Lookup"
    <3>1. command.kind = "Lookup" /\ sent'[c].requests = sent[c].requests
      BY <1>6, <2>1
    <3> HIDE DEF command
    <3> QED BY <1>4, <1>5, <2>0, <3>1, TakenType, CarriesLookup
  <2>2. CASE kind # "Lookup"
    <3>1. command.kind # "Lookup" /\ command.number = sent[c].requests + 1
          /\ sent'[c].requests = sent[c].requests + 1
      BY <1>6, <2>2
    <3> HIDE DEF command
    <3> QED BY <1>4, <1>5, <2>0, <3>1, TakenType, CarriesAppended
  <2> QED BY <2>1, <2>2
<1> QED BY <1>2, <1>3, <1>7 DEF NumberInv, Answering, Busy

LEMMA HelloNumbers ==
  ASSUME TypeOK, NEW c \in Connections, SessionInv(c), NumberInv(c), ReceiveHello(c), ~\E code : Fail(c, code)
  PROVE  NumberInv(c)' /\ answered'[c] = answered[c] + 1
<1> USE DEF hostVars, repoVars, clientVars, lifeVars, viewVars, sentVars, workVars, ackVars, sessionVars
<1>1. /\ phase[c] = "handshake" /\ inbox[c] # <<>> /\ inbox'[c] = Tail(inbox[c]) /\ phase'[c] = "greeting"
      /\ Head(inbox[c]).kind = "Initialize" /\ answered'[c] = Head(inbox[c]).number
      /\ UNCHANGED <<run, finished, queued, sent>>
  BY DEF TypeOK, ReceiveHello, Receive
<1>2. run[c].stage = "none" /\ finished[c].stage = "none" /\ queued[c] = <<>> /\ Taken(c) = answered[c]
  BY <1>1, TakenType DEF SessionInv, WorkInv, Taken, Busy
<1>3. Carries(inbox[c], answered[c], sent[c].requests)
  BY <1>1, <1>2 DEF NumberInv, Answering
<1>4. answered'[c] = answered[c] + 1 /\ Carries(inbox'[c], answered[c] + 1, sent[c].requests)
  BY <1>1, <1>3, TakenType, CarriesNext
<1>5. Taken(c)' = answered[c] + 1
  BY <1>1, <1>2, <1>4, TakenType DEF Taken, Busy
<1> QED BY <1>1, <1>2, <1>4, <1>5 DEF NumberInv

LEMMA AnswerNumbers ==
  ASSUME TypeOK, NEW c \in Connections, SessionInv(c), NumberInv(c), AnswerRequest(c)
  PROVE  NumberInv(c)' /\ answered'[c] \in {answered[c], answered[c] + 1}
<1> USE DEF hostVars, repoVars, clientVars, lifeVars, viewVars, sentVars, workVars, ackVars, sessionVars
<1>1. /\ phase[c] = "serving" /\ finished[c].stage = "done" /\ run[c].stage = "none"
      /\ finished[c].number = answered[c] + 1 /\ Busy(c) = 1
  BY DEF AnswerRequest, Serving, AnswerDue, SessionInv, WorkInv, NumberInv, Answering, Busy
<1>2. answered'[c] \in {answered[c], answered[c] + 1}
  BY <1>1 DEF TypeOK, AnswerRequest
<1>3. CASE phase'[c] \in {"completing", "failed"}
  BY <1>2, <1>3 DEF NumberInv, Answering
<1>4. CASE /\ answered' = [answered EXCEPT ![c] = finished[c].number]
           /\ finished' = [finished EXCEPT ![c] = NoRun]
           /\ UNCHANGED <<phase, queued, run>>
  <2>1. /\ answered'[c] = answered[c] + 1 /\ finished'[c].stage = "none" /\ inbox' = inbox /\ sent' = sent
        /\ answered[c] \in Nat
    BY <1>1, <1>4 DEF TypeOK, NoRun, AnswerRequest
  <2>2. Busy(c)' = 0 /\ Taken(c)' = Taken(c)
    BY <1>1, <1>4, <2>1, TakenType DEF Busy, Taken
  <2>3. answered'[c] + 0 = answered[c] + Busy(c)
    BY <1>1, <2>1
  <2> QED BY <1>1, <1>2, <1>4, <2>1, <2>2, <2>3 DEF NumberInv, Answering
<1>5. \A code : Fail(c, code) => phase'[c] = "failed"
  BY DEF TypeOK, Fail, EndSession
<1>6. phase \in [Connections -> Phases]
  BY DEF TypeOK
<1> QED BY <1>3, <1>4, <1>5, <1>6 DEF AnswerRequest

LEMMA QueueTail ==
  ASSUME NEW queue \in Seq(Command), queue # <<>>
  PROVE  /\ Len(queue) \in Nat \ {0} /\ Head(queue) = queue[1] /\ 1 \in DOMAIN queue
         /\ Len(Tail(queue)) = Len(queue) - 1
         /\ \A i \in DOMAIN Tail(queue) : i \in Nat /\ i + 1 \in DOMAIN queue /\ Tail(queue)[i] = queue[i + 1]
OBVIOUS

LEMMA StartNumbers ==
  ASSUME TypeOK, NEW c \in Connections, SessionInv(c), NumberInv(c), StartQueued(c), ~\E code : Fail(c, code)
  PROVE  NumberInv(c)'
<1> USE DEF hostVars, repoVars, clientVars, lifeVars, viewVars, sentVars, workVars, ackVars, sessionVars
<1>1. /\ phase[c] = "serving" /\ finished[c].stage = "none" /\ run[c].stage = "none" /\ queued[c] # <<>>
      /\ UNCHANGED <<phase, finished, answered, inbox, sent>> /\ queued' = [queued EXCEPT ![c] = Tail(@)]
  BY DEF StartQueued, Serving, StartDue
<1>2. run'[c].stage # "none" /\ run'[c].number = Head(queued[c]).number
  <2> DEFINE command == Head(queued[c])
             started == [stage |-> "requested", kind |-> command.kind, number |-> command.number,
                         target |-> target[c], next |-> command.target, ok |-> FALSE, since |-> repo]
             ended == [started EXCEPT !.stage = "done", !.ok = Reserves(command.kind)]
  <2>1. run'[c] = started \/ run'[c] = ended
    BY ZenonT(60) DEF TypeOK, StartQueued
  <2>2. ended.stage = "done" /\ ended.number = command.number
    OBVIOUS
  <2>3. started.stage = "requested" /\ started.number = command.number
    OBVIOUS
  <2> HIDE DEF started, ended
  <2> QED BY <2>1, <2>2, <2>3
<1>3. /\ queued'[c] = Tail(queued[c]) /\ queued[c] \in Seq(Command)
      /\ \A i \in DOMAIN queued[c] : queued[c][i].number = answered[c] + i
      /\ answered[c] \in Nat
  BY <1>1 DEF TypeOK, NumberInv, Answering, Busy
<1>4. /\ Len(queued[c]) \in Nat \ {0} /\ Head(queued[c]) = queued[c][1] /\ 1 \in DOMAIN queued[c]
      /\ Len(queued'[c]) = Len(queued[c]) - 1
      /\ \A i \in DOMAIN queued'[c] : i \in Nat /\ i + 1 \in DOMAIN queued[c] /\ queued'[c][i] = queued[c][i + 1]
  BY <1>1, <1>3, QueueTail
<1>5. run'[c].number = answered'[c] + 1
  BY <1>1, <1>2, <1>3, <1>4
<1>6. Busy(c)' = 1 /\ Busy(c) = 0
  BY <1>1, <1>2 DEF Busy
<1>7. Taken(c)' = Taken(c)
  BY <1>1, <1>3, <1>4, <1>6, TakenType, SMTT(30) DEF Taken
<1>8. \A i \in DOMAIN queued'[c] : queued'[c][i].number = answered'[c] + Busy(c)' + i
  <2> TAKE i \in DOMAIN queued'[c]
  <2>1. i \in Nat /\ queued'[c][i].number = answered[c] + (i + 1)
    BY <1>3, <1>4
  <2>2. answered'[c] = answered[c]
    BY <1>1
  <2> QED BY <1>3, <1>6, <2>1, <2>2, SMTT(30)
<1> QED BY <1>1, <1>5, <1>7, <1>8 DEF NumberInv, Answering

LEMMA ReceiveNumbers ==
  ASSUME TypeOK, NEW c \in Connections, NumberInv(c), ReceiveRequest(c) \/ ReceiveLookup(c)
  PROVE  NumberInv(c)'
<1> USE DEF hostVars, repoVars, clientVars, lifeVars, viewVars, sentVars, workVars, ackVars, sessionVars
<1>1. /\ phase[c] = "serving" /\ inbox[c] # <<>> /\ inbox'[c] = Tail(inbox[c])
      /\ UNCHANGED <<phase, run, finished, answered, sent>> /\ Answering(c)
  BY DEF TypeOK, ReceiveRequest, ReceiveLookup, AtSelect, Serving, Receive, Answering
<1>2. Busy(c)' = Busy(c) /\ Carries(inbox[c], Taken(c), sent[c].requests)
  BY <1>1 DEF Busy, NumberInv
<1>3. CASE ReceiveLookup(c)
  <2>1. Head(inbox[c]).kind = "Lookup" /\ queued' = queued
    BY <1>3 DEF ReceiveLookup
  <2>2. Carries(inbox'[c], Taken(c), sent[c].requests)
    BY <1>1, <1>2, <2>1, TakenType, CarriesNextLookup
  <2> QED BY <1>1, <1>2, <2>1, <2>2 DEF NumberInv, Taken
<1>4. CASE ReceiveRequest(c)
  <2> DEFINE command == Head(inbox[c])
  <2>0. /\ Busy(c) \in Nat /\ answered[c] \in Nat /\ Len(queued[c]) \in Nat
        /\ Taken(c) = answered[c] + Busy(c) + Len(queued[c])
    BY TakenType DEF Taken
  <2>1. command.kind # "Lookup" /\ queued'[c] = Append(queued[c], command)
    BY <1>4 DEF TypeOK, ReceiveRequest, Queue
  <2>2. command.number = Taken(c) + 1 /\ Carries(inbox'[c], Taken(c) + 1, sent[c].requests)
    BY <1>1, <1>2, <2>1, TakenType, CarriesNext
  <2> HIDE DEF command
  <2>3. Len(queued'[c]) = Len(queued[c]) + 1 /\ Taken(c)' = Taken(c) + 1
    <3>1. Len(queued'[c]) = Len(queued[c]) + 1
      BY <2>1, TakenType
    <3>2. answered'[c] = answered[c] /\ Busy(c)' = Busy(c)
      BY <1>1, <1>2
    <3>3. Taken(c)' = answered[c] + Busy(c) + (Len(queued[c]) + 1)
      BY <3>1, <3>2 DEF Taken
    <3> QED BY <2>0, <3>1, <3>3, SMTT(30)
  <2>4. \A i \in DOMAIN queued'[c] : queued'[c][i].number = answered[c] + Busy(c) + i
    <3> TAKE i \in DOMAIN queued'[c]
    <3>1. i \in 1..Len(queued[c]) + 1
      BY <2>1, TakenType
    <3>2. CASE i = Len(queued[c]) + 1
      <4>1. queued'[c][i] = command
        BY <2>1, <3>2, TakenType
      <4>2. Taken(c) + 1 = answered[c] + Busy(c) + i
        BY <2>0, <3>2
      <4> QED BY <2>2, <4>1, <4>2
    <3>3. CASE i \in 1..Len(queued[c])
      <4>1. queued'[c][i] = queued[c][i] /\ i \in DOMAIN queued[c]
        BY <2>1, <3>3, TakenType
      <4> QED BY <1>1, <4>1 DEF NumberInv
    <3> QED BY <3>1, <3>2, <3>3, TakenType
  <2> QED BY <1>1, <1>2, <2>2, <2>3, <2>4 DEF NumberInv
<1> QED BY <1>3, <1>4

LEMMA CommandNumbers ==
  ASSUME TypeOK, NEW c \in Connections, SessionInv(c), NumberInv(c), CommandFuture(c) \/ CommandEnds(c)
  PROVE  NumberInv(c)'
<1> USE DEF hostVars, repoVars, clientVars, lifeVars, viewVars, sentVars, workVars, ackVars, sessionVars
<1>0. run \in [Connections -> Run] /\ run[c] \in Run
  BY DEF TypeOK
<1>1. CASE CommandFuture(c)
  <2>1. run[c].stage \in {"requested", "refreshing"} /\ UNCHANGED <<phase, finished, queued, inbox, sent, answered>>
    BY <1>1 DEF CommandFuture, SwitchTarget, RefreshTarget, ApplyAction
  <2>2. \/ \E ok : run'[c] = [run[c] EXCEPT !.stage = "done", !.ok = ok]
        \/ run'[c] = [run[c] EXCEPT !.stage = "refreshing", !.since = repo + 1]
    BY <1>0, <1>1 DEF CommandFuture, SwitchTarget, RefreshTarget, ApplyAction, Done
  <2>3. run'[c].stage # "none" /\ run'[c].number = run[c].number
    BY <1>0, <2>2 DEF Run
  <2>4. Busy(c)' = Busy(c)
    BY <2>1, <2>3 DEF Busy
  <2> QED BY <2>1, <2>3, <2>4 DEF NumberInv, Answering, Taken
<1>2. CASE CommandEnds(c)
  <2>1. /\ finished'[c] = run[c] /\ run'[c].stage = "none" /\ run[c].stage = "done"
        /\ UNCHANGED <<phase, queued, inbox, sent, answered>>
    BY <1>2 DEF TypeOK, CommandEnds, NoRun
  <2>2. Busy(c)' = 1 /\ Busy(c) = 1
    BY <2>1 DEF Busy
  <2> QED BY <2>1, <2>2 DEF NumberInv, Answering, Taken
<1> QED BY <1>1, <1>2

\* What the number of the last answer may do.
LEMMA NumberStep ==
  ASSUME TypeOK, \A c \in Connections : SessionInv(c) /\ NumberInv(c), Next, NEW d \in Connections
  PROVE  NumberInv(d)' /\ answered'[d] \in {answered[d], answered[d] + 1}
<1> USE DEF hostVars, repoVars, clientVars, lifeVars, viewVars, sentVars, workVars, ackVars, sessionVars
<1>1. CASE SessionSame(d) /\ WireSame(d)
  BY <1>1, NumbersKept DEF SessionSame, WireSame, Answering
<1>2. CASE NextReview \/ StopServer \/ GiveUp \/ RepositoryChanges \/ Watcher \/ WatcherStops \/ Terminated
  <2>1. SessionSame(d) /\ WireSame(d)
    BY <1>2 DEF NextReview, StopServer, GiveUp, RepositoryChanges, Watcher, WatcherLoads, WatcherForgets, WatcherStops,
                Terminated, vars, SessionSame, WireSame
  <2> QED BY <1>1, <2>1
<1>3. ASSUME NEW c \in Connections, Step(c), c # d
      PROVE  NumberInv(d)' /\ answered'[d] \in {answered[d], answered[d] + 1}
  BY <1>1, <1>3, Apart
\* A step that answers nothing, and that ends the session or leaves its requests where they are.
<1>4. CASE answered' = answered /\ phase'[d] \in {"failed", "closing", "closed", "completing"}
  BY <1>4 DEF NumberInv, Answering
<1>5. CASE UNCHANGED <<run, finished, queued, inbox, sent, answered>> /\ (Answering(d)' => Answering(d))
  BY <1>5, NumbersKept DEF WireSame
<1>6. CASE (\E code : Fail(d, code)) /\ answered' = answered
  <2>1. phase'[d] = "failed"
    BY <1>6 DEF TypeOK, Fail, EndSession
  <2> QED BY <1>4, <1>6, <2>1
<1>7. CASE Client(d) \/ Connect(d)
  <2>1. CASE ClientSends(d)
    BY <2>1, SendNumbers DEF ClientSends
  <2>2. CASE ClientReads(d) \/ ClientHangsUp(d) \/ Connect(d)
    BY <1>5, <2>2 DEF ClientReads, ClientHangsUp, Connect, Answering
  <2> QED BY <1>7, <2>1, <2>2 DEF Client
<1>8. CASE Establish(d)
  <2>1. CASE ReceiveHello(d)
    <3>1. CASE \E code : Fail(d, code)
      <4>1. CASE answered' = answered
        BY <1>6, <3>1, <4>1
      <4>2. CASE answered' # answered
        <5>1. phase' = [phase EXCEPT ![d] = "greeting"] /\ phase'[d] = "failed"
          BY <2>1, <3>1, <4>2 DEF ReceiveHello, TypeOK, Fail, EndSession
        <5> QED BY <5>1 DEF TypeOK
      <4> QED BY <4>1, <4>2
    <3>2. CASE ~\E code : Fail(d, code)
      BY <2>1, <3>2, HelloNumbers
    <3> QED BY <3>1, <3>2
  <2>2. CASE HelloFails(d)
    BY <1>6, <2>2 DEF HelloFails
  <2>3. CASE Greet(d)
    BY <1>5, <1>6, <2>3 DEF Greet, Answering
  <2>4. CASE Subscribe(d)
    BY <1>5, <1>6, <2>4 DEF Subscribe, Answering
  <2> QED BY <1>8, <2>1, <2>2, <2>3, <2>4 DEF Establish
<1>9. CASE LoopBody(d)
  <2>1. CASE PublishDocument(d) \/ PublishFiles(d) \/ PublishHealth(d)
    BY <1>5, <2>1 DEF PublishDocument, PublishFiles, PublishHealth, Answering
  <2>2. CASE PublishFails(d) \/ PublishReply(d)
    BY <1>5, <1>6, <2>2 DEF PublishFails, PublishReply, Answering
  <2>3. CASE AnswerRequest(d)
    BY <2>3, AnswerNumbers
  <2>4. CASE PublishCompletion(d)
    <3>1. phase'[d] \in {"failed", "closing"} /\ answered' = answered
      BY <2>4 DEF TypeOK, PublishCompletion, Fail, EndSession
    <3> QED BY <1>4, <3>1
  <2>5. CASE StartQueued(d)
    <3>1. answered' = answered
      BY <2>5 DEF StartQueued
    <3> QED BY <1>6, <2>5, <3>1, StartNumbers
  <2> QED BY <1>9, <2>1, <2>2, <2>3, <2>4, <2>5 DEF LoopBody
<1>10. CASE CommandFuture(d)
  BY <1>10, CommandNumbers DEF CommandFuture, SwitchTarget, RefreshTarget, ApplyAction
<1>11. CASE Select(d)
  <2>1. CASE StateChanged(d) \/ LookupEnds(d) \/ Heartbeat(d)
    BY <1>5, <2>1 DEF StateChanged, LookupEnds, Heartbeat, Answering
  <2>2. CASE WatcherGone(d) \/ ReceiveFails(d)
    BY <1>6, <2>2 DEF WatcherGone, ReceiveFails
  <2>3. CASE ReceiveRequest(d) \/ ReceiveLookup(d)
    BY <2>3, ReceiveNumbers DEF ReceiveRequest, ReceiveLookup
  <2>4. CASE CommandEnds(d)
    BY <2>4, CommandNumbers DEF CommandEnds
  <2> QED BY <1>11, <2>1, <2>2, <2>3, <2>4 DEF Select
<1>12. CASE Close(d)
  <2>1. phase'[d] \in {"closing", "closed"} /\ answered' = answered
    BY <1>12 DEF TypeOK, Close, ReportFailure, DropSession, CloseTransport, EndSession
  <2> QED BY <1>4, <2>1
<1> QED BY <1>2, <1>3, <1>7, <1>8, <1>9, <1>10, <1>11, <1>12 DEF Next, Step

-----------------------------------------------------------------------------
(* The invariant, and what it shows.                                        *)

LEMMA InitOrder == Init => OrderInv
<1> SUFFICES ASSUME Init PROVE OrderInv
  OBVIOUS
<1>1. ChannelInv
  BY DEF Init, ChannelInv, Unsubscribed
<1>2. NoRun.stage = "none" /\ NoDocument.loaded = -1
  BY DEF NoRun, NoDocument
<1>3. ASSUME NEW c \in Connections PROVE SessionInv(c)
  BY <1>2 DEF Init, SessionInv, ShownInv, WorkInv, FreshInv, Outcome
<1>4. ASSUME NEW c \in Connections PROVE NumberInv(c)
  <2>1. /\ run[c].stage = "none" /\ finished[c].stage = "none" /\ queued[c] = <<>> /\ inbox[c] = <<>>
        /\ sent[c].requests = 0 /\ answered[c] = 0
    BY <1>2 DEF Init
  <2>2. Taken(c) = 0
    BY <2>1 DEF Taken, Busy
  <2>3. Carries(<<>>, 0, 0)
    BY DEF Carries
  <2> QED BY <2>1, <2>2, <2>3 DEF NumberInv
<1> QED BY <1>1, <1>3, <1>4, InitIInv DEF OrderInv

LEMMA StepOrder == OrderInv /\ [Next]_vars => OrderInv'
<1> SUFFICES ASSUME OrderInv, [Next]_vars PROVE OrderInv'
  OBVIOUS
<1>1. TypeOK /\ IInv'
  <2>1. TypeOK'
    BY TypeStep DEF OrderInv, IInv, CompletionInv
  <2>2. CompletionInv'
    BY CompletionStep DEF OrderInv
  <2> QED BY <2>1, <2>2 DEF OrderInv, IInv
<1>2. CASE Next
  <2>1. ChannelInv'
    BY <1>1, <1>2, ForwardSteps DEF OrderInv
  <2>2. \A c \in Connections : SessionInv(c)'
    BY <1>2, SessionStep DEF OrderInv
  <2>3. \A c \in Connections : NumberInv(c)'
    BY <1>1, <1>2, NumberStep DEF OrderInv
  <2> QED BY <1>1, <2>1, <2>2, <2>3 DEF OrderInv
<1>3. CASE UNCHANGED vars
  <2> USE DEF hostVars, repoVars, clientVars, lifeVars, viewVars, sentVars, workVars, ackVars, sessionVars, vars
  <2>1. ChannelInv'
    BY <1>3 DEF OrderInv, ChannelInv
  <2>2. ASSUME NEW c \in Connections PROVE SessionInv(c)'
    BY <1>3 DEF OrderInv, SessionInv, ShownInv, WorkInv, FreshInv, Outcome
  <2>3. ASSUME NEW c \in Connections PROVE NumberInv(c)'
    BY <1>3, NumbersKept DEF OrderInv, WireSame, Answering
  <2> QED BY <1>1, <2>1, <2>2, <2>3 DEF OrderInv
<1> QED BY <1>2, <1>3

\* The inductive invariant of a session: what was shown last, the one command it has, what that command
\* will be answered to have brought about, and the numbers of the requests, wherever they are.
THEOREM OrderInvariance == Spec => []OrderInv
BY InitOrder, StepOrder, PTL DEF Spec

\* A review is completed for the target its connection was shown last: `start` runs a Submit or a Cancel
\* only when the loop has published the target that the SetTarget before it switched to.
THEOREM ReviewIsOfShownTargetHolds == Spec => []ReviewIsOfShownTarget
<1>1. OrderInv => ReviewIsOfShownTarget
  BY DEF OrderInv, SessionInv, ShownInv, ReviewIsOfShownTarget, CarriesCompletion, Completing
<1> QED BY <1>1, OrderInvariance, PTL

\* When a SetTarget is answered with success, the document of the new target has been sent: the loop
\* publishes before it answers `finished`, and a switch resets `published`.
THEOREM SwitchIsShownBeforeItsAnswerHolds == Spec => []SwitchIsShownBeforeItsAnswer
<1>1. ASSUME OrderInv, NEW c \in Connections, AnswerDue(c), finished[c].kind = "SetTarget", finished[c].ok
      PROVE  shown[c].target = finished[c].next /\ shown[c].loaded >= 0
  <2>1. TypeOK /\ ShownInv(c) /\ UpToDate(c) /\ finished[c].stage = "done"
    BY <1>1 DEF OrderInv, IInv, SessionInv, AnswerDue
  <2>2. shown[c] = Snapshot(c) /\ shown[c].loaded >= 0
    BY <2>1, UpToDateIsShown
  <2>3. finished[c].next = target[c]
    BY <1>1, <2>1 DEF ShownInv
  <2> QED BY <2>2, <2>3 DEF Snapshot
<1>2. OrderInv => SwitchIsShownBeforeItsAnswer
  BY <1>1 DEF SwitchIsShownBeforeItsAnswer
<1> QED BY <1>2, OrderInvariance, PTL

\* When a Refresh or an Apply is answered with success, what it brought about has been sent: the watcher's
\* state is borrowed after the command's future ends and published before its answer.
THEOREM RefreshIsShownBeforeItsAnswerHolds == Spec => []RefreshIsShownBeforeItsAnswer
<1>1. ASSUME OrderInv, NEW c \in Connections, AnswerDue(c), finished[c].ok
      PROVE  /\ finished[c].kind = "Refresh" => shown[c].loaded >= finished[c].since
             /\ finished[c].kind = "Apply" =>
                  shown[c].loaded >= finished[c].since \/ health[c] \/ ~watcherUp
  <2>1. TypeOK /\ ShownInv(c) /\ UpToDate(c) /\ finished[c].stage = "done" /\ Outcome(current[c], finished[c])
    BY <1>1 DEF OrderInv, IInv, SessionInv, FreshInv, AnswerDue
  <2>2. shown[c].loaded = current[c].loaded /\ health[c] = current[c].error
    BY <2>1, UpToDateIsShown
  <2> QED BY <1>1, <2>1, <2>2 DEF Outcome
<1>2. OrderInv => RefreshIsShownBeforeItsAnswer
  BY <1>1 DEF RefreshIsShownBeforeItsAnswer
<1> QED BY <1>2, OrderInvariance, PTL

\* The answers of a connection follow its requests one by one, in their order: the session runs one command
\* at a time and takes the next from the front of `queued`.
THEOREM AnswersFollowRequestsHolds == Spec => AnswersFollowRequests
<1>1. OrderInv /\ [Next]_vars => [\A c \in Connections : answered'[c] # answered[c] => answered'[c] = answered[c] + 1]_vars
  BY NumberStep DEF OrderInv, IInv
<1> QED BY <1>1, OrderInvariance, PTL DEF Spec, AnswersFollowRequests

LEMMA LookupStep ==
  ASSUME OrderInv, Next, NEW d \in Connections, NEW task \in lookups'[d] \ lookups[d]
  PROVE  task.doc = shown[d]
<1> USE DEF hostVars, repoVars, clientVars, lifeVars, viewVars, sentVars, workVars, ackVars, sessionVars
<1>0. TypeOK /\ ShownInv(d)
  BY DEF OrderInv, IInv, SessionInv
<1>1. CASE ReceiveLookup(d)
  <2>1. UpToDate(d) /\ task.doc = Snapshot(d)
    BY <1>0, <1>1 DEF TypeOK, ReceiveLookup, AtSelect
  <2> QED BY <1>0, <2>1, UpToDateIsShown
<1>2. ASSUME NEW c \in Connections, Step(c), c # d PROVE FALSE
  <2>1. SessionSame(d)
    BY <1>0, <1>2, Apart
  <2> QED BY <2>1 DEF SessionSame
<1>3. CASE lookups' = lookups
  BY <1>3
<1>4. CASE NextReview \/ StopServer \/ GiveUp \/ RepositoryChanges \/ Watcher \/ WatcherStops \/ Terminated
  BY <1>3, <1>4 DEF NextReview, StopServer, GiveUp, RepositoryChanges, Watcher, WatcherLoads, WatcherForgets,
                    WatcherStops, Terminated, vars
<1>5. \A code : ~Fail(d, code)
  <2>1. ASSUME NEW code, Fail(d, code) PROVE FALSE
    <3>1. lookups'[d] = {}
      BY <1>0, <2>1 DEF TypeOK, Fail, EndSession
    <3> QED BY <3>1
  <2> QED BY <2>1
<1>6. \A to : ~EndSession(d, to)
  <2>1. ASSUME NEW to, EndSession(d, to) PROVE FALSE
    <3>1. lookups'[d] = {}
      BY <1>0, <2>1 DEF TypeOK, EndSession
    <3> QED BY <3>1
  <2> QED BY <2>1
<1>7. CASE Client(d) \/ Connect(d) \/ Establish(d) \/ Close(d)
  BY <1>3, <1>5, <1>6, <1>7
     DEF Client, ClientSends, ClientReads, ClientHangsUp, Connect, Establish, ReceiveHello, HelloFails, Greet,
         Subscribe, Close, ReportFailure, DropSession, CloseTransport
<1>8. CASE LoopBody(d) \/ CommandFuture(d)
  BY <1>3, <1>5, <1>6, <1>8
     DEF LoopBody, PublishDocument, PublishFiles, PublishHealth, PublishFails, AnswerRequest, PublishCompletion,
         StartQueued, PublishReply, CommandFuture, SwitchTarget, RefreshTarget, ApplyAction
<1>9. CASE Select(d)
  <2>1. CASE LookupEnds(d)
    BY <1>0, <2>1 DEF TypeOK, LookupEnds
  <2> QED BY <1>1, <1>3, <1>5, <1>9, <2>1
          DEF Select, StateChanged, WatcherGone, ReceiveRequest, ReceiveFails, Heartbeat, CommandEnds
<1> QED BY <1>2, <1>4, <1>7, <1>8, <1>9 DEF Next, Step

\* A lookup reads the snapshot its client was shown last: Lookups::submit is handed the state that the
\* iteration has published by the time it selects.
THEOREM LookupReadsShownSnapshotHolds == Spec => LookupReadsShownSnapshot
<1>1. OrderInv /\ [Next]_vars
        => [\A c \in Connections : \A task \in lookups'[c] \ lookups[c] : task.doc = shown[c]]_vars
  BY LookupStep
<1> QED BY <1>1, OrderInvariance, PTL DEF Spec, LookupReadsShownSnapshot

-----------------------------------------------------------------------------
(* The completion a connection holds, and the abstract ReviewCompletion.    *)

\* The completion connection c holds.
Held(c) == CompletionOf(c, IF CarriesCompletion(run[c]) THEN run[c] ELSE finished[c])

HostSame == UNCHANGED <<accepted, completions, delivered>>
HoldingSame(c) == (Holds(c)' <=> Holds(c)) /\ (Holds(c) => Held(c)' = Held(c))

\* What may make a server forget a completion.
Disruption(c) ==
  \/ link[c] = "down" \/ Len(outbox[c]) = Capacity \/ inbox[c] # inbox'[c] \/ ~watcherUp \/ stop

LEMMA SameHolding ==
  ASSUME NEW c \in Connections, UNCHANGED <<run[c], finished[c]>>
  PROVE  HoldingSame(c)
BY DEF HoldingSame, Holds, Held, CompletionOf, CarriesCompletion

LEMMA EndedHoldsNothing ==
  ASSUME TypeOK, NEW c \in Connections, (\E code : Fail(c, code)) \/ (\E to : EndSession(c, to))
  PROVE  ~Holds(c)'
<1>1. run'[c] = NoRun /\ finished'[c] = NoRun
  BY DEF TypeOK, Fail, EndSession
<1> QED BY <1>1 DEF Holds, CarriesCompletion, NoRun

\* A step of a connection keeps its completion, hands it to the host or loses it to a disruption.
KeepsOrReleases(c) ==
  \/ HostSame /\ HoldingSame(c)
  \/ /\ Holds(c) /\ ~Holds(c)'
     /\ completions' = Append(completions, Held(c))
     /\ UNCHANGED <<accepted, delivered>>
  \/ Holds(c) /\ ~Holds(c)' /\ HostSame /\ Disruption(c)

\* Only a command that starts takes the completion, when nobody has.
Reserving(c) ==
  /\ ~accepted /\ accepted' /\ ~Holds(c) /\ Holds(c)'
  /\ UNCHANGED <<completions, delivered>>

LEMMA IdleHoldsNothing ==
  ASSUME NEW c \in Connections, SessionInv(c), phase[c] \notin {"serving", "completing"}
  PROVE  ~Holds(c)
BY DEF SessionInv, WorkInv, Holds, CarriesCompletion

LEMMA EstablishHolding ==
  ASSUME TypeOK, NEW c \in Connections, SessionInv(c), Client(c) \/ Connect(c) \/ Establish(c) \/ Close(c)
  PROVE  KeepsOrReleases(c)
<1> USE DEF hostVars, repoVars, clientVars, lifeVars, viewVars, sentVars, workVars, ackVars, sessionVars
<1>1. HostSame
  BY DEF HostSame, Client, ClientSends, ClientReads, ClientHangsUp, Connect, Establish, ReceiveHello, HelloFails,
         Greet, Subscribe, Close, ReportFailure, DropSession, CloseTransport
<1>2. CASE UNCHANGED <<run, finished>>
  BY <1>1, <1>2, SameHolding DEF KeepsOrReleases
<1>3. CASE phase[c] \notin {"serving", "completing"} /\ (\E code : Fail(c, code))
  BY <1>1, <1>3, IdleHoldsNothing, EndedHoldsNothing DEF KeepsOrReleases, HoldingSame
<1>4. CASE DropSession(c)
  <2>1. ~Holds(c)' /\ stop
    BY <1>4, EndedHoldsNothing DEF DropSession
  <2>2. Holds(c) \/ HoldingSame(c)
    BY <2>1 DEF HoldingSame
  <2> QED BY <1>1, <2>1, <2>2 DEF KeepsOrReleases, Disruption
<1>5. CASE Client(c) \/ Connect(c) \/ ReportFailure(c) \/ CloseTransport(c)
  BY <1>2, <1>5 DEF Client, ClientSends, ClientReads, ClientHangsUp, Connect, ReportFailure, CloseTransport
<1>6. CASE Establish(c)
  BY <1>2, <1>3, <1>6 DEF Establish, ReceiveHello, HelloFails, Greet, Subscribe
<1> QED BY <1>4, <1>5, <1>6 DEF Close

LEMMA LoopHolding ==
  ASSUME TypeOK, CompletionInv, NEW c \in Connections, SessionInv(c), LoopBody(c), ~StartQueued(c)
  PROVE  KeepsOrReleases(c)
<1> USE DEF hostVars, repoVars, clientVars, lifeVars, viewVars, sentVars, workVars, ackVars, sessionVars
<1>1. CASE HostSame /\ UNCHANGED <<run, finished>>
  BY <1>1, SameHolding DEF KeepsOrReleases
<1>2. CASE HostSame /\ Disruption(c) /\ (\E code : Fail(c, code))
  <2>1. ~Holds(c)'
    BY <1>2, EndedHoldsNothing
  <2>2. Holds(c) \/ HoldingSame(c)
    BY <2>1 DEF HoldingSame
  <2> QED BY <1>2, <2>1, <2>2 DEF KeepsOrReleases
<1>3. PublishCanFail(c) => Disruption(c)
  BY DEF PublishCanFail, Disruption
<1>4. CASE PublishDocument(c) \/ PublishFiles(c) \/ PublishHealth(c)
  BY <1>1, <1>4 DEF PublishDocument, PublishFiles, PublishHealth, HostSame
<1>5. CASE PublishFails(c) \/ PublishReply(c)
  BY <1>1, <1>2, <1>3, <1>5 DEF PublishFails, PublishReply, HostSame
<1>6. CASE AnswerRequest(c)
  <2>1. CASE PublishCanFail(c) /\ (\E code : Fail(c, code))
    BY <1>2, <1>3, <1>6, <2>1 DEF AnswerRequest, HostSame
  <2>2. CASE UNCHANGED <<run, finished>>
    BY <1>1, <1>6, <2>2 DEF AnswerRequest, HostSame
  <2>3. CASE ~CarriesCompletion(finished[c]) /\ run' = run /\ finished' = [finished EXCEPT ![c] = NoRun]
    <3>1. run[c].stage = "none" /\ ~CarriesCompletion(run[c])
      BY <1>6 DEF AnswerRequest, AnswerDue, SessionInv, WorkInv, CarriesCompletion
    <3>2. finished'[c] = NoRun
      BY <2>3 DEF TypeOK
    <3>3. ~Holds(c) /\ ~Holds(c)'
      BY <2>3, <3>1, <3>2 DEF Holds, CarriesCompletion, NoRun
    <3> QED BY <1>6, <3>3 DEF AnswerRequest, HostSame, KeepsOrReleases, HoldingSame
  <2> QED BY <1>6, <2>1, <2>2, <2>3 DEF AnswerRequest
<1>7. CASE PublishCompletion(c)
  <2>1. CarriesCompletion(finished[c]) /\ ~CarriesCompletion(run[c]) /\ Holds(c) /\ Held(c) = CompletionOf(c, finished[c])
    BY <1>7 DEF PublishCompletion, CompletionInv, CompletingCarries, OneReview, Holds, Held
  <2>2. ~Holds(c)'
    BY <1>7, EndedHoldsNothing DEF PublishCompletion
  <2>3. CASE completions' = Append(completions, CompletionOf(c, finished[c]))
    BY <1>7, <2>1, <2>2, <2>3 DEF PublishCompletion, KeepsOrReleases
  <2>4. CASE stop /\ completions' = completions
    BY <1>7, <2>1, <2>2, <2>4 DEF PublishCompletion, KeepsOrReleases, HostSame, Disruption
  <2> QED BY <1>7, <2>3, <2>4 DEF PublishCompletion, CompletionCanFail
<1> QED BY <1>4, <1>5, <1>6, <1>7 DEF LoopBody

LEMMA StartHolding ==
  ASSUME TypeOK, CompletionInv, NEW c \in Connections, SessionInv(c), StartQueued(c)
  PROVE  KeepsOrReleases(c) \/ Reserving(c)
<1> USE DEF hostVars, repoVars, clientVars, lifeVars, viewVars, sentVars, workVars, ackVars, sessionVars
<1> DEFINE command == Head(queued[c])
           started == [stage |-> "requested", kind |-> command.kind, number |-> command.number,
                       target |-> target[c], next |-> command.target, ok |-> FALSE, since |-> repo]
           ended == [started EXCEPT !.stage = "done", !.ok = Reserves(command.kind)]
<1>1. /\ UNCHANGED <<completions, delivered>> /\ run \in [Connections -> Run]
      /\ ~CarriesCompletion(run[c]) /\ ~CarriesCompletion(finished[c])
  BY DEF TypeOK, StartQueued, StartDue, CarriesCompletion
<1>2. ~Holds(c)
  BY <1>1 DEF Holds
<1>3. CASE Fail(c, "Protocol") /\ accepted' = accepted
  BY <1>1, <1>2, <1>3, EndedHoldsNothing DEF KeepsOrReleases, HostSame, HoldingSame
<1>4. CASE run' = [run EXCEPT ![c] = started] /\ UNCHANGED <<accepted, finished>>
  <2>1. run'[c].stage = "requested"
    BY <1>1, <1>4
  <2>2. ~Holds(c)'
    BY <1>1, <1>4, <2>1 DEF Holds, CarriesCompletion
  <2> QED BY <1>1, <1>2, <1>4, <2>2 DEF KeepsOrReleases, HostSame, HoldingSame
<1>5. CASE run' = [run EXCEPT ![c] = ended] /\ accepted' = TRUE /\ finished' = finished /\ command.kind \in Completing
  <2>1. run'[c] = ended
    BY <1>1, <1>5
  <2>2. ended.stage = "done" /\ ended.kind = command.kind /\ ended.ok = Reserves(command.kind)
    OBVIOUS
  <2> HIDE DEF ended, started, command
  <2>3. Reserves(command.kind) = ~accepted
    BY <1>5 DEF Reserves
  <2>4. Holds(c)' <=> ~accepted
    BY <1>1, <1>5, <2>1, <2>2, <2>3 DEF Holds, CarriesCompletion, Completing
  <2>5. CASE accepted
    BY <1>1, <1>2, <1>5, <2>4, <2>5 DEF KeepsOrReleases, HostSame, HoldingSame, TypeOK
  <2>6. CASE ~accepted
    BY <1>1, <1>2, <1>5, <2>4, <2>6 DEF Reserving
  <2> QED BY <2>5, <2>6
<1> QED BY <1>3, <1>4, <1>5 DEF StartQueued

LEMMA FutureHolding ==
  ASSUME TypeOK, CompletionInv, NEW c \in Connections, SessionInv(c), CommandFuture(c)
  PROVE  KeepsOrReleases(c)
<1> USE DEF hostVars, repoVars, clientVars, lifeVars, viewVars, sentVars, workVars, ackVars, sessionVars
<1>1. /\ HostSame /\ finished' = finished /\ run[c] \in Run /\ run \in [Connections -> Run]
      /\ run[c].stage \in {"requested", "refreshing"} /\ run[c].kind \in {"SetTarget", "Refresh", "Apply"}
  BY DEF TypeOK, CommandFuture, SwitchTarget, RefreshTarget, ApplyAction, HostSame, CompletionInv, RefreshingApplies
<1>2. \/ \E ok : run'[c] = [run[c] EXCEPT !.stage = "done", !.ok = ok]
      \/ run'[c] = [run[c] EXCEPT !.stage = "refreshing", !.since = repo + 1]
  BY <1>1 DEF CommandFuture, SwitchTarget, RefreshTarget, ApplyAction, Done
<1>3. run'[c].kind = run[c].kind
  BY <1>1, <1>2 DEF Run
<1>4. ~CarriesCompletion(run[c]) /\ ~CarriesCompletion(run[c])' /\ ~CarriesCompletion(finished[c])
  BY <1>1, <1>3 DEF CarriesCompletion, Completing, SessionInv, WorkInv
<1>5. ~Holds(c) /\ ~Holds(c)'
  BY <1>1, <1>4 DEF Holds, CarriesCompletion
<1> QED BY <1>1, <1>5 DEF KeepsOrReleases, HoldingSame

LEMMA SelectHolding ==
  ASSUME TypeOK, NEW c \in Connections, SessionInv(c), Select(c)
  PROVE  KeepsOrReleases(c)
<1> USE DEF hostVars, repoVars, clientVars, lifeVars, viewVars, sentVars, workVars, ackVars, sessionVars
<1>1. HostSame
  BY DEF HostSame, Select, StateChanged, WatcherGone, ReceiveRequest, ReceiveLookup, ReceiveFails, LookupEnds,
         Heartbeat, CommandEnds
<1>2. CASE UNCHANGED <<run, finished>>
  BY <1>1, <1>2, SameHolding DEF KeepsOrReleases
<1>3. CASE Disruption(c) /\ (\E code : Fail(c, code))
  <2>1. ~Holds(c)'
    BY <1>3, EndedHoldsNothing
  <2>2. Holds(c) \/ HoldingSame(c)
    BY <2>1 DEF HoldingSame
  <2> QED BY <1>1, <1>3, <2>1, <2>2 DEF KeepsOrReleases
<1>4. CASE StateChanged(c) \/ ReceiveRequest(c) \/ ReceiveLookup(c) \/ LookupEnds(c) \/ Heartbeat(c)
  BY <1>2, <1>4 DEF StateChanged, ReceiveRequest, ReceiveLookup, LookupEnds, Heartbeat
<1>5. CASE WatcherGone(c)
  BY <1>3, <1>5 DEF WatcherGone, Disruption
<1>6. CASE ReceiveFails(c)
  <2>1. CASE ReceiveCanFail(c) /\ Fail(c, "Cancelled")
    BY <1>3, <2>1 DEF ReceiveCanFail, Disruption
  <2>2. CASE inbox[c] # <<>> /\ Receive(c) /\ Fail(c, "Protocol")
    <3>1. inbox[c] \in Seq(Command) /\ inbox'[c] = Tail(inbox[c])
      BY <2>2 DEF TypeOK, Receive
    <3>2. Len(inbox'[c]) # Len(inbox[c])
      BY <2>2, <3>1, QueueTail
    <3>3. Disruption(c)
      BY <3>2 DEF Disruption
    <3> QED BY <1>3, <2>2, <3>3
  <2> QED BY <1>6, <2>1, <2>2 DEF ReceiveFails
<1>7. CASE CommandEnds(c)
  <2>1. finished'[c] = run[c] /\ run'[c] = NoRun /\ finished[c].stage = "none"
    BY <1>7 DEF TypeOK, CommandEnds, AtSelect
  <2>2. ~CarriesCompletion(finished[c]) /\ ~CarriesCompletion(run[c])'
    BY <2>1 DEF CarriesCompletion, NoRun
  <2>3. CarriesCompletion(finished[c])' <=> CarriesCompletion(run[c])
    BY <2>1 DEF CarriesCompletion
  <2> QED BY <1>1, <2>1, <2>2, <2>3 DEF KeepsOrReleases, HoldingSame, Holds, Held, CompletionOf
<1> QED BY <1>4, <1>5, <1>6, <1>7 DEF Select

\* A step of a connection, about its own completion.
LEMMA HoldingStep ==
  ASSUME OrderInv, NEW c \in Connections, Step(c)
  PROVE  KeepsOrReleases(c) \/ Reserving(c)
<1>1. TypeOK /\ CompletionInv /\ SessionInv(c)
  BY DEF OrderInv, IInv
<1> QED BY <1>1, EstablishHolding, LoopHolding, StartHolding, FutureHolding, SelectHolding DEF Step

LEMMA OthersHolding ==
  ASSUME OrderInv, NEW c \in Connections, Step(c), NEW d \in Connections \ {c}
  PROVE  HoldingSame(d)
BY Apart, SameHolding DEF OrderInv, IInv, SessionSame

\* What the host, the repository and the watcher do is not about what a connection holds.
LEMMA HostHolding ==
  ASSUME NextReview \/ StopServer \/ GiveUp \/ RepositoryChanges \/ Watcher \/ WatcherStops \/ Terminated,
         NEW c \in Connections
  PROVE  HoldingSame(c)
<1>1. UNCHANGED <<run, finished>>
  BY DEF NextReview, StopServer, GiveUp, RepositoryChanges, Watcher, WatcherLoads, WatcherForgets, WatcherStops, Terminated,
         vars, sessionVars, workVars
<1> QED BY <1>1, SameHolding

\* A reserved completion is lost only to a disruption: the client is gone, does not read or sent a malformed
\* frame, the watcher is gone, or the server stopped.
THEOREM ReviewIsLostOnlyToDisruptionHolds == Spec => ReviewIsLostOnlyToDisruption
<1>1. ASSUME OrderInv, Next, NEW d \in Connections, Holds(d), ~Holds(d)', completions' = completions
      PROVE  Disruption(d)
  <2>1. ASSUME NEW c \in Connections, Step(c) PROVE Disruption(d)
    <3>1. c = d
      BY <1>1, <2>1, OthersHolding DEF HoldingSame
    <3>2. completions = <<>>
      BY <1>1 DEF OrderInv, IInv, CompletionInv, OneReview
    <3>3. completions' # Append(completions, Held(d))
      BY <1>1, <3>2
    <3> QED BY <1>1, <2>1, <3>1, <3>3, HoldingStep DEF KeepsOrReleases, Reserving, HoldingSame
  <2>2. CASE NextReview \/ StopServer \/ GiveUp \/ RepositoryChanges \/ Watcher \/ WatcherStops \/ Terminated
    BY <1>1, <2>2, HostHolding DEF HoldingSame
  <2> QED BY <1>1, <2>1, <2>2 DEF Next, Step
<1>2. OrderInv /\ [Next]_vars
        => [\A c \in Connections : Holds(c) /\ ~Holds(c)' /\ completions' = completions =>
              \/ link[c] = "down" \/ Len(outbox[c]) = Capacity
              \/ inbox[c] # inbox'[c]
              \/ ~watcherUp \/ stop]_vars
  BY <1>1 DEF Disruption
<1> QED BY <1>2, OrderInvariance, PTL DEF Spec, ReviewIsLostOnlyToDisruption

-----------------------------------------------------------------------------
(* The server implements ReviewCompletion.                                  *)

\* Where the completion is decides what the abstract specification sees.
Placed ==
  /\ \A c \in Connections : Holds(c) =>
       /\ completions = <<>> /\ delivered = <<>>
       /\ ReviewStatus = "reserved" /\ Completed = Held(c)
  /\ delivered # <<>> => ReviewStatus = "delivered" /\ Completed = Head(delivered)
  /\ delivered = <<>> /\ completions # <<>> => ReviewStatus = "reserved" /\ Completed = Head(completions)
  /\ delivered = <<>> /\ completions = <<>> /\ (\A c \in Connections : ~Holds(c)) =>
       /\ ReviewStatus = IF accepted THEN "lost" ELSE "open"
       /\ Completed = [by |-> "nobody", kind |-> "none", target |-> "none"]

LEMMA WhereItIs == OneReview => Placed
<1> SUFFICES ASSUME OneReview, NEW c \in Connections, Holds(c)
             PROVE  /\ completions = <<>> /\ delivered = <<>>
                    /\ ReviewStatus = "reserved" /\ Completed = Held(c)
  BY DEF Placed, ReviewStatus, Completed
<1>1. completions = <<>> /\ delivered = <<>>
  BY DEF OneReview
<1>2. (CHOOSE d \in Connections : Holds(d)) = c
  BY DEF OneReview
<1>3. Completed = Held(c)
  BY <1>1, <1>2 DEF Completed, Held
<1> QED BY <1>1, <1>3 DEF ReviewStatus

LEMMA Placing == OrderInv /\ [Next]_vars => Placed /\ Placed'
<1>1. OrderInv => OneReview
  BY DEF OrderInv, IInv, CompletionInv
<1> QED BY <1>1, StepOrder, WhereItIs, PTL

HeldTypeOK ==
  \A c \in Connections : Holds(c) => Held(c) \in [by: Connections, kind: {"Submit", "Cancel"}, target: Targets]

LEMMA HeldType == TypeOK => HeldTypeOK
<1> SUFFICES ASSUME TypeOK, NEW c \in Connections, Holds(c)
             PROVE  Held(c) \in [by: Connections, kind: {"Submit", "Cancel"}, target: Targets]
  BY DEF HeldTypeOK
<1>1. run[c] \in Run /\ finished[c] \in Run
  BY DEF TypeOK
<1>2. \E r \in Run : CarriesCompletion(r) /\ Held(c) = CompletionOf(c, r)
  BY <1>1 DEF Holds, Held
<1>3. PICK r \in Run : CarriesCompletion(r) /\ Held(c) = CompletionOf(c, r)
  BY <1>2
<1>4. r.kind \in {"Submit", "Cancel"} /\ r.target \in Targets
  BY <1>3 DEF CarriesCompletion, Completing, Run
<1> QED BY <1>3, <1>4 DEF CompletionOf

LEMMA PlacingTypes == OrderInv /\ [Next]_vars => HeldTypeOK'
<1>1. OrderInv => TypeOK
  BY DEF OrderInv, IInv
<1> QED BY <1>1, StepOrder, HeldType, PTL

AbstractStutter == ReviewStatus' = ReviewStatus /\ Completed' = Completed

LEMMA NothingMoves ==
  ASSUME Placed, Placed', HostSame, \A c \in Connections : HoldingSame(c)
  PROVE  AbstractStutter
<1>1. CASE \E c \in Connections : Holds(c)
  <2>1. PICK c \in Connections : Holds(c)
    BY <1>1
  <2>2. Holds(c)' /\ Held(c)' = Held(c)
    BY <2>1 DEF HoldingSame
  <2> QED BY <2>1, <2>2 DEF Placed, AbstractStutter
<1>2. CASE \A c \in Connections : ~Holds(c)
  <2>1. \A c \in Connections : ~Holds(c)'
    BY <1>2 DEF HoldingSame
  <2> QED BY <1>2, <2>1 DEF Placed, AbstractStutter, HostSame
<1> QED BY <1>1, <1>2

\* A step of the server is a step of ReviewCompletion or leaves it as it is.
LEMMA DecisionStep == OrderInv /\ OrderInv' /\ [Next]_vars => [Decision!Next]_<<ReviewStatus, Completed>>
<1> SUFFICES ASSUME OrderInv, OrderInv', [Next]_vars, ~AbstractStutter
             PROVE  Decision!Next
  BY DEF AbstractStutter
<1>1. /\ Placed /\ Placed' /\ OneReview /\ NothingBeforeReservation
      /\ TypeOK /\ HeldTypeOK'
  BY Placing, PlacingTypes DEF OrderInv, IInv, CompletionInv
<1>2. CASE NextReview
  <2>1. /\ completions # <<>> /\ completions \in Seq(Completion) /\ delivered \in Seq(Completion)
        /\ Len(completions) + Len(delivered) <= 1
        /\ delivered' = Append(delivered, Head(completions))
    BY <1>1, <1>2 DEF NextReview, OneReview, TypeOK
  <2>2. delivered = <<>>
    BY <2>1
  <2>3. delivered' # <<>> /\ Head(delivered') = Head(completions)
    BY <2>1, <2>2
  <2>4. ReviewStatus = "reserved" /\ ReviewStatus' = "delivered" /\ Completed' = Completed
    BY <1>1, <2>1, <2>2, <2>3 DEF Placed
  <2> QED BY <2>4 DEF Decision!Next, Decision!Deliver
<1>3. CASE StopServer \/ GiveUp \/ RepositoryChanges \/ Watcher \/ WatcherStops \/ Terminated
  <2>1. HostSame
    BY <1>3 DEF HostSame, StopServer, GiveUp, RepositoryChanges, Watcher, WatcherLoads, WatcherForgets, WatcherStops,
                Terminated, vars, hostVars
  <2>2. \A c \in Connections : HoldingSame(c)
    BY <1>3, HostHolding
  <2> QED BY <1>1, <2>1, <2>2, NothingMoves
<1>4. CASE UNCHANGED vars
  <2>1. HostSame /\ \A c \in Connections : HoldingSame(c)
    BY <1>4, SameHolding DEF HostSame, vars, hostVars, sessionVars, workVars
  <2> QED BY <1>1, <2>1, NothingMoves
<1>5. ASSUME NEW c \in Connections, Step(c)
      PROVE  Decision!Next
  <2>1. \A d \in Connections \ {c} : HoldingSame(d)
    BY <1>5, OthersHolding
  <2>2. CASE HostSame /\ HoldingSame(c)
    <3>1. \A d \in Connections : HoldingSame(d)
      BY <2>1, <2>2
    <3> QED BY <1>1, <2>2, <3>1, NothingMoves
  <2>3. CASE Holds(c) /\ ~Holds(c)' /\ completions' = Append(completions, Held(c)) /\ UNCHANGED <<accepted, delivered>>
    <3>1. completions = <<>> /\ delivered = <<>> /\ ReviewStatus = "reserved" /\ Completed = Held(c)
      BY <1>1, <2>3 DEF Placed
    <3>2. completions' # <<>> /\ Head(completions') = Held(c) /\ delivered' = <<>>
      BY <2>3, <3>1
    <3>3. ReviewStatus' = "reserved" /\ Completed' = Held(c)
      BY <1>1, <3>2 DEF Placed
    <3> QED BY <3>1, <3>3 DEF AbstractStutter
  <2>4. CASE Holds(c) /\ ~Holds(c)' /\ HostSame
    <3>1. accepted /\ completions = <<>> /\ delivered = <<>> /\ ReviewStatus = "reserved"
      BY <1>1, <2>4 DEF Placed, NothingBeforeReservation
    <3>2. \A d \in Connections : ~Holds(d)'
      BY <1>1, <2>1, <2>4 DEF HoldingSame, OneReview
    <3>3. /\ ReviewStatus' = "lost"
          /\ Completed' = [by |-> "nobody", kind |-> "none", target |-> "none"]
      BY <1>1, <2>4, <3>1, <3>2 DEF Placed, HostSame
    <3> QED BY <3>1, <3>3 DEF Decision!Next, Decision!Lose, Decision!NoReview
  <2>5. CASE Reserving(c)
    <3>1. ReviewStatus = "open"
      BY <1>1, <2>5 DEF Reserving, Placed, NothingBeforeReservation
    <3>2. ReviewStatus' = "reserved" /\ Completed' = Held(c)'
      BY <1>1, <2>5 DEF Reserving, Placed
    <3>3. Held(c)' \in Decision!Review
      BY <1>1, <2>5 DEF Reserving, HeldTypeOK, Decision!Review

    <3> QED BY <3>1, <3>2, <3>3 DEF Decision!Next, Decision!Reserve
  <2> QED BY <1>5, <2>2, <2>3, <2>4, <2>5, HoldingStep DEF KeepsOrReleases
<1> QED BY <1>2, <1>3, <1>4, <1>5 DEF Next, Step

\* The server implements ReviewCompletion: the host is handed at most one completion, the very one that was
\* reserved first, and nothing after a completion was lost.
\* CompletionSink's flag, the holder's future and the channel of capacity one are its three places.
THEOREM ReviewIsDecidedOnceHolds == Spec => ReviewIsDecidedOnce
<1>1. Init => Decision!Init
  <2>1. Init => /\ OneReview /\ ~accepted /\ completions = <<>> /\ delivered = <<>>
                /\ \A c \in Connections : ~Holds(c)
    BY InitIInv DEF Init, IInv, CompletionInv, Holds, CarriesCompletion, NoRun
  <2> QED BY <2>1, WhereItIs DEF Placed, Decision!Init, Decision!NoReview
<1>2. OrderInv /\ [Next]_vars => OrderInv'
  BY StepOrder
<1> QED BY <1>1, <1>2, DecisionStep, OrderInvariance, PTL DEF Spec, ReviewIsDecidedOnce, Decision!Spec
=============================================================================
