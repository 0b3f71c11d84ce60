-------------------------- MODULE DiffClientProofs --------------------------
(***************************************************************************)
(* Proofs about DiffClient, for any calls, targets, capacity and number of *)
(* connections: no call is lost or answered twice, no command runs twice,  *)
(* an answer is that of the call it is given to, what is reported          *)
(* disconnected did not run, and the target asked for is kept.             *)
(***************************************************************************)
EXTENDS DiffClient, SequenceTheorems, TLAPS

allVars == <<calls, handle, commands, lookups, worker, result, sending, pending, outstanding, initialized,
             closed, ready, view, resume, switched, link, toServer, toClient, session, late, outcomes,
             connections, published, written>>

-----------------------------------------------------------------------------
(* Queues.                                                                  *)

\* No call is in a queue twice.
Distinct(queue) == \A i, j \in 1..Len(queue) : queue[i] = queue[j] => i = j

LEMMA ElementsOfEmpty == Elements(<<>>) = {} /\ Distinct(<<>>)
BY DEF Elements, Distinct

LEMMA ElementsType ==
  ASSUME NEW S, NEW queue \in Seq(S)
  PROVE  Elements(queue) \subseteq S
BY DEF Elements

LEMMA ElementsOfAppend ==
  ASSUME NEW S, NEW queue \in Seq(S), NEW c \in S
  PROVE  /\ Append(queue, c) \in Seq(S)
         /\ Elements(Append(queue, c)) = Elements(queue) \cup {c}
         /\ Distinct(queue) /\ c \notin Elements(queue) => Distinct(Append(queue, c))
<1>1. /\ Append(queue, c) \in Seq(S) /\ Len(queue) \in Nat
      /\ Len(Append(queue, c)) = Len(queue) + 1
      /\ \A i \in 1..Len(queue) : Append(queue, c)[i] = queue[i]
      /\ Append(queue, c)[Len(queue) + 1] = c
  OBVIOUS
<1> DEFINE longer == Append(queue, c)
<1>2. Elements(longer) = Elements(queue) \cup {c}
  <2> HIDE DEF longer
  <2> QED BY <1>1 DEF Elements, longer
<1>3. ASSUME Distinct(queue), c \notin Elements(queue) PROVE Distinct(longer)
  <2> HIDE DEF longer
  <2> QED BY <1>1, <1>3 DEF Elements, Distinct, longer
<1> QED BY <1>1, <1>2, <1>3

LEMMA ElementsOfTail ==
  ASSUME NEW S, NEW queue \in Seq(S), queue # <<>>, Distinct(queue)
  PROVE  /\ Tail(queue) \in Seq(S) /\ Head(queue) \in S
         /\ Head(queue) \in Elements(queue)
         /\ Elements(Tail(queue)) = Elements(queue) \ {Head(queue)}
         /\ Distinct(Tail(queue))
<1>1. /\ Tail(queue) \in Seq(S) /\ Len(queue) \in Nat /\ Len(queue) >= 1
      /\ Len(Tail(queue)) = Len(queue) - 1
      /\ Head(queue) = queue[1] /\ Head(queue) \in S
  OBVIOUS
<1>2. \A i \in 1..Len(queue) - 1 : Tail(queue)[i] = queue[i + 1]
  OBVIOUS
<1> DEFINE shorter == Tail(queue)
<1>3. Elements(shorter) = Elements(queue) \ {queue[1]}
  <2> HIDE DEF shorter
  <2>1. ASSUME NEW c \in Elements(shorter) PROVE c \in Elements(queue) \ {queue[1]}
    BY <1>1, <1>2 DEF Elements, Distinct, shorter
  <2>2. ASSUME NEW c \in Elements(queue), c # queue[1] PROVE c \in Elements(shorter)
    <3>1. PICK i \in 1..Len(queue) : c = queue[i]
      BY DEF Elements
    <3>2. i - 1 \in 1..Len(shorter) /\ shorter[i - 1] = c
      BY <1>1, <1>2, <2>2, <3>1 DEF shorter
    <3> QED BY <3>2 DEF Elements
  <2> QED BY <2>1, <2>2
<1>4. Distinct(shorter)
  <2> HIDE DEF shorter
  <2> QED BY <1>1, <1>2 DEF Distinct, shorter
<1> QED BY <1>1, <1>3, <1>4 DEF Elements

-----------------------------------------------------------------------------
(* Replies.                                                                 *)

\* Only the replies of some calls change, and these get one.
Settles(answered) ==
  /\ calls' \in [Calls -> Call]
  /\ \A c \in Calls : /\ calls'[c].kind = calls[c].kind /\ calls'[c].target = calls[c].target
                      /\ c \in answered => calls'[c].reply \in Replies
                      /\ c \notin answered => calls'[c].reply = calls[c].reply

LEMMA ReplySettles ==
  ASSUME NEW answered, NEW reply \in Replies, Reply(answered, reply), calls \in [Calls -> Call]
  PROVE  /\ Settles(answered)
         /\ \A c \in Calls : c \in answered => calls'[c].reply = reply
<1>1. ASSUME NEW c \in Calls
      PROVE  /\ calls'[c] \in Call
             /\ calls'[c].kind = calls[c].kind /\ calls'[c].target = calls[c].target
             /\ calls'[c].reply = IF c \in answered THEN reply ELSE calls[c].reply
  <2>1. calls[c] \in Call
    OBVIOUS
  <2>2. CASE c \in answered
    <3>1. calls'[c] = [calls[c] EXCEPT !.reply = reply]
      BY <2>2 DEF Reply
    <3> QED BY <2>1, <2>2, <3>1 DEF Call
  <2>3. CASE c \notin answered
    BY <2>1, <2>3 DEF Reply
  <2> QED BY <2>2, <2>3
<1>2. calls' = [c \in Calls |-> calls'[c]]
  BY DEF Reply
<1>3. calls' \in [Calls -> Call]
  BY <1>1, <1>2
<1> QED BY <1>1, <1>3 DEF Settles

LEMMA NothingSettles ==
  ASSUME calls \in [Calls -> Call], calls' = calls
  PROVE  Settles({})
BY DEF Settles

\* What the calls that a stopping worker drops add to those it settled.
LEMMA StoppingSettles ==
  ASSUME NEW answered, NEW settled \in [Calls -> Call], StopsWith(settled), calls \in [Calls -> Call],
         \A c \in Calls : /\ settled[c].kind = calls[c].kind /\ settled[c].target = calls[c].target
                          /\ c \in answered => settled[c].reply \in Replies
                          /\ c \notin answered => settled[c].reply = calls[c].reply
  PROVE  /\ handle => Settles(answered) /\ calls' = settled /\ UNCHANGED <<commands, lookups>>
         /\ ~handle => /\ Settles(answered \cup Elements(commands) \cup Elements(lookups))
                       /\ \A c \in Calls : calls'[c].reply = IF c \in Elements(commands) \cup Elements(lookups)
                                                             THEN "Disconnected" ELSE settled[c].reply
                       /\ commands' = <<>> /\ lookups' = <<>>
<1>1. CASE handle
  BY <1>1 DEF StopsWith, Settles
<1>2. CASE ~handle
  <2> DEFINE dropped == Elements(commands) \cup Elements(lookups)
  <2>1. /\ calls' = [c \in Calls |-> IF c \in dropped THEN [settled[c] EXCEPT !.reply = "Disconnected"]
                                     ELSE settled[c]]
        /\ commands' = <<>> /\ lookups' = <<>>
    BY <1>2 DEF StopsWith
  <2> HIDE DEF dropped
  <2>2. ASSUME NEW c \in Calls
        PROVE  /\ calls'[c] \in Call
               /\ calls'[c].kind = settled[c].kind /\ calls'[c].target = settled[c].target
               /\ calls'[c].reply = IF c \in dropped THEN "Disconnected" ELSE settled[c].reply
    <3>1. settled[c] \in Call
      OBVIOUS
    <3>2. CASE c \in dropped
      <4>1. calls'[c] = [settled[c] EXCEPT !.reply = "Disconnected"]
        BY <2>1, <3>2
      <4> QED BY <3>1, <3>2, <4>1 DEF Call, Replies
    <3>3. CASE c \notin dropped
      BY <2>1, <3>1, <3>3
    <3> QED BY <3>2, <3>3
  <2>3. calls' = [c \in Calls |-> calls'[c]]
    BY <2>1
  <2>4. calls' \in [Calls -> Call]
    BY <2>2, <2>3
  <2>5. Settles(answered \cup dropped)
    BY <2>2, <2>4 DEF Settles, Replies
  <2> QED BY <1>2, <2>1, <2>2, <2>5 DEF dropped
<1> QED BY <1>1, <1>2

\* What `run` settles when a connection has ended.
LEMMA AbandoningSettles ==
  ASSUME NEW settled, calls \in [Calls -> Call],
         settled = [c \in Calls |-> IF c \in InFlight THEN [calls[c] EXCEPT !.reply = Abandoned(c)] ELSE calls[c]]
  PROVE  /\ settled \in [Calls -> Call]
         /\ \A c \in Calls : /\ settled[c].kind = calls[c].kind /\ settled[c].target = calls[c].target
                             /\ settled[c].reply = IF c \in InFlight THEN Abandoned(c) ELSE calls[c].reply
         /\ \A c \in Calls : Abandoned(c) \in {"OutcomeUnknown", "Disconnected"}
<1>1. \A c \in Calls : Abandoned(c) \in {"OutcomeUnknown", "Disconnected"}
  BY DEF Abandoned
<1>2. ASSUME NEW c \in Calls
      PROVE  /\ settled[c] \in Call
             /\ settled[c].kind = calls[c].kind /\ settled[c].target = calls[c].target
             /\ settled[c].reply = IF c \in InFlight THEN Abandoned(c) ELSE calls[c].reply
  <2>1. calls[c] \in Call
    OBVIOUS
  <2>2. CASE c \in InFlight
    <3>1. settled[c] = [calls[c] EXCEPT !.reply = Abandoned(c)]
      BY <2>2
    <3>2. Abandoned(c) \in Replies
      BY <1>1 DEF Replies
    <3> QED BY <2>1, <2>2, <3>1, <3>2 DEF Call
  <2>3. CASE c \notin InFlight
    BY <2>1, <2>3
  <2> QED BY <2>2, <2>3
<1>3. settled = [c \in Calls |-> settled[c]]
  OBVIOUS
<1> QED BY <1>1, <1>2, <1>3

-----------------------------------------------------------------------------
(* Types.                                                                   *)

LEMMA EventFields ==
  ASSUME NEW event \in Event
  PROVE  /\ event.kind \in {"Initialize", "Document", "Health", "RequestResult", "Lookup", "Error", "Malformed"}
         /\ event.kind = "Initialize" => event.supported \in BOOLEAN
         /\ event.kind = "Document" => event.target \in Targets
         /\ event.kind = "Health" => event.error \in BOOLEAN
         /\ event.kind = "RequestResult" => event.result \in {"ok", "rejected"}
         /\ event.kind = "Lookup" => event.call \in Calls /\ event.result \in {"ok", "rejected"}
         /\ event.kind = "Error" => event.terminal \in BOOLEAN
BY DEF Event

LEMMA EventTypes ==
  /\ Greets \in Event
  /\ \A t \in Targets : Shows(t) \in Event
  /\ \A r \in {"ok", "rejected"} : [kind |-> "RequestResult", result |-> r] \in Event
  /\ \A c \in Calls, r \in {"ok", "rejected"} : [kind |-> "Lookup", call |-> c, result |-> r] \in Event
  /\ [kind: {"Health"}, error: BOOLEAN] \subseteq Event
  /\ [kind: {"Error"}, terminal: BOOLEAN] \subseteq Event
  /\ [kind |-> "Initialize", supported |-> FALSE] \in Event
  /\ [kind |-> "Malformed"] \in Event
<1>1. Greets \in Event /\ [kind |-> "Initialize", supported |-> FALSE] \in Event /\ [kind |-> "Malformed"] \in Event
  BY DEF Event, Greets
<1>2. \A t \in Targets : Shows(t) \in Event
  BY DEF Event, Shows
<1>3. \A r \in {"ok", "rejected"} : [kind |-> "RequestResult", result |-> r] \in Event
  BY DEF Event
<1>4. \A c \in Calls, r \in {"ok", "rejected"} : [kind |-> "Lookup", call |-> c, result |-> r] \in Event
  BY DEF Event
<1>5. [kind: {"Health"}, error: BOOLEAN] \subseteq Event /\ [kind: {"Error"}, terminal: BOOLEAN] \subseteq Event
  BY DEF Event
<1> QED BY <1>1, <1>2, <1>3, <1>4, <1>5

LEMMA ViewTypes ==
  ASSUME view \in View
  PROVE  /\ \A connection \in {"Connecting", "Connected", "Failed"} : SetConnection(connection) => view' \in View
         /\ \A event \in Event : event.kind \in {"Initialize", "Document", "Health", "Error"} => Apply(event) \in View
<1>1. /\ view.connection \in {"Connecting", "Connected", "Failed"} /\ view.snapshot \in Targets \cup {NoTarget}
      /\ view.error \in BOOLEAN /\ view.able \in [act: BOOLEAN, submit: BOOLEAN]
      /\ view = [connection |-> view.connection, snapshot |-> view.snapshot, error |-> view.error, able |-> view.able]
  BY DEF View
<1>2. \A connection, snapshot : Capabilities(connection, snapshot) \in [act: BOOLEAN, submit: BOOLEAN]
  BY DEF Capabilities
<1> HIDE DEF Capabilities
<1>3. ASSUME NEW connection \in {"Connecting", "Connected", "Failed"}, SetConnection(connection)
      PROVE  view' \in View
  BY <1>1, <1>2, <1>3 DEF SetConnection, View
<1>4. ASSUME NEW event \in Event, event.kind \in {"Initialize", "Document", "Health", "Error"}
      PROVE  Apply(event) \in View
  <2>1. CASE event.kind = "Initialize"
    <3> DEFINE able == Capabilities(view.connection, view.snapshot)
    <3>1. Apply(event) = [view EXCEPT !.error = FALSE, !.able = able] /\ able \in [act: BOOLEAN, submit: BOOLEAN]
      BY <1>2, <2>1 DEF Apply
    <3> HIDE DEF able
    <3> QED BY <1>1, <3>1 DEF View
  <2>2. CASE event.kind = "Document"
    <3> DEFINE able == Capabilities("Connected", event.target)
               shown == event.target
    <3>1. /\ Apply(event) = [view EXCEPT !.snapshot = shown, !.connection = "Connected", !.able = able]
          /\ able \in [act: BOOLEAN, submit: BOOLEAN]
      BY <1>2, <2>2 DEF Apply
    <3>2. shown \in Targets
      BY <2>2, EventFields
    <3> HIDE DEF able, shown
    <3> QED BY <1>1, <3>1, <3>2 DEF View
  <2>3. CASE event.kind = "Health"
    <3>1. Apply(event) = [view EXCEPT !.error = event.error] /\ event.error \in BOOLEAN
      BY <2>3, EventFields DEF Apply
    <3> QED BY <1>1, <3>1 DEF View
  <2>4. CASE event.kind = "Error"
    <3> DEFINE able == Capabilities("Failed", view.snapshot)
    <3>1. Apply(event) = [view EXCEPT !.connection = "Failed", !.able = able] /\ able \in [act: BOOLEAN, submit: BOOLEAN]
      BY <1>2, <2>4 DEF Apply
    <3> HIDE DEF able
    <3> QED BY <1>1, <3>1 DEF View
  <2> QED BY <1>4, <2>1, <2>2, <2>3, <2>4
<1> QED BY <1>3, <1>4

LEMMA SessionFields ==
  ASSUME session \in Session
  PROVE  /\ session.greeted \in BOOLEAN /\ session.target \in Targets
         /\ session.work \in SUBSET Calls /\ session.due \in Seq(Event)
         /\ session = [greeted |-> session.greeted, target |-> session.target,
                       work |-> session.work, due |-> session.due]
BY DEF Session

LEMMA MessageTypes ==
  ASSUME calls \in [Calls -> Call]
  PROVE  /\ \A t \in Targets : Hello(t) \in Message
         /\ \A c \in Calls : Command(c) \in Message
<1>1. ASSUME NEW c \in Calls PROVE calls[c].target \in Targets
  BY DEF Call
<1> QED BY <1>1 DEF Hello, Command, Message

LEMMA TypesInitially == Init => TypeOK
<1> SUFFICES ASSUME Init PROVE TypeOK
  OBVIOUS
<1>1. FirstTarget \in Targets
  BY ConstantsAssumption
<1>2. Unused \in Call
  BY <1>1 DEF Unused, Call, Kinds
<1>3. calls \in [Calls -> Call] /\ outcomes \in [Calls -> Seq({"ok", "rejected"})]
  BY <1>2 DEF Init
<1>4. FirstView \in View
  BY DEF FirstView, View, Capabilities
<1>5. NewSession \in Session
  BY <1>1 DEF NewSession, Session
<1>6. view \in View /\ session \in Session /\ resume \in Targets
  BY <1>1, <1>4, <1>5 DEF Init
<1>7. /\ commands \in Seq(Calls) /\ lookups \in Seq(Calls) /\ toServer \in Seq(Message) /\ toClient \in Seq(Event)
  BY DEF Init
<1>8. /\ handle \in BOOLEAN /\ worker \in Workers /\ result \in {"ok", "lost", "terminal"}
      /\ initialized \in BOOLEAN /\ closed \in BOOLEAN /\ ready \in {"waiting", "ok", "failed"}
      /\ link \in {"up", "cut"} /\ connections \in Nat /\ published \in Nat
      /\ written \in SUBSET Calls
  BY DEF Init, Workers
<1>9. /\ sending \in Calls \cup {NoCall} /\ pending \in Calls \cup {NoCall} /\ outstanding \in SUBSET Calls
      /\ late \in SUBSET Calls /\ switched \in Targets \cup {NoTarget}
  BY DEF Init
<1> QED BY <1>3, <1>6, <1>7, <1>8, <1>9 DEF TypeOK

\* A step settles calls and does not touch the queues but to take calls from them.
LEMMA TypesOfCallers ==
  ASSUME TypeOK, Caller
  PROVE  TypeOK'
<1> USE DEF callerVars, flightVars, stateVars, linkVars, serverVars, boundVars
<1>1. ASSUME NEW c \in Calls, MakeCall(c) PROVE TypeOK'
  <2>1. PICK kind \in CallKinds, t \in Targets, held \in BOOLEAN :
          /\ calls' = [calls EXCEPT ![c] = [kind |-> kind, target |-> t, held |-> held,
                         reply |-> IF worker = "stopped" THEN "Disconnected" ELSE "waiting"]]
          /\ commands' = IF worker = "stopped" \/ kind = "Lookup" THEN commands ELSE Append(commands, c)
          /\ lookups' = IF worker = "stopped" \/ kind # "Lookup" THEN lookups ELSE Append(lookups, c)
    BY <1>1 DEF MakeCall
  <2>2. kind \in Kinds
    BY ConstantsAssumption
  <2>3. [kind |-> kind, target |-> t, held |-> held,
         reply |-> IF worker = "stopped" THEN "Disconnected" ELSE "waiting"] \in Call
    BY <2>2 DEF Call, Replies
  <2>4. calls' \in [Calls -> Call]
    BY <2>1, <2>3 DEF TypeOK
  <2>5. commands' \in Seq(Calls) /\ lookups' \in Seq(Calls)
    BY <2>1, ElementsOfAppend DEF TypeOK
  <2> QED BY <1>1, <2>4, <2>5 DEF MakeCall, TypeOK
<1>2. ASSUME DropHandle PROVE TypeOK'
  <2>1. calls' \in [Calls -> Call]
    <3>1. CASE worker = "stopped"
      BY <1>2, <3>1, ReplySettles DEF DropHandle, TypeOK, Settles, Replies
    <3> QED BY <1>2, <3>1 DEF DropHandle, TypeOK
  <2>2. commands' \in Seq(Calls) /\ lookups' \in Seq(Calls)
    <3>1. commands' \in {commands, <<>>} /\ lookups' \in {lookups, <<>>}
      BY <1>2 DEF DropHandle
    <3>2. commands \in Seq(Calls) /\ lookups \in Seq(Calls) /\ <<>> \in Seq(Calls)
      BY DEF TypeOK
    <3> QED BY <3>1, <3>2
  <2> QED BY <1>2, <2>1, <2>2 DEF DropHandle, TypeOK
<1> QED BY <1>1, <1>2 DEF Caller

LEMMA SendingTypes ==
  ASSUME toServer \in Seq(Message), NEW message \in Message, SendTo(message) \/ SendFails(message)
  PROVE  toServer' \in Seq(Message)
BY ElementsOfAppend DEF SendTo, SendFails

LEMMA TypesOfConnection ==
  ASSUME TypeOK, worker = "sending" => sending # NoCall, Connection
  PROVE  TypeOK'
<1> USE DEF callerVars, flightVars, stateVars, linkVars, serverVars, boundVars, EndConnection, Workers
<1>0. /\ calls \in [Calls -> Call] /\ commands \in Seq(Calls) /\ lookups \in Seq(Calls)
      /\ toServer \in Seq(Message) /\ toClient \in Seq(Event)
      /\ sending \in Calls \cup {NoCall} /\ pending \in Calls \cup {NoCall} /\ outstanding \in SUBSET Calls
      /\ resume \in Targets /\ view \in View /\ switched \in Targets \cup {NoTarget}
  BY DEF TypeOK
<1>1. CASE Greet
  <2>1. SendTo(Hello(resume)) \/ SendFails(Hello(resume))
    BY <1>1 DEF Greet
  <2>2. toServer' \in Seq(Message)
    BY <1>0, <2>1, MessageTypes, SendingTypes
  <2> QED BY <1>1, <2>2 DEF Greet, TypeOK
<1>2. CASE TakeCommand
  <2>1. commands' \in Seq(Calls) /\ Head(commands) \in Calls
    BY <1>0, <1>2 DEF TakeCommand, Taken
  <2>2. calls' \in [Calls -> Call]
    <3>1. \/ Reply({Head(commands)}, "ok")
          \/ Reply({Head(commands)}, "Disconnected")
          \/ calls' = calls
      BY <1>2 DEF TakeCommand
    <3> QED BY <1>0, <3>1, ReplySettles DEF Settles, Replies
  <2> QED BY <1>2, <2>1, <2>2, ZenonT(60) DEF TakeCommand, TypeOK
<1>3. CASE TakeLookup
  <2>1. lookups' \in Seq(Calls) /\ Head(lookups) \in Calls
    BY <1>0, <1>3 DEF TakeLookup
  <2>2. calls' \in [Calls -> Call]
    <3>1. Reply({Head(lookups)}, "Disconnected") \/ calls' = calls
      BY <1>3 DEF TakeLookup
    <3> QED BY <1>0, <3>1, ReplySettles DEF Settles, Replies
  <2> QED BY <1>3, <2>1, <2>2 DEF TakeLookup, TypeOK
<1>4. CASE Sent /\ sending # NoCall
  <2>1. toServer' \in Seq(Message)
    BY <1>0, <1>4, MessageTypes, SendingTypes DEF Sent
  <2> QED BY <1>4, <2>1 DEF Sent, TypeOK
<1>5. CASE SendingFails /\ sending # NoCall
  <2>1. toServer' \in Seq(Message)
    BY <1>0, <1>5, MessageTypes, SendingTypes DEF SendingFails
  <2>2. calls' \in [Calls -> Call]
    BY <1>0, <1>5, ReplySettles DEF SendingFails, Settles, Replies
  <2> QED BY <1>5, <2>1, <2>2 DEF SendingFails, TypeOK
<1>6. CASE ReceiveEvent
  <2> DEFINE event == Head(toClient)
  <2>1. event \in Event /\ toClient' \in Seq(Event)
    BY <1>0, <1>6 DEF ReceiveEvent
  <2>2. calls' \in [Calls -> Call]
    <3>1. \/ calls' = calls
          \/ event.kind = "RequestResult" /\ Reply({pending}, event.result)
          \/ event.kind = "Lookup" /\ Reply({event.call} \cap outstanding, event.result)
      BY <1>6 DEF ReceiveEvent
    <3> HIDE DEF event
    <3> QED BY <1>0, <2>1, <3>1, EventFields, ReplySettles DEF Settles, Replies
  <2>3. view' \in View /\ resume' \in Targets
    <3>1. \/ view' = view /\ resume' = resume
          \/ event.kind \in {"Initialize", "Document", "Health"} /\ Follow(event) /\ view' = Apply(event)
          \/ event.kind = "Error" /\ view' = Apply(event) /\ resume' = resume
      BY <1>6 DEF ReceiveEvent
    <3> HIDE DEF event
    <3> QED BY <1>0, <2>1, <3>1, EventFields, ViewTypes DEF Follow
  <2>4. switched' \in Targets \cup {NoTarget}
    <3>1. switched' = switched \/ (pending \in Calls /\ switched' = calls[pending].target)
      BY <1>0, <1>6 DEF ReceiveEvent
    <3> QED BY <1>0, <3>1 DEF Call
  <2>5. /\ initialized' \in BOOLEAN /\ ready' \in {"waiting", "ok", "failed"}
        /\ worker' \in Workers /\ result' \in {"ok", "lost", "terminal"}
        /\ pending' \in Calls \cup {NoCall} /\ outstanding' \in SUBSET Calls
    <3>1. /\ initialized' \in BOOLEAN /\ ready' \in {ready, "ok"}
          /\ worker' \in {worker, "closing"} /\ result' \in {result, "terminal", "lost"}
          /\ pending' \in {pending, NoCall}
          /\ outstanding' = outstanding \/ outstanding' = outstanding \ {event.call}
      BY <1>6 DEF ReceiveEvent
    <3> QED BY <3>1 DEF TypeOK
  <2>6. UNCHANGED <<handle, commands, lookups, sending, closed, link, toServer, session, late, outcomes,
                    connections, published, written>>
    BY <1>6 DEF ReceiveEvent
  <2> HIDE DEF event
  <2> QED BY <2>1, <2>2, <2>3, <2>4, <2>5, <2>6 DEF TypeOK
<1>7. CASE RefuseEvent
  BY <1>0, <1>7 DEF RefuseEvent, TypeOK
<1>8. CASE ReceiveFails
  BY <1>8 DEF ReceiveFails, TypeOK
<1>9. CASE HandleGone
  BY <1>9 DEF HandleGone, TypeOK
<1>10. (Sent \/ SendingFails) => sending # NoCall
  BY DEF Sent, SendingFails
<1> QED BY <1>1, <1>2, <1>3, <1>4, <1>5, <1>6, <1>7, <1>8, <1>9, <1>10 DEF Connection

LEMMA TypesBetween ==
  ASSUME TypeOK, Between
  PROVE  TypeOK'
<1> USE DEF callerVars, flightVars, stateVars, linkVars, serverVars, boundVars, Workers
<1>0. /\ calls \in [Calls -> Call] /\ commands \in Seq(Calls) /\ lookups \in Seq(Calls) /\ <<>> \in Seq(Calls)
      /\ view \in View
  BY DEF TypeOK
<1>1. CASE Close
  <2> DEFINE settled == [c \in Calls |-> IF c \in InFlight THEN [calls[c] EXCEPT !.reply = Abandoned(c)] ELSE calls[c]]
  <2>1. /\ settled \in [Calls -> Call]
        /\ \A c \in Calls : /\ settled[c].kind = calls[c].kind /\ settled[c].target = calls[c].target
                            /\ c \in InFlight => settled[c].reply \in Replies
                            /\ c \notin InFlight => settled[c].reply = calls[c].reply
    <3>1. settled = [c \in Calls |-> IF c \in InFlight THEN [calls[c] EXCEPT !.reply = Abandoned(c)] ELSE calls[c]]
      OBVIOUS
    <3> HIDE DEF settled
    <3> QED BY <1>0, <3>1, AbandoningSettles DEF Replies
  <2>2. \/ /\ worker' = "reconnecting" /\ SetConnection("Connecting")
           /\ calls' = settled /\ UNCHANGED <<commands, lookups>>
        \/ StopsWith(settled)
    BY <1>1 DEF Close
  <2> HIDE DEF settled
  <2>3. calls' \in [Calls -> Call] /\ commands' \in Seq(Calls) /\ lookups' \in Seq(Calls)
    BY <1>0, <2>1, <2>2, StoppingSettles, ZenonT(60) DEF Settles
  <2>4. view' \in View /\ worker' \in Workers
    BY <1>0, <2>2, ViewTypes DEF StopsWith
  <2>5. link' = "cut" /\ pending' = NoCall /\ outstanding' = {} /\ ready' \in {ready, "ok", "failed"}
    BY <1>1 DEF Close
  <2>6. UNCHANGED <<handle, result, sending, initialized, closed, resume, switched, toServer, toClient,
                    session, late, outcomes, connections, published, written>>
    BY <1>1 DEF Close
  <2> QED BY <2>3, <2>4, <2>5, <2>6 DEF TypeOK
<1>2. CASE Reconnect
  <2>1. late' \in SUBSET Calls
    <3>1. \A i \in 1..Len(toServer) : toServer[i] \in Message
      BY DEF TypeOK
    <3>2. \A i \in 1..Len(toServer) : toServer[i].call \in Calls \cup {NoCall}
      BY <3>1 DEF Message
    <3> QED BY <1>2, <3>2, SessionFields DEF Reconnect, TypeOK
  <2>2. session' \in Session
    <3>1. FirstTarget \in Targets
      BY ConstantsAssumption
    <3> QED BY <1>2, <3>1 DEF Reconnect, NewSession, Session
  <2>3. toServer' \in Seq(Message) /\ toClient' \in Seq(Event)
    BY <1>2 DEF Reconnect
  <2>4. worker' \in Workers /\ initialized' \in BOOLEAN /\ link' \in {"up", "cut"} /\ connections' \in Nat
    <3>1. connections \in Nat /\ connections' = connections + 1
      BY <1>2 DEF Reconnect, TypeOK
    <3>2. connections' \in Nat
      BY <3>1
    <3>3. worker' = "greeting" /\ initialized' = FALSE /\ link' = "up"
      BY <1>2 DEF Reconnect, ResetHandshake
    <3> QED BY <3>2, <3>3
  <2> QED BY <1>2, <2>1, <2>2, <2>3, <2>4 DEF Reconnect, TypeOK
<1>3. CASE RefuseCall
  <2>1. \/ Reply({Head(lookups)}, "Disconnected")
        \/ Reply({Head(commands)}, "Disconnected")
    BY <1>3 DEF RefuseCall
  <2>2. calls' \in [Calls -> Call]
    BY <1>0, <2>1, ReplySettles DEF Settles, Replies
  <2>3. commands' \in Seq(Calls) /\ lookups' \in Seq(Calls)
    <3>1. \/ lookups # <<>> /\ lookups' = Tail(lookups) /\ commands' = commands
          \/ commands # <<>> /\ commands' = Tail(commands) /\ lookups' = lookups
      BY <1>3 DEF RefuseCall
    <3>2. /\ lookups # <<>> => Tail(lookups) \in Seq(Calls)
          /\ commands # <<>> => Tail(commands) \in Seq(Calls)
      BY <1>0
    <3> QED BY <1>0, <3>1, <3>2
  <2> QED BY <1>3, <2>2, <2>3 DEF RefuseCall, TypeOK
<1>4. CASE StopReconnecting
  <2>1. \/ /\ Reply({Head(commands)}, "ok") /\ commands # <<>> /\ commands' = Tail(commands) /\ lookups' = lookups
           /\ worker' = "stopped" /\ SetConnection("Failed")
        \/ StopsWith(calls)
    BY <1>4 DEF StopReconnecting
  <2>2. calls' \in [Calls -> Call] /\ commands' \in Seq(Calls) /\ lookups' \in Seq(Calls)
    <3>1. CASE StopsWith(calls)
      <4>1. PICK settled, none : settled = calls /\ none = {}
        OBVIOUS
      <4>2. /\ settled \in [Calls -> Call] /\ StopsWith(settled)
            /\ \A c \in Calls : /\ settled[c].kind = calls[c].kind /\ settled[c].target = calls[c].target
                                /\ c \in none => settled[c].reply \in Replies
                                /\ c \notin none => settled[c].reply = calls[c].reply
        BY <1>0, <3>1, <4>1
      <4>3. /\ handle => calls' = settled /\ UNCHANGED <<commands, lookups>>
            /\ ~handle => /\ Settles(none \cup Elements(commands) \cup Elements(lookups))
                          /\ commands' = <<>> /\ lookups' = <<>>
        BY <1>0, <4>2, StoppingSettles, ZenonT(60)
      <4> QED BY <1>0, <4>1, <4>3 DEF Settles, TypeOK
    <3>2. CASE Reply({Head(commands)}, "ok") /\ commands # <<>> /\ commands' = Tail(commands) /\ lookups' = lookups
      BY <1>0, <3>2, ReplySettles DEF Settles, Replies
    <3> QED BY <2>1, <3>1, <3>2
  <2>3. view' \in View /\ worker' \in Workers
    BY <1>0, <2>1, ViewTypes DEF StopsWith
  <2> QED BY <1>4, <2>2, <2>3 DEF StopReconnecting, TypeOK
<1> QED BY <1>1, <1>2, <1>3, <1>4 DEF Between

LEMMA TypesOfServer ==
  ASSUME TypeOK, Server
  PROVE  TypeOK'
<1> USE DEF callerVars, flightVars, stateVars, linkVars, serverVars, boundVars
<1>0. /\ calls \in [Calls -> Call] /\ toServer \in Seq(Message) /\ toClient \in Seq(Event)
      /\ session \in Session /\ outcomes \in [Calls -> Seq({"ok", "rejected"})] /\ published \in Nat
  BY DEF TypeOK
<1>1. /\ session.greeted \in BOOLEAN /\ session.target \in Targets
      /\ session.work \in SUBSET Calls /\ session.due \in Seq(Event)
  BY <1>0, SessionFields
<1>2. CASE SessionReceives
  <2>1. Head(toServer) \in Message /\ toServer' \in Seq(Message)
    BY <1>0, <1>2 DEF SessionReceives
  <2>2. Head(toServer).target \in Targets /\ Head(toServer).call \in Calls \cup {NoCall}
    BY <2>1 DEF Message
  <2>3. session' \in Session
    <3>1. <<Greets, Shows(Head(toServer).target)>> \in Seq(Event)
      BY <2>2, EventTypes
    <3>2. CASE Head(toServer).call = NoCall
      <4>1. session' = [session EXCEPT !.greeted = TRUE, !.target = Head(toServer).target,
                                       !.due = <<Greets, Shows(Head(toServer).target)>>]
        BY <1>2, <3>2 DEF SessionReceives
      <4> QED BY <1>0, <2>2, <3>1, <4>1 DEF Session
    <3>3. CASE Head(toServer).call # NoCall
      <4>1. session' = [session EXCEPT !.work = @ \cup {Head(toServer).call}]
        BY <1>2, <3>3 DEF SessionReceives
      <4> QED BY <1>0, <1>1, <2>2, <3>3, <4>1 DEF Session
    <3> QED BY <3>2, <3>3
  <2> QED BY <1>2, <2>1, <2>3 DEF SessionReceives, TypeOK
<1>3. ASSUME NEW c \in Calls, SessionRuns(c) PROVE TypeOK'
  <2> DEFINE switches(outcome) == calls[c].kind = "SetTarget" /\ outcome = "ok"
             shown(outcome) == IF switches(outcome) THEN calls[c].target ELSE session.target
             answer(outcome) == IF calls[c].kind = "Lookup"
                                THEN <<[kind |-> "Lookup", call |-> c, result |-> outcome]>>
                                ELSE <<[kind |-> "RequestResult", result |-> outcome]>>
             due(outcome) == (IF switches(outcome) THEN <<Shows(shown(outcome))>> ELSE <<>>) \o answer(outcome)
  <2>1. PICK outcome \in {"ok", "rejected"} :
          /\ outcomes' = [outcomes EXCEPT ![c] = Append(@, outcome)]
          /\ session' = [session EXCEPT !.work = @ \ {c}, !.target = shown(outcome), !.due = due(outcome)]
    BY <1>3 DEF SessionRuns
  <2>2. shown(outcome) \in Targets
    BY <1>0, <1>1 DEF Call
  <2>3. due(outcome) \in Seq(Event)
    <3>1. answer(outcome) \in Seq(Event)
      <4>1. /\ [kind |-> "Lookup", call |-> c, result |-> outcome] \in Event
            /\ [kind |-> "RequestResult", result |-> outcome] \in Event
        BY EventTypes
      <4>2. /\ <<[kind |-> "Lookup", call |-> c, result |-> outcome]>> \in Seq(Event)
            /\ <<[kind |-> "RequestResult", result |-> outcome]>> \in Seq(Event)
        BY <4>1
      <4> QED BY <4>2
    <3>2. <<Shows(shown(outcome))>> \in Seq(Event)
      BY <2>2, EventTypes
    <3> QED BY <3>1, <3>2
  <2>4. outcomes' \in [Calls -> Seq({"ok", "rejected"})]
    BY <1>0, <2>1
  <2> HIDE DEF shown, due
  <2>5. session' \in Session
    BY <1>0, <1>1, <2>1, <2>2, <2>3 DEF Session
  <2> QED BY <1>3, <2>4, <2>5 DEF SessionRuns, TypeOK
<1>4. CASE SessionPublishes
  <2>1. Head(session.due) \in Event /\ Tail(session.due) \in Seq(Event)
    BY <1>1, <1>4 DEF SessionPublishes
  <2>2. toClient' \in Seq(Event)
    BY <1>0, <1>4, <2>1 DEF SessionPublishes
  <2>3. session' \in Session
    <3>1. session' = [session EXCEPT !.due = Tail(session.due)]
      BY <1>4 DEF SessionPublishes
    <3> QED BY <1>0, <2>1, <3>1 DEF Session
  <2> QED BY <1>4, <2>2, <2>3 DEF SessionPublishes, TypeOK
<1>5. CASE SessionSpeaks
  <2>1. PICK event \in Event : session' = [session EXCEPT !.due = <<event>>]
    BY <1>1, <1>5, EventTypes DEF SessionSpeaks
  <2>2. <<event>> \in Seq(Event)
    OBVIOUS
  <2>3. session' \in Session
    <3> DEFINE due == <<event>>
    <3>1. session' = [session EXCEPT !.due = due] /\ due \in Seq(Event)
      BY <2>1, <2>2
    <3> HIDE DEF due
    <3> QED BY <1>0, <3>1 DEF Session
  <2>4. published' \in Nat
    BY <1>0, <1>5 DEF SessionSpeaks
  <2> QED BY <1>5, <2>3, <2>4 DEF SessionSpeaks, TypeOK
<1>6. CASE SessionTimesOut
  BY <1>6 DEF SessionTimesOut, TypeOK
<1>7. CASE SessionDies
  BY <1>7 DEF SessionDies, TypeOK
<1>8. ASSUME NEW c \in Calls, RunsLate(c) PROVE TypeOK'
  <2>1. outcomes' \in [Calls -> Seq({"ok", "rejected"})] /\ late' \in SUBSET Calls
    BY <1>0, <1>8 DEF RunsLate, TypeOK
  <2> QED BY <1>8, <2>1 DEF RunsLate, TypeOK
<1> QED BY <1>2, <1>3, <1>4, <1>5, <1>6, <1>7, <1>8 DEF Server

LEMMA NothingChanges ==
  Quiet \/ UNCHANGED vars => UNCHANGED allVars
BY DEF Quiet, vars, allVars, callerVars, flightVars, stateVars, linkVars, serverVars, boundVars

LEMMA TypesAreKept ==
  ASSUME TypeOK, worker = "sending" => sending # NoCall, [Next]_vars
  PROVE  TypeOK'
<1>1. CASE Quiet \/ UNCHANGED vars
  BY <1>1, NothingChanges DEF allVars, TypeOK
<1> QED BY <1>1, TypesOfCallers, TypesOfConnection, TypesBetween, TypesOfServer DEF Next

-----------------------------------------------------------------------------
(* Where calls are.                                                         *)

\* EveryCallIsSomewhere, with what is true of the calls in each place: a queue holds none twice, a
\* command is sent only while no request is pending, and nothing is in flight without a connection.
CallsInv ==
  /\ EveryCallIsSomewhere
  /\ Distinct(commands) /\ Distinct(lookups)
  /\ \A c \in Elements(commands) : calls[c].kind # "Lookup"
  /\ \A c \in Elements(lookups) \cup outstanding : calls[c].kind = "Lookup"
  /\ pending # NoCall => IsRequest(pending)
  /\ worker = "sending" <=> sending # NoCall
  /\ sending # NoCall => /\ calls[sending].kind # "Close"
                         /\ IsRequest(sending) => pending = NoCall
  /\ worker \in {"greeting", "reconnecting", "stopped"} => pending = NoCall /\ outstanding = {}

LEMMA CallsInitially == Init => CallsInv
<1> SUFFICES ASSUME Init PROVE CallsInv
  OBVIOUS
<1>1. /\ \A c \in Calls : calls[c].reply = "unused"
      /\ commands = <<>> /\ lookups = <<>> /\ sending = NoCall /\ pending = NoCall /\ outstanding = {}
      /\ worker = "greeting"
  BY DEF Init, Unused
<1> QED BY <1>1, ElementsOfEmpty DEF CallsInv, EveryCallIsSomewhere, Waiting, Queued, Underway

\* Whatever settles some calls and takes them from where they are keeps it.
LEMMA SettlingKeepsCalls ==
  ASSUME TypeOK, CallsInv, NEW answered, Settles(answered),
         Distinct(commands'), Distinct(lookups'),
         Elements(commands') = Elements(commands) \ answered, Elements(lookups') = Elements(lookups) \ answered,
         sending' = IF sending \in answered THEN NoCall ELSE sending,
         pending' = IF pending \in answered THEN NoCall ELSE pending,
         outstanding' = outstanding \ answered,
         worker' = "sending" <=> sending' # NoCall,
         worker' \in {"greeting", "reconnecting", "stopped"} => pending' = NoCall /\ outstanding' = {}
  PROVE  CallsInv'
<1>0. /\ Elements(commands) \subseteq Calls /\ Elements(lookups) \subseteq Calls
      /\ sending \in Calls \cup {NoCall} /\ pending \in Calls \cup {NoCall} /\ outstanding \subseteq Calls
      /\ NoCall \notin Calls
  BY ElementsType, ConstantsAssumption DEF TypeOK
<1>1. \A c \in Calls : Waiting(c)' <=> Waiting(c) /\ c \notin answered
  BY DEF Settles, Waiting, Replies
<1>2. Queued' = Queued \ answered
  BY DEF Queued
<1>3. Underway' = Underway \ answered
  BY <1>0 DEF Underway
<1>4. EveryCallIsSomewhere'
  <2>1. {c \in Calls : Waiting(c)'} = {c \in Calls : Waiting(c)} \ answered
    BY <1>1
  <2>2. {c \in Calls : Waiting(c)'} = Queued' \cup Underway'
    BY <1>2, <1>3, <2>1 DEF CallsInv, EveryCallIsSomewhere
  <2>3. Queued' \cap Underway' = {}
    BY <1>2, <1>3 DEF CallsInv, EveryCallIsSomewhere
  <2>4. /\ sending' # NoCall => sending' # pending' /\ sending' \notin outstanding'
        /\ pending' \notin outstanding'
    BY <1>0 DEF CallsInv, EveryCallIsSomewhere
  <2> QED BY <2>2, <2>3, <2>4 DEF EveryCallIsSomewhere
<1>5. \A c \in Calls : calls'[c].kind = calls[c].kind
  BY DEF Settles
<1>6. /\ \A c \in Elements(commands') : calls'[c].kind # "Lookup"
      /\ \A c \in Elements(lookups') \cup outstanding' : calls'[c].kind = "Lookup"
  BY <1>0, <1>5 DEF CallsInv
<1>7. /\ pending' # NoCall => IsRequest(pending)'
      /\ sending' # NoCall => /\ calls'[sending'].kind # "Close"
                              /\ IsRequest(sending)' => pending' = NoCall
  BY <1>0, <1>5 DEF CallsInv, IsRequest
<1> QED BY <1>4, <1>6, <1>7 DEF CallsInv

\* What is taken from the head of a queue is nowhere else.
LEMMA TakenFromQueue ==
  ASSUME TypeOK, CallsInv
  PROVE  /\ commands # <<>> =>
              /\ Head(commands) \in Calls /\ Head(commands) \in Elements(commands)
              /\ Elements(Tail(commands)) = Elements(commands) \ {Head(commands)} /\ Distinct(Tail(commands))
              /\ Elements(lookups) = Elements(lookups) \ {Head(commands)}
              /\ Head(commands) \notin {sending, pending, NoCall} \cup outstanding
         /\ lookups # <<>> =>
              /\ Head(lookups) \in Calls /\ Head(lookups) \in Elements(lookups)
              /\ Elements(Tail(lookups)) = Elements(lookups) \ {Head(lookups)} /\ Distinct(Tail(lookups))
              /\ Elements(commands) = Elements(commands) \ {Head(lookups)}
              /\ Head(lookups) \notin {sending, pending, NoCall} \cup outstanding
<1>0. NoCall \notin Calls /\ commands \in Seq(Calls) /\ lookups \in Seq(Calls)
  BY ConstantsAssumption DEF TypeOK
<1>1. \A c \in Elements(commands), d \in Elements(lookups) : c # d
  BY DEF CallsInv
<1>2. \A c \in Elements(commands) \cup Elements(lookups) : c # NoCall => c \notin {sending, pending} \cup outstanding
  BY DEF CallsInv, EveryCallIsSomewhere, Queued, Underway
<1>3. ASSUME commands # <<>>
      PROVE  /\ Head(commands) \in Calls /\ Head(commands) \in Elements(commands)
             /\ Elements(Tail(commands)) = Elements(commands) \ {Head(commands)} /\ Distinct(Tail(commands))
  BY <1>0, <1>3, ElementsOfTail DEF CallsInv
<1>4. ASSUME lookups # <<>>
      PROVE  /\ Head(lookups) \in Calls /\ Head(lookups) \in Elements(lookups)
             /\ Elements(Tail(lookups)) = Elements(lookups) \ {Head(lookups)} /\ Distinct(Tail(lookups))
  BY <1>0, <1>4, ElementsOfTail DEF CallsInv
<1>5. commands # <<>> => /\ Elements(lookups) = Elements(lookups) \ {Head(commands)}
                         /\ Head(commands) \notin {sending, pending, NoCall} \cup outstanding
  BY <1>0, <1>1, <1>2, <1>3
<1>6. lookups # <<>> => /\ Elements(commands) = Elements(commands) \ {Head(lookups)}
                        /\ Head(lookups) \notin {sending, pending, NoCall} \cup outstanding
  BY <1>0, <1>1, <1>2, <1>4
<1> QED BY <1>3, <1>4, <1>5, <1>6

LEMMA CallsOfCallers ==
  ASSUME TypeOK, CallsInv, Caller
  PROVE  CallsInv'
<1> USE DEF callerVars, flightVars, stateVars, linkVars, serverVars, boundVars
<1>0. /\ calls \in [Calls -> Call] /\ commands \in Seq(Calls) /\ lookups \in Seq(Calls)
      /\ Elements(commands) \subseteq Calls /\ Elements(lookups) \subseteq Calls
      /\ sending \in Calls \cup {NoCall} /\ pending \in Calls \cup {NoCall} /\ outstanding \subseteq Calls
      /\ NoCall \notin Calls
  BY ElementsType, ConstantsAssumption DEF TypeOK
<1>1. ASSUME NEW c \in Calls, MakeCall(c) PROVE CallsInv'
  <2>1. PICK kind \in CallKinds, t \in Targets, held \in BOOLEAN :
          /\ calls' = [calls EXCEPT ![c] = [kind |-> kind, target |-> t, held |-> held,
                         reply |-> IF worker = "stopped" THEN "Disconnected" ELSE "waiting"]]
          /\ commands' = IF worker = "stopped" \/ kind = "Lookup" THEN commands ELSE Append(commands, c)
          /\ lookups' = IF worker = "stopped" \/ kind # "Lookup" THEN lookups ELSE Append(lookups, c)
    BY <1>1 DEF MakeCall
  <2>2. UNCHANGED <<worker, sending, pending, outstanding>> /\ ~Waiting(c)
    BY <1>1 DEF MakeCall, Waiting
  <2>3. c \notin Queued \cup Underway
    BY <2>2 DEF CallsInv, EveryCallIsSomewhere
  <2>4. \A d \in Calls : d # c => calls'[d] = calls[d]
    BY <1>0, <2>1
  <2>5. calls'[c].kind = kind /\ calls'[c].reply = IF worker = "stopped" THEN "Disconnected" ELSE "waiting"
    BY <1>0, <2>1
  <2>6. CASE worker = "stopped"
    <3>1. commands' = commands /\ lookups' = lookups /\ \A d \in Calls : Waiting(d)' <=> Waiting(d)
      BY <2>1, <2>2, <2>4, <2>5, <2>6 DEF Waiting
    <3>2. Queued' = Queued /\ Underway' = Underway
      BY <2>2, <3>1 DEF Queued, Underway
    <3>3. EveryCallIsSomewhere'
      BY <2>2, <3>1, <3>2 DEF CallsInv, EveryCallIsSomewhere
    <3> QED BY <1>0, <2>2, <2>3, <2>4, <3>1, <3>3 DEF CallsInv, Queued, Underway, IsRequest
  <2>7. CASE worker # "stopped"
    <3>1. \A d \in Calls : Waiting(d)' <=> Waiting(d) \/ d = c
      BY <2>4, <2>5, <2>7 DEF Waiting
    <3>2. /\ Elements(commands') = IF kind = "Lookup" THEN Elements(commands) ELSE Elements(commands) \cup {c}
          /\ Elements(lookups') = IF kind = "Lookup" THEN Elements(lookups) \cup {c} ELSE Elements(lookups)
          /\ Distinct(commands') /\ Distinct(lookups')
      <4>1. c \notin Elements(commands) /\ c \notin Elements(lookups)
        BY <2>3 DEF Queued
      <4>2. CASE kind = "Lookup"
        BY <1>0, <2>1, <2>7, <4>1, <4>2, ElementsOfAppend DEF CallsInv
      <4>3. CASE kind # "Lookup"
        BY <1>0, <2>1, <2>7, <4>1, <4>3, ElementsOfAppend DEF CallsInv
      <4> QED BY <4>2, <4>3
    <3>3. Queued' = Queued \cup {c} /\ Underway' = Underway
      BY <2>2, <3>2 DEF Queued, Underway
    <3>4. EveryCallIsSomewhere'
      <4>1. {d \in Calls : Waiting(d)'} = {d \in Calls : Waiting(d)} \cup {c}
        BY <3>1
      <4> QED BY <2>2, <2>3, <3>3, <4>1 DEF CallsInv, EveryCallIsSomewhere
    <3>5. /\ \A d \in Elements(commands') : calls'[d].kind # "Lookup"
          /\ \A d \in Elements(lookups') : calls'[d].kind = "Lookup"
      <4>1. /\ \A d \in Elements(commands) : d \in Calls /\ d # c /\ calls[d].kind # "Lookup"
            /\ \A d \in Elements(lookups) : d \in Calls /\ d # c /\ calls[d].kind = "Lookup"
        BY <1>0, <2>3 DEF CallsInv, Queued
      <4>2. CASE kind = "Lookup"
        BY <2>4, <2>5, <3>2, <4>1, <4>2
      <4>3. CASE kind # "Lookup"
        BY <2>4, <2>5, <3>2, <4>1, <4>3
      <4> QED BY <4>2, <4>3
    <3>6. c \notin outstanding /\ c # pending /\ c # sending
      BY <1>0, <2>3 DEF Underway
    <3> QED BY <1>0, <2>2, <2>4, <3>2, <3>4, <3>5, <3>6 DEF CallsInv, IsRequest
  <2> QED BY <2>6, <2>7
<1>2. CASE DropHandle
  <2>1. UNCHANGED <<worker, sending, pending, outstanding>>
    BY <1>2 DEF DropHandle
  <2>2. CASE worker = "stopped"
    <3> DEFINE dropped == Elements(commands) \cup Elements(lookups)
    <3>1. Reply(dropped, "Disconnected") /\ commands' = <<>> /\ lookups' = <<>>
      BY <1>2, <2>2 DEF DropHandle
    <3>2. Settles(dropped)
      BY <1>0, <3>1, ReplySettles DEF Replies
    <3>3. pending = NoCall /\ outstanding = {} /\ sending = NoCall
      BY <2>2 DEF CallsInv
    <3>4. /\ Elements(commands') = Elements(commands) \ dropped /\ Elements(lookups') = Elements(lookups) \ dropped
          /\ Distinct(commands') /\ Distinct(lookups') /\ NoCall \notin dropped
      BY <1>0, <3>1, ElementsOfEmpty
    <3> HIDE DEF dropped
    <3> QED BY <2>1, <2>2, <3>2, <3>3, <3>4, SettlingKeepsCalls
  <2>3. CASE worker # "stopped"
    <3>1. UNCHANGED <<calls, commands, lookups>>
      BY <1>2, <2>3 DEF DropHandle
    <3> QED BY <2>1, <3>1 DEF CallsInv, EveryCallIsSomewhere, Queued, Underway, Waiting, IsRequest
  <2> QED BY <2>2, <2>3
<1> QED BY <1>1, <1>2 DEF Caller

\* Steps that touch no call and leave no call in flight on a new connection.
LEMMA OthersKeepCalls ==
  ASSUME CallsInv, UNCHANGED <<calls, commands, lookups, sending, pending, outstanding>>,
         worker' = "sending" <=> worker = "sending",
         worker' \in {"greeting", "reconnecting", "stopped"} => worker \in {"greeting", "reconnecting", "stopped"}
  PROVE  CallsInv'
BY DEF CallsInv, EveryCallIsSomewhere, Queued, Underway, Waiting, IsRequest

LEMMA CallsOfConnection ==
  ASSUME TypeOK, CallsInv, Connection
  PROVE  CallsInv'
<1> USE DEF callerVars, flightVars, stateVars, linkVars, serverVars, boundVars, EndConnection
<1>0. /\ calls \in [Calls -> Call] /\ commands \in Seq(Calls) /\ lookups \in Seq(Calls)
      /\ Elements(commands) \subseteq Calls /\ Elements(lookups) \subseteq Calls
      /\ sending \in Calls \cup {NoCall} /\ pending \in Calls \cup {NoCall} /\ outstanding \subseteq Calls
      /\ NoCall \notin Calls
  BY ElementsType, ConstantsAssumption DEF TypeOK
<1>1. CASE Greet
  BY <1>1, OthersKeepCalls DEF Greet
<1>2. CASE TakeCommand
  <2> DEFINE c == Head(commands)
  <2>1. /\ worker = "serving" /\ pending = NoCall /\ commands # <<>> /\ commands' = Tail(commands)
        /\ UNCHANGED <<lookups, pending, outstanding>>
    BY <1>2 DEF TakeCommand, MayTakeRequest, Taken
  <2>2. /\ c \in Calls /\ c \in Elements(commands)
        /\ Elements(commands') = Elements(commands) \ {c} /\ Distinct(commands')
        /\ Elements(lookups) = Elements(lookups) \ {c}
        /\ c \notin {sending, pending, NoCall} \cup outstanding
    BY <2>1, TakenFromQueue
  <2>3. sending = NoCall /\ Distinct(lookups)
    BY <2>1 DEF CallsInv
  <2>4. \/ /\ Reply({c}, "ok") \/ Reply({c}, "Disconnected")
           /\ worker' \in {"closing", "serving"} /\ sending' = sending
        \/ /\ calls' = calls /\ IsRequest(c)
           /\ worker' = "sending" /\ sending' = c
    BY <1>2, <2>1 DEF TakeCommand
  <2> HIDE DEF c
  <2>5. CASE (Reply({c}, "ok") \/ Reply({c}, "Disconnected")) /\ worker' \in {"closing", "serving"} /\ sending' = sending
    <3>1. Settles({c})
      BY <1>0, <2>5, ReplySettles DEF Replies
    <3>2. /\ sending' = IF sending \in {c} THEN NoCall ELSE sending
          /\ pending' = IF pending \in {c} THEN NoCall ELSE pending
          /\ outstanding' = outstanding \ {c} /\ Elements(lookups') = Elements(lookups) \ {c} /\ Distinct(lookups')
      BY <2>1, <2>2, <2>3, <2>5
    <3> QED BY <2>2, <2>3, <2>5, <3>1, <3>2, SettlingKeepsCalls
  <2>6. CASE calls' = calls /\ IsRequest(c) /\ worker' = "sending" /\ sending' = c
    <3>1. Queued' = Queued \ {c} /\ Underway' = Underway \cup {c} /\ c \in Queued /\ c # NoCall
      BY <2>1, <2>2, <2>3, <2>6 DEF Queued, Underway
    <3>2. EveryCallIsSomewhere'
      <4>1. {d \in Calls : Waiting(d)'} = {d \in Calls : Waiting(d)}
        BY <2>6 DEF Waiting
      <4> QED BY <2>1, <2>2, <2>6, <3>1, <4>1 DEF CallsInv, EveryCallIsSomewhere
    <3> QED BY <2>1, <2>2, <2>6, <3>2 DEF CallsInv, IsRequest
  <2> QED BY <2>4, <2>5, <2>6
<1>3. CASE TakeLookup
  <2> DEFINE c == Head(lookups)
  <2>1. /\ worker = "serving" /\ lookups # <<>> /\ lookups' = Tail(lookups)
        /\ UNCHANGED <<commands, pending, outstanding>>
    BY <1>3 DEF TakeLookup
  <2>2. /\ c \in Calls /\ c \in Elements(lookups)
        /\ Elements(lookups') = Elements(lookups) \ {c} /\ Distinct(lookups')
        /\ Elements(commands) = Elements(commands) \ {c}
        /\ c \notin {sending, pending, NoCall} \cup outstanding
    BY <2>1, TakenFromQueue
  <2>3. sending = NoCall /\ Distinct(commands) /\ calls[c].kind = "Lookup"
    BY <2>1, <2>2 DEF CallsInv
  <2>4. \/ /\ Reply({c}, "Disconnected") /\ worker' = "serving" /\ sending' = sending
        \/ /\ calls' = calls /\ worker' = "sending" /\ sending' = c
    BY <1>3, <2>1 DEF TakeLookup
  <2> HIDE DEF c
  <2>5. CASE Reply({c}, "Disconnected") /\ worker' = "serving" /\ sending' = sending
    <3>1. Settles({c})
      BY <1>0, <2>5, ReplySettles DEF Replies
    <3>2. /\ sending' = IF sending \in {c} THEN NoCall ELSE sending
          /\ pending' = IF pending \in {c} THEN NoCall ELSE pending
          /\ outstanding' = outstanding \ {c} /\ Elements(commands') = Elements(commands) \ {c} /\ Distinct(commands')
      BY <2>1, <2>2, <2>3, <2>5
    <3> QED BY <2>2, <2>3, <2>5, <3>1, <3>2, SettlingKeepsCalls
  <2>6. CASE calls' = calls /\ worker' = "sending" /\ sending' = c
    <3>1. Queued' = Queued \ {c} /\ Underway' = Underway \cup {c} /\ c \in Queued /\ c # NoCall
      BY <2>1, <2>2, <2>3, <2>6 DEF Queued, Underway
    <3>2. EveryCallIsSomewhere'
      <4>1. {d \in Calls : Waiting(d)'} = {d \in Calls : Waiting(d)}
        BY <2>6 DEF Waiting
      <4> QED BY <2>1, <2>2, <2>6, <3>1, <4>1 DEF CallsInv, EveryCallIsSomewhere
    <3> QED BY <2>1, <2>2, <2>3, <2>6, <3>2 DEF CallsInv, IsRequest
  <2> QED BY <2>4, <2>5, <2>6
<1>4. CASE Sent
  <2>1. /\ worker = "sending" /\ worker' = "serving" /\ sending' = NoCall
        /\ UNCHANGED <<calls, commands, lookups>>
        /\ IF IsRequest(sending) THEN pending' = sending /\ outstanding' = outstanding
           ELSE outstanding' = outstanding \cup {sending} /\ pending' = pending
    BY <1>4 DEF Sent
  <2>2. /\ sending \in Calls /\ calls[sending].kind # "Close" /\ (IsRequest(sending) => pending = NoCall)
        /\ sending # pending /\ sending \notin outstanding
    BY <1>0, <2>1 DEF CallsInv, EveryCallIsSomewhere
  <2>3. Queued' = Queued /\ Underway' = Underway
    <3>1. CASE IsRequest(sending)
      BY <1>0, <2>1, <2>2, <3>1 DEF Queued, Underway
    <3>2. CASE ~IsRequest(sending)
      BY <1>0, <2>1, <2>2, <3>2 DEF Queued, Underway
    <3> QED BY <2>1, <3>1, <3>2 DEF Queued
  <2>4. /\ pending' # NoCall => IsRequest(pending)'
        /\ \A c \in outstanding' : calls'[c].kind = "Lookup"
        /\ pending' \notin outstanding'
    <3>1. CASE IsRequest(sending)
      BY <1>0, <2>1, <2>2, <3>1 DEF CallsInv, IsRequest
    <3>2. CASE ~IsRequest(sending)
      BY <1>0, <2>1, <2>2, <3>2 DEF CallsInv, EveryCallIsSomewhere, IsRequest
    <3> QED BY <2>1, <3>1, <3>2
  <2>5. EveryCallIsSomewhere'
    <3>1. {d \in Calls : Waiting(d)'} = {d \in Calls : Waiting(d)}
      BY <2>1 DEF Waiting
    <3> QED BY <2>1, <2>3, <2>4, <3>1 DEF CallsInv, EveryCallIsSomewhere
  <2> QED BY <2>1, <2>4, <2>5 DEF CallsInv
<1>5. CASE SendingFails
  <2>1. /\ worker = "sending" /\ worker' = "closing" /\ sending' = NoCall /\ Reply({sending}, "Disconnected")
        /\ UNCHANGED <<commands, lookups, pending, outstanding>>
    BY <1>5 DEF SendingFails
  <2>2. /\ sending \in Calls /\ sending # pending /\ sending \notin outstanding
        /\ Distinct(commands) /\ Distinct(lookups)
    BY <1>0, <2>1 DEF CallsInv, EveryCallIsSomewhere
  <2>3. Elements(commands') = Elements(commands) \ {sending} /\ Elements(lookups') = Elements(lookups) \ {sending}
    BY <1>0, <2>1, <2>2 DEF CallsInv, EveryCallIsSomewhere, Queued, Underway
  <2>4. Settles({sending})
    BY <1>0, <2>1, ReplySettles DEF Replies
  <2>5. pending' = (IF pending \in {sending} THEN NoCall ELSE pending) /\ outstanding' = outstanding \ {sending}
    BY <2>1, <2>2
  <2> QED BY <2>1, <2>2, <2>3, <2>4, <2>5, SettlingKeepsCalls
<1>6. CASE ReceiveEvent
  <2> DEFINE event == Head(toClient)
  <2>1. /\ worker = "serving" /\ worker' \in {"serving", "closing"} /\ event \in Event
        /\ UNCHANGED <<commands, lookups, sending>>
    BY <1>6 DEF ReceiveEvent, TypeOK
  <2>2. \/ /\ event.kind = "RequestResult" /\ pending' = NoCall /\ outstanding' = outstanding
           /\ IF pending = NoCall THEN calls' = calls ELSE Reply({pending}, event.result)
        \/ /\ event.kind = "Lookup" /\ Reply({event.call} \cap outstanding, event.result)
           /\ outstanding' = outstanding \ {event.call} /\ pending' = pending
        \/ UNCHANGED <<calls, pending, outstanding>>
    BY <1>6 DEF ReceiveEvent
  <2> HIDE DEF event
  <2>3. sending = NoCall /\ Distinct(commands) /\ Distinct(lookups) /\ pending \notin outstanding
    BY <2>1 DEF CallsInv, EveryCallIsSomewhere
  <2>4. Queued \cap Underway = {}
    BY DEF CallsInv, EveryCallIsSomewhere
  <2>5. CASE event.kind = "RequestResult" /\ pending # NoCall /\ Reply({pending}, event.result)
             /\ pending' = NoCall /\ outstanding' = outstanding
    <3>1. Settles({pending})
      BY <1>0, <2>1, <2>5, EventFields, ReplySettles DEF Replies
    <3>2. Elements(commands') = Elements(commands) \ {pending} /\ Elements(lookups') = Elements(lookups) \ {pending}
      BY <1>0, <2>1, <2>4, <2>5 DEF Queued, Underway
    <3> QED BY <2>1, <2>3, <2>5, <3>1, <3>2, SettlingKeepsCalls
  <2>6. CASE event.kind = "Lookup" /\ Reply({event.call} \cap outstanding, event.result)
             /\ outstanding' = outstanding \ {event.call} /\ pending' = pending
    <3> DEFINE answered == {event.call} \cap outstanding
    <3>1. Settles(answered)
      BY <1>0, <2>1, <2>6, EventFields, ReplySettles DEF Replies
    <3>2. /\ Elements(commands') = Elements(commands) \ answered /\ Elements(lookups') = Elements(lookups) \ answered
          /\ NoCall \notin answered /\ pending \notin answered /\ outstanding' = outstanding \ answered
      BY <1>0, <2>1, <2>3, <2>4, <2>6 DEF Queued, Underway
    <3> HIDE DEF answered
    <3> QED BY <2>1, <2>3, <2>6, <3>1, <3>2, SettlingKeepsCalls
  <2>7. CASE UNCHANGED <<calls, pending, outstanding>>
    BY <2>1, <2>7, OthersKeepCalls
  <2> QED BY <2>2, <2>5, <2>6, <2>7
<1>7. CASE RefuseEvent
  BY <1>7, OthersKeepCalls DEF RefuseEvent
<1>8. CASE ReceiveFails
  BY <1>8, OthersKeepCalls DEF ReceiveFails
<1>9. CASE HandleGone
  BY <1>9, OthersKeepCalls DEF HandleGone
<1> QED BY <1>1, <1>2, <1>3, <1>4, <1>5, <1>6, <1>7, <1>8, <1>9 DEF Connection

LEMMA CallsBetween ==
  ASSUME TypeOK, CallsInv, Between
  PROVE  CallsInv'
<1> USE DEF callerVars, flightVars, stateVars, linkVars, serverVars, boundVars
<1>0. /\ calls \in [Calls -> Call] /\ commands \in Seq(Calls) /\ lookups \in Seq(Calls)
      /\ Elements(commands) \subseteq Calls /\ Elements(lookups) \subseteq Calls
      /\ sending \in Calls \cup {NoCall} /\ pending \in Calls \cup {NoCall} /\ outstanding \subseteq Calls
      /\ NoCall \notin Calls
  BY ElementsType, ConstantsAssumption DEF TypeOK
<1>1. Distinct(commands) /\ Distinct(lookups) /\ Queued \cap Underway = {} /\ pending \notin outstanding
  BY DEF CallsInv, EveryCallIsSomewhere
<1>2. CASE Close
  <2> DEFINE settled == [c \in Calls |-> IF c \in InFlight THEN [calls[c] EXCEPT !.reply = Abandoned(c)] ELSE calls[c]]
  <2>1. /\ settled \in [Calls -> Call]
        /\ \A c \in Calls : /\ settled[c].kind = calls[c].kind /\ settled[c].target = calls[c].target
                            /\ c \in InFlight => settled[c].reply \in Replies
                            /\ c \notin InFlight => settled[c].reply = calls[c].reply
    <3>1. settled = [c \in Calls |-> IF c \in InFlight THEN [calls[c] EXCEPT !.reply = Abandoned(c)] ELSE calls[c]]
      OBVIOUS
    <3> HIDE DEF settled
    <3> QED BY <1>0, <3>1, AbandoningSettles DEF Replies
  <2>2. \/ /\ worker' = "reconnecting"
           /\ calls' = settled /\ UNCHANGED <<commands, lookups>>
        \/ StopsWith(settled)
    BY <1>2 DEF Close
  <2> HIDE DEF settled
  <2>3. worker = "closing" /\ pending' = NoCall /\ outstanding' = {} /\ sending' = sending /\ sending = NoCall
    BY <1>2 DEF Close, CallsInv
  <2>4. InFlight = Underway /\ NoCall \notin InFlight
    BY <1>0, <2>3 DEF InFlight, Underway
  <2>5. PICK answered : /\ answered \in {InFlight, InFlight \cup Elements(commands) \cup Elements(lookups)}
                        /\ Settles(answered)
                        /\ Elements(commands') = Elements(commands) \ answered
                        /\ Elements(lookups') = Elements(lookups) \ answered
                        /\ Distinct(commands') /\ Distinct(lookups')
                        /\ worker' # "sending"
    <3>1. CASE UNCHANGED <<commands, lookups>> /\ calls' = settled /\ worker' # "sending"
      <4>1. Settles(InFlight)
        BY <2>1, <3>1 DEF Settles
      <4> QED BY <1>1, <2>4, <3>1, <4>1 DEF Queued
    <3>2. CASE StopsWith(settled) /\ ~handle
      <4>1. /\ Settles(InFlight \cup Elements(commands) \cup Elements(lookups))
            /\ commands' = <<>> /\ lookups' = <<>> /\ worker' = "stopped"
        <5>1. StopsWith(settled)
          BY <3>2
        <5>2. worker' = "stopped"
          BY <5>1 DEF StopsWith
        <5> QED BY <1>0, <2>1, <3>2, <5>1, <5>2, StoppingSettles, ZenonT(60)
      <4> QED BY <4>1, ElementsOfEmpty
    <3>3. CASE StopsWith(settled) /\ handle
      <4>1. calls' = settled /\ UNCHANGED <<commands, lookups>> /\ worker' = "stopped"
        BY <3>3 DEF StopsWith
      <4> QED BY <3>1, <4>1
    <3> QED BY <2>2, <3>1, <3>2, <3>3
  <2>6. pending \notin Elements(commands) \cup Elements(lookups) /\ outstanding \cap (Elements(commands) \cup Elements(lookups)) = {}
    BY <1>0, <1>1 DEF Queued, Underway
  <2>7. /\ pending' = IF pending \in answered THEN NoCall ELSE pending
        /\ outstanding' = outstanding \ answered
        /\ sending' = IF sending \in answered THEN NoCall ELSE sending
    BY <1>0, <2>3, <2>5, <2>6 DEF InFlight
  <2> QED BY <2>3, <2>5, <2>7, SettlingKeepsCalls
<1>3. CASE Reconnect
  BY <1>3, OthersKeepCalls DEF Reconnect
<1>4. CASE RefuseCall
  <2>1. worker = "reconnecting" /\ UNCHANGED <<worker, sending, pending, outstanding>>
    BY <1>4 DEF RefuseCall
  <2>2. sending = NoCall /\ pending = NoCall /\ outstanding = {}
    BY <2>1 DEF CallsInv
  <2>3. CASE lookups # <<>> /\ Reply({Head(lookups)}, "Disconnected") /\ lookups' = Tail(lookups) /\ commands' = commands
    <3>1. Settles({Head(lookups)})
      BY <1>0, <2>3, ReplySettles DEF Replies
    <3>2. /\ Elements(lookups') = Elements(lookups) \ {Head(lookups)} /\ Distinct(lookups')
          /\ Elements(commands') = Elements(commands) \ {Head(lookups)}
      BY <2>3, TakenFromQueue
    <3> QED BY <1>1, <2>1, <2>2, <2>3, <3>1, <3>2, SettlingKeepsCalls
  <2>4. CASE commands # <<>> /\ Reply({Head(commands)}, "Disconnected") /\ commands' = Tail(commands) /\ lookups' = lookups
    <3>1. Settles({Head(commands)})
      BY <1>0, <2>4, ReplySettles DEF Replies
    <3>2. /\ Elements(commands') = Elements(commands) \ {Head(commands)} /\ Distinct(commands')
          /\ Elements(lookups') = Elements(lookups) \ {Head(commands)}
      BY <2>4, TakenFromQueue
    <3> QED BY <1>1, <2>1, <2>2, <2>4, <3>1, <3>2, SettlingKeepsCalls
  <2> QED BY <1>4, <2>3, <2>4 DEF RefuseCall
<1>5. CASE StopReconnecting
  <2>1. worker = "reconnecting" /\ worker' = "stopped" /\ UNCHANGED <<sending, pending, outstanding>>
    BY <1>5 DEF StopReconnecting, StopsWith
  <2>2. sending = NoCall /\ pending = NoCall /\ outstanding = {}
    BY <2>1 DEF CallsInv
  <2>3. CASE commands # <<>> /\ Reply({Head(commands)}, "ok") /\ commands' = Tail(commands) /\ lookups' = lookups
    <3>1. Settles({Head(commands)})
      BY <1>0, <2>3, ReplySettles DEF Replies
    <3>2. /\ Elements(commands') = Elements(commands) \ {Head(commands)} /\ Distinct(commands')
          /\ Elements(lookups') = Elements(lookups) \ {Head(commands)}
      BY <2>3, TakenFromQueue
    <3> QED BY <1>1, <2>1, <2>2, <2>3, <3>1, <3>2, SettlingKeepsCalls
  <2>4. CASE StopsWith(calls) /\ ~handle
    <3>1. PICK settled, none : settled = calls /\ none = {}
      OBVIOUS
    <3>2. /\ settled \in [Calls -> Call] /\ StopsWith(settled) /\ ~handle
          /\ \A c \in Calls : /\ settled[c].kind = calls[c].kind /\ settled[c].target = calls[c].target
                              /\ c \in none => settled[c].reply \in Replies
                              /\ c \notin none => settled[c].reply = calls[c].reply
      BY <1>0, <2>4, <3>1
    <3>3. /\ Settles(none \cup Elements(commands) \cup Elements(lookups))
          /\ commands' = <<>> /\ lookups' = <<>>
      BY <1>0, <3>2, StoppingSettles, ZenonT(60)
    <3> DEFINE answered == none \cup Elements(commands) \cup Elements(lookups)
    <3>4. /\ Elements(commands') = Elements(commands) \ answered /\ Elements(lookups') = Elements(lookups) \ answered
          /\ Distinct(commands') /\ Distinct(lookups') /\ NoCall \notin answered
      BY <1>0, <3>1, <3>3, ElementsOfEmpty
    <3> HIDE DEF answered
    <3> QED BY <2>1, <2>2, <3>3, <3>4, SettlingKeepsCalls DEF answered
  <2> QED BY <1>5, <2>3, <2>4 DEF StopReconnecting
<1> QED BY <1>2, <1>3, <1>4, <1>5 DEF Between

LEMMA CallsOfServer ==
  ASSUME CallsInv, Server
  PROVE  CallsInv'
<1>1. UNCHANGED <<calls, commands, lookups, sending, pending, outstanding, worker>>
  <2> USE DEF callerVars, flightVars, stateVars, linkVars, serverVars, boundVars
  <2>1. ASSUME NEW c \in Calls, SessionRuns(c) \/ RunsLate(c)
        PROVE  UNCHANGED <<calls, commands, lookups, sending, pending, outstanding, worker>>
    BY <2>1 DEF SessionRuns, RunsLate
  <2> QED BY <2>1 DEF Server, SessionReceives, SessionPublishes, SessionSpeaks, SessionTimesOut, SessionDies
<1> QED BY <1>1, OthersKeepCalls

LEMMA CallsAreKept ==
  ASSUME TypeOK, CallsInv, [Next]_vars
  PROVE  CallsInv'
<1>1. CASE Quiet \/ UNCHANGED vars
  <2>1. UNCHANGED <<calls, commands, lookups, sending, pending, outstanding, worker>>
    BY <1>1, NothingChanges DEF allVars
  <2> QED BY <2>1, OthersKeepCalls
<1> QED BY <1>1, CallsOfCallers, CallsOfConnection, CallsBetween, CallsOfServer DEF Next

-----------------------------------------------------------------------------
(* Which commands the server may still run.                                 *)

CommandsOf(messages) == {messages[i].call : i \in 1..Len(messages)} \ {NoCall}
InTransit == CommandsOf(toServer)
AtServer == InTransit \cup session.work \cup late
Unsent == {c \in Calls : calls[c].reply = "unused"} \cup Queued \cup ({sending} \ {NoCall})

\* No command is in two messages.
OneEach(messages) ==
  \A i, j \in 1..Len(messages) : messages[i].call = messages[j].call /\ messages[i].call # NoCall => i = j

\* A command is in one place of the server, or on its way to it, or was never sent; there it has not run.
RunInv ==
  /\ OneEach(toServer)
  /\ InTransit \cap session.work = {} /\ InTransit \cap late = {} /\ session.work \cap late = {}
  /\ \A c \in AtServer \cup Unsent : outcomes[c] = <<>>
  /\ AtServer \cap Unsent = {}
  /\ CommandsRunOnce

LEMMA CommandsOfAppend ==
  ASSUME NEW messages \in Seq(Message), NEW message \in Message
  PROVE  /\ CommandsOf(Append(messages, message)) = CommandsOf(messages) \cup ({message.call} \ {NoCall})
         /\ OneEach(messages) /\ message.call \notin CommandsOf(messages) => OneEach(Append(messages, message))
<1> DEFINE longer == Append(messages, message)
<1>1. /\ Len(messages) \in Nat /\ Len(longer) = Len(messages) + 1
      /\ \A i \in 1..Len(messages) : longer[i] = messages[i]
      /\ longer[Len(messages) + 1] = message
  OBVIOUS
<1> HIDE DEF longer
<1>2. CommandsOf(longer) = CommandsOf(messages) \cup ({message.call} \ {NoCall})
  BY <1>1 DEF CommandsOf
<1>3. ASSUME OneEach(messages), message.call \notin CommandsOf(messages) PROVE OneEach(longer)
  <2> SUFFICES ASSUME NEW i \in 1..Len(longer), NEW j \in 1..Len(longer),
                      longer[i].call = longer[j].call, longer[i].call # NoCall, i < j
               PROVE  FALSE
    BY <1>1 DEF OneEach
  <2>1. i \in 1..Len(messages) /\ longer[i].call = messages[i].call /\ messages[i].call \in CommandsOf(messages)
    BY <1>1 DEF CommandsOf
  <2>2. CASE j \in 1..Len(messages)
    <3>1. messages[i].call = messages[j].call /\ messages[i].call # NoCall
      BY <1>1, <2>1, <2>2
    <3>2. i = j
      BY <1>3, <2>1, <2>2, <3>1 DEF OneEach
    <3> QED BY <1>1, <3>2
  <2>3. CASE j = Len(messages) + 1
    BY <1>1, <1>3, <2>1, <2>3
  <2> QED BY <1>1, <2>2, <2>3
<1> QED BY <1>2, <1>3 DEF longer

LEMMA CommandsOfTail ==
  ASSUME NEW messages \in Seq(Message), messages # <<>>, OneEach(messages)
  PROVE  /\ CommandsOf(Tail(messages)) = CommandsOf(messages) \ {Head(messages).call}
         /\ Head(messages).call # NoCall => Head(messages).call \in CommandsOf(messages)
         /\ OneEach(Tail(messages))
<1> DEFINE shorter == Tail(messages)
<1>1. /\ Len(messages) \in Nat /\ Len(messages) >= 1 /\ Len(shorter) = Len(messages) - 1
      /\ Head(messages) = messages[1]
  OBVIOUS
<1>2. \A i \in 1..Len(shorter) : shorter[i] = messages[i + 1]
  OBVIOUS
<1> HIDE DEF shorter
<1>3. ASSUME NEW c \in CommandsOf(shorter) PROVE c \in CommandsOf(messages) \ {messages[1].call}
  <2>1. PICK i \in 1..Len(shorter) : c = shorter[i].call /\ c # NoCall
    BY DEF CommandsOf
  <2>2. i + 1 \in 1..Len(messages) /\ 1 \in 1..Len(messages) /\ c = messages[i + 1].call /\ i + 1 # 1
    BY <1>1, <1>2, <2>1
  <2>3. c \in CommandsOf(messages)
    BY <2>1, <2>2 DEF CommandsOf
  <2>4. c # messages[1].call
    BY <2>1, <2>2 DEF OneEach
  <2> QED BY <2>3, <2>4
<1>4. ASSUME NEW c \in CommandsOf(messages), c # messages[1].call PROVE c \in CommandsOf(shorter)
  <2>1. PICK i \in 1..Len(messages) : c = messages[i].call /\ c # NoCall
    BY DEF CommandsOf
  <2>2. i - 1 \in 1..Len(shorter) /\ shorter[i - 1] = messages[i]
    BY <1>1, <1>2, <1>4, <2>1
  <2> QED BY <2>1, <2>2 DEF CommandsOf
<1>5. OneEach(shorter)
  <2> SUFFICES ASSUME NEW i \in 1..Len(shorter), NEW j \in 1..Len(shorter),
                      shorter[i].call = shorter[j].call, shorter[i].call # NoCall
               PROVE  i = j
    BY DEF OneEach
  <2>1. i + 1 \in 1..Len(messages) /\ j + 1 \in 1..Len(messages)
    BY <1>1
  <2>2. i + 1 = j + 1
    BY <1>2, <2>1 DEF OneEach
  <2> QED BY <1>1, <2>2
<1>6. messages[1].call # NoCall => messages[1].call \in CommandsOf(messages)
  BY <1>1 DEF CommandsOf
<1> QED BY <1>1, <1>3, <1>4, <1>5, <1>6 DEF shorter

LEMMA RunsInitially == Init => RunInv
<1> SUFFICES ASSUME Init PROVE RunInv
  OBVIOUS
<1>1. /\ toServer = <<>> /\ session.work = {} /\ late = {} /\ \A c \in Calls : outcomes[c] = <<>>
      /\ commands = <<>> /\ lookups = <<>> /\ sending = NoCall
  BY DEF Init, NewSession
<1>2. AtServer = {} /\ OneEach(toServer) /\ InTransit = {}
  BY <1>1 DEF AtServer, InTransit, CommandsOf, OneEach
<1>3. Unsent \subseteq Calls
  BY <1>1, ElementsOfEmpty DEF Unsent, Queued
<1> QED BY <1>1, <1>2, <1>3 DEF RunInv, CommandsRunOnce

\* The client settles calls, takes them from its queues and starts to send one that was queued.
LEMMA ClientSteps ==
  ASSUME TypeOK, CallsInv, DropHandle \/ Connection \/ Between
  PROVE  /\ \E answered : Settles(answered)
         /\ Queued' \subseteq Queued
         /\ sending' = sending \/ sending' = NoCall \/ sending' \in Queued
<1> USE DEF callerVars, flightVars, stateVars, linkVars, serverVars, boundVars, EndConnection
<1>0. /\ calls \in [Calls -> Call] /\ commands \in Seq(Calls) /\ lookups \in Seq(Calls)
  BY DEF TypeOK
<1>1. ASSUME DropHandle
      PROVE  /\ calls' = calls \/ Reply(Elements(commands) \cup Elements(lookups), "Disconnected")
             /\ commands' = commands \/ commands' = <<>>
             /\ lookups' = lookups \/ lookups' = <<>>
             /\ sending' = sending
  BY <1>1 DEF DropHandle
<1>2. ASSUME NEW answered, NEW reply \in Replies, calls' = calls \/ Reply(answered, reply)
      PROVE  \E some : Settles(some)
  BY <1>0, <1>2, ReplySettles, NothingSettles
<1>3. ASSUME commands' \in {commands, <<>>} \/ (commands # <<>> /\ commands' = Tail(commands)),
             lookups' \in {lookups, <<>>} \/ (lookups # <<>> /\ lookups' = Tail(lookups))
      PROVE  Queued' \subseteq Queued
  <2>1. Elements(commands') \subseteq Elements(commands)
    BY <1>3, TakenFromQueue, ElementsOfEmpty
  <2>2. Elements(lookups') \subseteq Elements(lookups)
    BY <1>3, TakenFromQueue, ElementsOfEmpty
  <2> QED BY <2>1, <2>2 DEF Queued
<1>4. ASSUME NEW settled \in [Calls -> Call], StopsWith(settled), NEW answered,
             \A c \in Calls : /\ settled[c].kind = calls[c].kind /\ settled[c].target = calls[c].target
                              /\ c \in answered => settled[c].reply \in Replies
                              /\ c \notin answered => settled[c].reply = calls[c].reply
      PROVE  (\E some : Settles(some)) /\ Queued' \subseteq Queued
  <2>1. \E some : Settles(some)
    BY <1>0, <1>4, StoppingSettles
  <2>2. Queued' \subseteq Queued
    BY <1>3, <1>4 DEF StopsWith
  <2> QED BY <2>1, <2>2
<1>5. CASE DropHandle
  <2>1. \E some : Settles(some)
    BY <1>1, <1>2, <1>5 DEF Replies
  <2> QED BY <1>1, <1>3, <1>5, <2>1
<1>6. CASE TakeCommand
  <2>1. /\ commands # <<>> /\ commands' = Tail(commands) /\ lookups' = lookups
        /\ \/ calls' = calls \/ Reply({Head(commands)}, "ok") \/ Reply({Head(commands)}, "Disconnected")
        /\ sending' \in {sending, Head(commands)}
    BY <1>6 DEF TakeCommand, Taken
  <2>2. \E some : Settles(some)
    BY <1>2, <2>1 DEF Replies
  <2>3. Head(commands) \in Queued
    BY <2>1, TakenFromQueue DEF Queued
  <2> QED BY <1>3, <2>1, <2>2, <2>3
<1>7. CASE TakeLookup
  <2>1. /\ lookups # <<>> /\ lookups' = Tail(lookups) /\ commands' = commands
        /\ \/ calls' = calls \/ Reply({Head(lookups)}, "Disconnected")
        /\ sending' \in {sending, Head(lookups)}
    BY <1>7 DEF TakeLookup
  <2>2. \E some : Settles(some)
    BY <1>2, <2>1 DEF Replies
  <2>3. Head(lookups) \in Queued
    BY <2>1, TakenFromQueue DEF Queued
  <2> QED BY <1>3, <2>1, <2>2, <2>3
<1>8. CASE ReceiveEvent
  <2> DEFINE event == Head(toClient)
  <2>1. /\ event \in Event /\ UNCHANGED <<commands, lookups, sending>>
        /\ \/ calls' = calls
           \/ event.kind = "RequestResult" /\ Reply({pending}, event.result)
           \/ event.kind = "Lookup" /\ Reply({event.call} \cap outstanding, event.result)
    BY <1>8 DEF ReceiveEvent, TypeOK
  <2> HIDE DEF event
  <2>2. \E some : Settles(some)
    BY <1>2, <2>1, EventFields DEF Replies
  <2> QED BY <1>3, <2>1, <2>2
<1>9. CASE SendingFails
  <2>1. Reply({sending}, "Disconnected") /\ UNCHANGED <<commands, lookups>> /\ sending' = NoCall
    BY <1>9 DEF SendingFails
  <2>2. \E some : Settles(some)
    BY <1>2, <2>1 DEF Replies
  <2> QED BY <1>3, <2>1, <2>2
<1>10. CASE Sent \/ Greet \/ RefuseEvent \/ ReceiveFails \/ HandleGone \/ Reconnect
  <2>1. UNCHANGED <<calls, commands, lookups>> /\ sending' \in {sending, NoCall}
    BY <1>10 DEF Sent, Greet, RefuseEvent, ReceiveFails, HandleGone, Reconnect
  <2>2. \E some : Settles(some)
    BY <1>0, <2>1, NothingSettles
  <2> QED BY <1>3, <2>1, <2>2
<1>11. CASE Close
  <2> DEFINE settled == [c \in Calls |-> IF c \in InFlight THEN [calls[c] EXCEPT !.reply = Abandoned(c)] ELSE calls[c]]
  <2>1. /\ settled \in [Calls -> Call]
        /\ \A c \in Calls : /\ settled[c].kind = calls[c].kind /\ settled[c].target = calls[c].target
                            /\ c \in InFlight => settled[c].reply \in Replies
                            /\ c \notin InFlight => settled[c].reply = calls[c].reply
    <3>1. settled = [c \in Calls |-> IF c \in InFlight THEN [calls[c] EXCEPT !.reply = Abandoned(c)] ELSE calls[c]]
      OBVIOUS
    <3> HIDE DEF settled
    <3> QED BY <1>0, <3>1, AbandoningSettles DEF Replies
  <2>2. \/ calls' = settled /\ UNCHANGED <<commands, lookups>>
        \/ StopsWith(settled)
    BY <1>11 DEF Close
  <2>3. sending' = sending
    BY <1>11 DEF Close
  <2> HIDE DEF settled
  <2>4. CASE calls' = settled /\ UNCHANGED <<commands, lookups>>
    <3>1. Settles(InFlight)
      BY <2>1, <2>4 DEF Settles
    <3> QED BY <1>3, <2>3, <2>4, <3>1
  <2> QED BY <1>4, <2>1, <2>2, <2>3, <2>4
<1>12. CASE RefuseCall
  <2>1. /\ \/ Reply({Head(lookups)}, "Disconnected") \/ Reply({Head(commands)}, "Disconnected")
        /\ \/ lookups # <<>> /\ lookups' = Tail(lookups) /\ commands' = commands
           \/ commands # <<>> /\ commands' = Tail(commands) /\ lookups' = lookups
        /\ sending' = sending
    BY <1>12 DEF RefuseCall
  <2>2. \E some : Settles(some)
    BY <1>2, <2>1 DEF Replies
  <2> QED BY <1>3, <2>1, <2>2
<1>13. CASE StopReconnecting
  <2>1. /\ sending' = sending
        /\ \/ Reply({Head(commands)}, "ok") /\ commands # <<>> /\ commands' = Tail(commands) /\ lookups' = lookups
           \/ StopsWith(calls)
    BY <1>13 DEF StopReconnecting
  <2>2. CASE StopsWith(calls)
    <3>1. PICK settled, none : settled = calls /\ none = {}
      OBVIOUS
    <3>2. /\ settled \in [Calls -> Call] /\ StopsWith(settled)
          /\ \A c \in Calls : /\ settled[c].kind = calls[c].kind /\ settled[c].target = calls[c].target
                              /\ c \in none => settled[c].reply \in Replies
                              /\ c \notin none => settled[c].reply = calls[c].reply
      BY <1>0, <2>2, <3>1
    <3> QED BY <1>4, <2>1, <3>2
  <2>3. CASE Reply({Head(commands)}, "ok") /\ commands # <<>> /\ commands' = Tail(commands) /\ lookups' = lookups
    <3>1. \E some : Settles(some)
      BY <1>2, <2>3 DEF Replies
    <3> QED BY <1>3, <2>1, <2>3, <3>1
  <2> QED BY <2>1, <2>2, <2>3
<1> QED BY <1>5, <1>6, <1>7, <1>8, <1>9, <1>10, <1>11, <1>12, <1>13 DEF Connection, Between

\* No step of the client but the two that send makes a call sent, and none makes one unsent again.
LEMMA ClientKeepsUnsent ==
  ASSUME TypeOK, CallsInv, Caller \/ Connection \/ Between
  PROVE  Unsent' \subseteq Unsent
<1>0. calls \in [Calls -> Call] /\ commands \in Seq(Calls) /\ lookups \in Seq(Calls)
  BY DEF TypeOK
<1>1. ASSUME NEW c \in Calls, MakeCall(c) PROVE Unsent' \subseteq Unsent
  <2>1. /\ calls[c].reply = "unused" /\ sending' = sending
        /\ \A d \in Calls : d # c => calls'[d] = calls[d]
        /\ commands' = commands \/ commands' = Append(commands, c)
        /\ lookups' = lookups \/ lookups' = Append(lookups, c)
    BY <1>0, <1>1 DEF MakeCall, flightVars
  <2>2. Elements(commands') \subseteq Elements(commands) \cup {c} /\ Elements(lookups') \subseteq Elements(lookups) \cup {c}
    <3>1. /\ Elements(Append(commands, c)) = Elements(commands) \cup {c}
          /\ Elements(Append(lookups, c)) = Elements(lookups) \cup {c}
      BY <1>0, ElementsOfAppend
    <3> QED BY <2>1, <3>1
  <2>3. c \in Unsent
    BY <2>1 DEF Unsent
  <2> QED BY <2>1, <2>2, <2>3 DEF Unsent, Queued
<1>2. ASSUME DropHandle \/ Connection \/ Between PROVE Unsent' \subseteq Unsent
  <2>1. PICK answered : Settles(answered)
    BY <1>2, ClientSteps
  <2>2. Queued' \subseteq Queued /\ (sending' = sending \/ sending' = NoCall \/ sending' \in Queued)
    BY <1>2, ClientSteps
  <2>3. \A c \in Calls : calls'[c].reply = "unused" => calls[c].reply = "unused"
    BY <2>1 DEF Settles, Replies
  <2> QED BY <2>2, <2>3 DEF Unsent
<1> QED BY <1>1, <1>2 DEF Caller

\* Whatever moves no command and sends none keeps RunInv.
LEMMA OthersKeepRuns ==
  ASSUME RunInv, OneEach(toServer'), InTransit' = InTransit, session'.work = session.work,
         UNCHANGED <<late, outcomes>>, Unsent' \subseteq Unsent
  PROVE  RunInv'
<1>1. AtServer' = AtServer
  BY DEF AtServer
<1> QED BY <1>1 DEF RunInv, CommandsRunOnce

\* The command that was being sent is on its way.
LEMMA SendingKeepsRuns ==
  ASSUME TypeOK, CallsInv, RunInv, worker = "sending", sending' = NoCall, Unsent' \subseteq Unsent,
         toServer' = Append(toServer, Command(sending)), UNCHANGED <<session, late, outcomes, commands, lookups>>,
         calls'[sending].reply # "unused"
  PROVE  RunInv'
<1>1. /\ sending \in Calls /\ sending # NoCall /\ sending \in Unsent
      /\ toServer \in Seq(Message) /\ calls \in [Calls -> Call]
  BY DEF TypeOK, CallsInv, Unsent
<1>2. Command(sending) \in Message /\ Command(sending).call = sending
  BY <1>1, MessageTypes DEF Command
<1>3. sending \notin AtServer /\ outcomes[sending] = <<>>
  BY <1>1 DEF RunInv
<1>4. InTransit' = InTransit \cup {sending} /\ OneEach(toServer')
  BY <1>1, <1>2, <1>3, CommandsOfAppend DEF InTransit, AtServer, RunInv
<1>5. AtServer' = AtServer \cup {sending}
  BY <1>4 DEF AtServer
<1>6. sending \notin Queued
  BY <1>1 DEF CallsInv, EveryCallIsSomewhere, Underway
<1>7. sending \notin Unsent'
  BY <1>6 DEF Unsent, Queued
<1>8. /\ InTransit' \cap session'.work = {} /\ InTransit' \cap late' = {} /\ session'.work \cap late' = {}
  BY <1>3, <1>4 DEF RunInv, AtServer
<1>9. \A c \in AtServer' \cup Unsent' : outcomes'[c] = <<>>
  BY <1>3, <1>5 DEF RunInv
<1>10. AtServer' \cap Unsent' = {} /\ CommandsRunOnce'
  BY <1>5, <1>7 DEF RunInv, CommandsRunOnce
<1> QED BY <1>4, <1>8, <1>9, <1>10 DEF RunInv

LEMMA RunsOfClient ==
  ASSUME TypeOK, CallsInv, RunInv, Caller \/ Connection \/ Between
  PROVE  RunInv'
<1> USE DEF callerVars, flightVars, stateVars, linkVars, serverVars, boundVars
<1>0. /\ Unsent' \subseteq Unsent /\ toServer \in Seq(Message) /\ calls \in [Calls -> Call] /\ resume \in Targets
  BY ClientKeepsUnsent DEF TypeOK
<1>1. CASE Greet
  <2>1. UNCHANGED <<session, late, outcomes>>
    BY <1>1 DEF Greet
  <2>2. toServer' = toServer \/ toServer' = Append(toServer, Hello(resume))
    BY <1>1 DEF Greet, SendTo, SendFails
  <2>3. Hello(resume) \in Message /\ Hello(resume).call = NoCall /\ NoCall \notin InTransit
    BY <1>0, MessageTypes DEF Hello, InTransit, CommandsOf
  <2>4. InTransit' = InTransit /\ OneEach(toServer')
    <3>1. /\ CommandsOf(Append(toServer, Hello(resume))) = CommandsOf(toServer) \cup ({NoCall} \ {NoCall})
          /\ OneEach(toServer) /\ NoCall \notin CommandsOf(toServer) => OneEach(Append(toServer, Hello(resume)))
      BY <1>0, <2>3, CommandsOfAppend
    <3> QED BY <2>2, <2>3, <3>1 DEF InTransit, RunInv
  <2> QED BY <1>0, <2>1, <2>4, OthersKeepRuns
<1>2. CASE Sent \/ SendingFails
  <2>1. /\ worker = "sending" /\ sending' = NoCall /\ UNCHANGED <<session, late, outcomes, commands, lookups>>
        /\ calls' = calls \/ Reply({sending}, "Disconnected")
        /\ toServer' = toServer \/ toServer' = Append(toServer, Command(sending))
    BY <1>2 DEF Sent, SendingFails, SendTo, SendFails
  <2>2. CASE toServer' = toServer
    BY <1>0, <2>1, <2>2, OthersKeepRuns DEF InTransit, RunInv
  <2>3. CASE toServer' = Append(toServer, Command(sending))
    <3>1. sending \in Calls /\ Waiting(sending)
      BY <2>1 DEF TypeOK, CallsInv, EveryCallIsSomewhere, Underway
    <3>2. calls'[sending].reply # "unused"
      BY <1>0, <2>1, <3>1, ReplySettles DEF Waiting, Replies, Settles
    <3> QED BY <1>0, <2>1, <2>3, <3>2, SendingKeepsRuns
  <2> QED BY <2>1, <2>2, <2>3
<1>3. CASE Reconnect
  <2>1. /\ late' = late \cup session.work \cup InTransit
        /\ session'.work = {} /\ toServer' = <<>> /\ outcomes' = outcomes
    BY <1>3 DEF Reconnect, NewSession, InTransit, CommandsOf
  <2>2. InTransit' = {} /\ OneEach(toServer')
    BY <2>1 DEF InTransit, CommandsOf, OneEach
  <2>3. AtServer' = AtServer
    BY <2>1, <2>2 DEF AtServer
  <2> QED BY <1>0, <2>1, <2>2, <2>3 DEF RunInv, CommandsRunOnce
<1>4. CASE ~Greet /\ ~Sent /\ ~SendingFails /\ ~Reconnect
  <2>1. UNCHANGED <<toServer, session, late, outcomes>>
    <3>1. ASSUME NEW c \in Calls, MakeCall(c) PROVE UNCHANGED <<toServer, session, late, outcomes>>
      BY <3>1 DEF MakeCall
    <3>2. CASE Caller
      BY <3>1, <3>2 DEF Caller, DropHandle
    <3>3. CASE Connection
      BY <1>4, <3>3 DEF Connection, TakeCommand, TakeLookup, ReceiveEvent, RefuseEvent, ReceiveFails, HandleGone
    <3>4. CASE Between
      BY <1>4, <3>4 DEF Between, Close, RefuseCall, StopReconnecting
    <3> QED BY <3>2, <3>3, <3>4
  <2> QED BY <1>0, <2>1, OthersKeepRuns DEF InTransit, RunInv
<1> QED BY <1>1, <1>2, <1>3, <1>4

LEMMA RunsOfServer ==
  ASSUME TypeOK, RunInv, Server
  PROVE  RunInv'
<1> USE DEF callerVars, flightVars, stateVars, linkVars, serverVars, boundVars
<1>0. /\ toServer \in Seq(Message) /\ session \in Session /\ outcomes \in [Calls -> Seq({"ok", "rejected"})]
      /\ session.work \in SUBSET Calls /\ late \in SUBSET Calls
  BY SessionFields DEF TypeOK
<1>1. Unsent' = Unsent
  <2>1. ASSUME NEW c \in Calls, SessionRuns(c) \/ RunsLate(c) PROVE UNCHANGED <<calls, commands, lookups, sending>>
    BY <2>1 DEF SessionRuns, RunsLate
  <2>2. UNCHANGED <<calls, commands, lookups, sending>>
    BY <2>1 DEF Server, SessionReceives, SessionPublishes, SessionSpeaks, SessionTimesOut, SessionDies
  <2> QED BY <2>2 DEF Unsent, Queued
<1>2. CASE SessionReceives
  <2> DEFINE c == Head(toServer).call
  <2>1. toServer # <<>> /\ toServer' = Tail(toServer) /\ UNCHANGED <<late, outcomes>>
    BY <1>2 DEF SessionReceives
  <2>2. /\ InTransit' = InTransit \ {c} /\ (c # NoCall => c \in InTransit) /\ NoCall \notin InTransit
        /\ OneEach(toServer')
    BY <1>0, <2>1, CommandsOfTail DEF InTransit, RunInv, CommandsOf
  <2>3. session'.work = IF c = NoCall THEN session.work ELSE session.work \cup {c}
    BY <1>0, <1>2 DEF SessionReceives, Session
  <2> HIDE DEF c
  <2>4. CASE c = NoCall
    BY <1>1, <2>1, <2>2, <2>3, <2>4, OthersKeepRuns
  <2>5. CASE c # NoCall
    <3>1. AtServer' = AtServer
      BY <2>1, <2>2, <2>3, <2>5 DEF AtServer
    <3>2. InTransit' \cap session'.work = {} /\ InTransit' \cap late' = {} /\ session'.work \cap late' = {}
      BY <2>1, <2>2, <2>3, <2>5 DEF RunInv
    <3> QED BY <1>1, <2>1, <2>2, <3>1, <3>2 DEF RunInv, CommandsRunOnce
  <2> QED BY <2>4, <2>5
<1>3. ASSUME NEW c \in Calls, NEW outcome \in {"ok", "rejected"},
             outcomes' = [outcomes EXCEPT ![c] = Append(@, outcome)],
             toServer' = toServer, c \in AtServer, AtServer' = AtServer \ {c},
             session'.work = session.work \/ session'.work = session.work \ {c}, late' = late \/ late' = late \ {c}
      PROVE  RunInv'
  <2>1. outcomes[c] = <<>> /\ c \notin Unsent
    BY <1>3 DEF RunInv
  <2>2. outcomes'[c] = <<outcome>> /\ \A d \in Calls : d # c => outcomes'[d] = outcomes[d]
    BY <1>0, <1>3, <2>1
  <2>3. AtServer \subseteq Calls /\ Unsent \subseteq Calls
    <3>1. \A i \in 1..Len(toServer) : toServer[i] \in Message
      BY <1>0
    <3>2. InTransit \subseteq Calls
      BY <3>1 DEF InTransit, CommandsOf, Message
    <3>3. Queued \subseteq Calls /\ sending \in Calls \cup {NoCall}
      BY ElementsType DEF Queued, TypeOK
    <3> QED BY <1>0, <3>2, <3>3 DEF AtServer, Unsent
  <2>4. \A d \in AtServer' \cup Unsent' : outcomes'[d] = <<>>
    BY <1>1, <1>3, <2>1, <2>2, <2>3 DEF RunInv
  <2>5. CommandsRunOnce'
    <3>1. Len(outcomes'[c]) = 1
      BY <2>2
    <3>2. Len(outcomes'[c]) <= 1
      BY <3>1
    <3>3. ASSUME NEW d \in Calls, d # c PROVE Len(outcomes'[d]) <= 1
      BY <2>2, <3>3 DEF RunInv, CommandsRunOnce
    <3> QED BY <3>2, <3>3 DEF CommandsRunOnce
  <2>6. InTransit' = InTransit /\ OneEach(toServer')
    BY <1>3 DEF InTransit, RunInv
  <2>7. /\ InTransit' \cap session'.work = {} /\ InTransit' \cap late' = {} /\ session'.work \cap late' = {}
        /\ AtServer' \cap Unsent' = {}
    BY <1>1, <1>3, <2>6 DEF RunInv
  <2> QED BY <2>4, <2>5, <2>6, <2>7 DEF RunInv
<1>4. ASSUME NEW c \in Calls, SessionRuns(c) PROVE RunInv'
  <2>1. PICK outcome \in {"ok", "rejected"} : outcomes' = [outcomes EXCEPT ![c] = Append(@, outcome)]
    BY <1>4 DEF SessionRuns
  <2>2. /\ toServer' = toServer /\ late' = late /\ c \in session.work /\ session'.work = session.work \ {c}
    BY <1>0, <1>4 DEF SessionRuns, Session
  <2>3. c \in AtServer /\ AtServer' = AtServer \ {c}
    BY <2>2 DEF AtServer, InTransit, RunInv
  <2> QED BY <1>3, <2>1, <2>2, <2>3
<1>5. ASSUME NEW c \in Calls, RunsLate(c) PROVE RunInv'
  <2>1. PICK outcome \in {"ok", "rejected"} : outcomes' = [outcomes EXCEPT ![c] = Append(@, outcome)]
    BY <1>5 DEF RunsLate
  <2>2. /\ toServer' = toServer /\ session' = session /\ c \in late /\ late' = late \ {c}
    BY <1>5 DEF RunsLate
  <2>3. c \in AtServer /\ AtServer' = AtServer \ {c}
    BY <2>2 DEF AtServer, InTransit, RunInv
  <2> QED BY <1>3, <2>1, <2>2, <2>3
<1>6. CASE SessionPublishes \/ SessionSpeaks \/ SessionTimesOut \/ SessionDies
  <2>1. UNCHANGED <<toServer, late, outcomes>>
    BY <1>6 DEF SessionPublishes, SessionSpeaks, SessionTimesOut, SessionDies
  <2>2. session'.work = session.work
    <3>1. ASSUME NEW due, session' = [session EXCEPT !.due = due] PROVE session'.work = session.work
      BY <1>0, <3>1 DEF Session
    <3> QED BY <1>6, <3>1 DEF SessionPublishes, SessionSpeaks, SessionTimesOut, SessionDies
  <2> QED BY <1>1, <2>1, <2>2, OthersKeepRuns DEF InTransit, RunInv
<1> QED BY <1>2, <1>4, <1>5, <1>6 DEF Server

LEMMA RunsAreKept ==
  ASSUME TypeOK, CallsInv, RunInv, [Next]_vars
  PROVE  RunInv'
<1>1. CASE Quiet \/ UNCHANGED vars
  BY <1>1, NothingChanges DEF allVars, RunInv, CommandsRunOnce, AtServer, InTransit, Unsent, Queued
<1> QED BY <1>1, RunsOfClient, RunsOfServer DEF Next

-----------------------------------------------------------------------------
(* Whose answers are under way.                                             *)

\* What the session has published for this connection and what it is publishing.
Pipe == toClient \o session.due

Live == worker \in {"greeting", "serving", "sending"}

\* The answers among the events are of calls that were run: one at most of a request, which is the
\* pending one, and the others of the lookups they name.
AnswersIn(events, request) ==
  /\ \A i \in 1..Len(events) : events[i].kind = "RequestResult" =>
       request # NoCall /\ outcomes[request] = <<events[i].result>>
  /\ \A i, j \in 1..Len(events) :
       events[i].kind = "RequestResult" /\ events[j].kind = "RequestResult" => i = j
  /\ \A i \in 1..Len(events) : events[i].kind = "Lookup" =>
       outcomes[events[i].call] = <<events[i].result>>

\* The server holds no request of this connection but the pending one.
RequestsInv == \A c \in InTransit \cup session.work : calls[c].kind # "Lookup" => c = pending

AnswersInv == AnswersAreTheirOwn /\ (Live => AnswersIn(Pipe, pending) /\ RequestsInv)

LEMMA PipeParts ==
  ASSUME TypeOK
  PROVE  /\ Pipe \in Seq(Event) /\ toClient \in Seq(Event) /\ session.due \in Seq(Event)
         /\ Len(toClient) \in Nat /\ Len(session.due) \in Nat
         /\ Len(Pipe) = Len(toClient) + Len(session.due)
         /\ \A i \in 1..Len(Pipe) : Pipe[i] = IF i <= Len(toClient) THEN toClient[i] ELSE session.due[i - Len(toClient)]
         /\ \A i \in 1..Len(Pipe) : Pipe[i] \in Event
<1>1. toClient \in Seq(Event) /\ session.due \in Seq(Event)
  BY SessionFields DEF TypeOK
<1>2. /\ Pipe \in Seq(Event) /\ Len(Pipe) = Len(toClient) + Len(session.due)
      /\ Len(toClient) \in Nat /\ Len(session.due) \in Nat
  BY <1>1 DEF Pipe
<1>3. \A i \in 1..Len(Pipe) : Pipe[i] = IF i <= Len(toClient) THEN toClient[i] ELSE session.due[i - Len(toClient)]
  BY <1>1 DEF Pipe
<1> QED BY <1>1, <1>2, <1>3

\* Moving the first event of a sequence to the end of another changes nothing of the two together.
LEMMA HeadMoves ==
  ASSUME NEW S, NEW front \in Seq(S), NEW back \in Seq(S), back # <<>>
  PROVE  Append(front, Head(back)) \o Tail(back) = front \o back
<1> DEFINE longer == Append(front, Head(back))
           rest == Tail(back)
<1>1. /\ Len(front) \in Nat /\ Len(back) \in Nat /\ Len(back) >= 1
      /\ longer \in Seq(S) /\ rest \in Seq(S)
      /\ Len(longer) = Len(front) + 1 /\ Len(rest) = Len(back) - 1
      /\ \A i \in 1..Len(front) : longer[i] = front[i]
      /\ longer[Len(front) + 1] = back[1]
      /\ \A i \in 1..Len(rest) : rest[i] = back[i + 1]
  OBVIOUS
<1> HIDE DEF longer, rest
<1>2. /\ longer \o rest \in Seq(S) /\ Len(longer \o rest) = Len(longer) + Len(rest)
      /\ \A i \in 1..Len(longer) + Len(rest) :
           (longer \o rest)[i] = IF i <= Len(longer) THEN longer[i] ELSE rest[i - Len(longer)]
  BY <1>1, ConcatProperties
<1>3. /\ front \o back \in Seq(S) /\ Len(front \o back) = Len(front) + Len(back)
      /\ \A i \in 1..Len(front) + Len(back) :
           (front \o back)[i] = IF i <= Len(front) THEN front[i] ELSE back[i - Len(front)]
  BY ConcatProperties
<1>4. Len(longer) + Len(rest) = Len(front) + Len(back)
  BY <1>1
<1>5. ASSUME NEW i \in 1..Len(front) + Len(back)
      PROVE  (longer \o rest)[i] = (front \o back)[i]
  <2>1. /\ (longer \o rest)[i] = IF i <= Len(longer) THEN longer[i] ELSE rest[i - Len(longer)]
        /\ (front \o back)[i] = IF i <= Len(front) THEN front[i] ELSE back[i - Len(front)]
    BY <1>2, <1>3, <1>4
  <2>2. CASE i <= Len(front)
    BY <1>1, <2>1, <2>2
  <2>3. CASE i = Len(front) + 1
    BY <1>1, <2>1, <2>3
  <2>4. CASE i > Len(front) + 1
    <3>1. i - Len(longer) \in 1..Len(rest) /\ i - Len(longer) + 1 = i - Len(front)
      BY <1>1, <2>4
    <3>2. rest[i - Len(longer)] = back[i - Len(front)]
      BY <1>1, <3>1
    <3> QED BY <1>1, <2>1, <2>4, <3>2
  <2> QED BY <1>1, <2>2, <2>3, <2>4
<1>6. longer \o rest = front \o back
  BY <1>2, <1>3, <1>4, <1>5, SeqEqual
<1> QED BY <1>6 DEF longer, rest

\* Publishing takes nothing from the pipe and adds nothing.
LEMMA PublishingKeepsPipe ==
  ASSUME TypeOK, SessionPublishes
  PROVE  Pipe' = Pipe
<1>1. /\ toClient \in Seq(Event) /\ session.due \in Seq(Event) /\ session.due # <<>>
      /\ toClient' = Append(toClient, Head(session.due)) /\ session'.due = Tail(session.due)
  BY SessionFields DEF TypeOK, SessionPublishes, Session
<1> QED BY <1>1, HeadMoves DEF Pipe

\* Receiving takes the first event.
LEMMA ReceivingShortensPipe ==
  ASSUME TypeOK, toClient # <<>>, toClient' = Tail(toClient), session' = session
  PROVE  /\ Len(Pipe) >= 1 /\ Pipe[1] = Head(toClient)
         /\ Len(Pipe') = Len(Pipe) - 1
         /\ \A i \in 1..Len(Pipe') : Pipe'[i] = Pipe[i + 1]
<1> DEFINE rest == Tail(toClient)
<1>1. /\ toClient \in Seq(Event) /\ session.due \in Seq(Event) /\ Len(toClient) \in Nat /\ Len(session.due) \in Nat
      /\ Len(toClient) >= 1 /\ Head(toClient) = toClient[1]
      /\ rest \in Seq(Event) /\ Len(rest) = Len(toClient) - 1 /\ \A i \in 1..Len(rest) : rest[i] = toClient[i + 1]
  BY PipeParts
<1>2. Pipe' = rest \o session.due
  BY DEF Pipe
<1> HIDE DEF rest
<1>3. /\ Len(Pipe') = Len(rest) + Len(session.due)
      /\ \A i \in 1..Len(rest) + Len(session.due) :
           Pipe'[i] = IF i <= Len(rest) THEN rest[i] ELSE session.due[i - Len(rest)]
  BY <1>1, <1>2, ConcatProperties
<1>4. /\ Len(Pipe) = Len(toClient) + Len(session.due)
      /\ \A i \in 1..Len(Pipe) : Pipe[i] = IF i <= Len(toClient) THEN toClient[i] ELSE session.due[i - Len(toClient)]
  BY PipeParts
<1>5. \A i \in 1..Len(Pipe') : Pipe'[i] = Pipe[i + 1]
  <2> TAKE i \in 1..Len(Pipe')
  <2>1. i \in Nat /\ i >= 1 /\ i <= Len(rest) + Len(session.due) /\ i + 1 \in 1..Len(Pipe)
    BY <1>1, <1>3, <1>4
  <2>2. CASE i <= Len(rest)
    BY <1>1, <1>3, <1>4, <2>1, <2>2
  <2>3. CASE i > Len(rest)
    <3>1. i - Len(rest) = i + 1 - Len(toClient) /\ ~(i + 1 <= Len(toClient))
      BY <1>1, <2>1, <2>3
    <3>2. Pipe'[i] = session.due[i - Len(rest)]
      BY <1>1, <1>3, <2>1, <2>3, SMTT(30)
    <3>3. Pipe[i + 1] = session.due[i + 1 - Len(toClient)]
      BY <1>1, <1>4, <2>1, <3>1
    <3> QED BY <3>1, <3>2, <3>3
  <2> QED BY <1>1, <2>1, <2>2, <2>3
<1>6. Pipe[1] = Head(toClient) /\ Len(Pipe) >= 1
  BY <1>1, <1>4
<1>7. Len(Pipe') = Len(Pipe) - 1
  BY <1>1, <1>3, <1>4, SMTT(30)
<1> QED BY <1>5, <1>6, <1>7

\* A session that has nothing to publish adds what it comes to have.
LEMMA SpeakingExtendsPipe ==
  ASSUME TypeOK, session.due = <<>>, toClient' = toClient, NEW due \in Seq(Event), session'.due = due
  PROVE  /\ Len(Pipe) = Len(toClient) /\ Len(Pipe') = Len(Pipe) + Len(due)
         /\ \A i \in 1..Len(Pipe) : Pipe'[i] = Pipe[i]
         /\ \A i \in 1..Len(due) : Pipe'[Len(Pipe) + i] = due[i]
<1>1. toClient \in Seq(Event) /\ Len(toClient) \in Nat /\ Len(due) \in Nat
  BY PipeParts
<1>2. Len(Pipe) = Len(toClient) /\ \A i \in 1..Len(Pipe) : Pipe[i] = toClient[i]
  <2>1. Len(session.due) = 0
    OBVIOUS
  <2> QED BY <1>1, <2>1, PipeParts
<1>3. Pipe' = toClient \o due
  BY DEF Pipe
<1>4. /\ Len(Pipe') = Len(toClient) + Len(due)
      /\ \A i \in 1..Len(toClient) + Len(due) :
           Pipe'[i] = IF i <= Len(toClient) THEN toClient[i] ELSE due[i - Len(toClient)]
  BY <1>1, <1>3, ConcatProperties
<1>5. ASSUME NEW i \in 1..Len(due) PROVE Pipe'[Len(Pipe) + i] = due[i]
  <2>1. /\ Len(toClient) + i \in 1..Len(toClient) + Len(due) /\ ~(Len(toClient) + i <= Len(toClient))
        /\ Len(toClient) + i - Len(toClient) = i
    BY <1>1
  <2> QED BY <1>2, <1>4, <2>1
<1> QED BY <1>1, <1>2, <1>4, <1>5

LEMMA PlacesType ==
  ASSUME TypeOK
  PROVE  AtServer \subseteq Calls /\ Unsent \subseteq Calls /\ InTransit \subseteq Calls /\ session.work \subseteq Calls
<1>1. \A i \in 1..Len(toServer) : toServer[i] \in Message
  BY DEF TypeOK
<1>2. InTransit \subseteq Calls
  BY <1>1 DEF InTransit, CommandsOf, Message
<1>3. Queued \subseteq Calls /\ sending \in Calls \cup {NoCall}
  BY ElementsType DEF Queued, TypeOK
<1>4. session.work \subseteq Calls /\ late \subseteq Calls
  BY SessionFields DEF TypeOK
<1> QED BY <1>2, <1>3, <1>4 DEF AtServer, Unsent

\* What a step of the client may change of a call: only an event answers what was sent; a call that was
\* sent and is answered Disconnected is no change of the repository and no completed review.
ReplyStep(c) ==
  /\ calls[c].reply # "unused" => calls'[c].kind = calls[c].kind /\ calls'[c].target = calls[c].target
  /\ \/ calls'[c].reply = calls[c].reply /\ calls'[c].kind = calls[c].kind
     \/ calls'[c].reply \in {"waiting", "OutcomeUnknown"}
     \/ /\ calls'[c].reply = "Disconnected"
        /\ c \in Unsent \/ calls'[c].kind \notin {"Apply", "Submit", "Cancel"}
     \/ calls'[c].reply = "ok" /\ calls'[c].kind = "Close"

LEMMA RepliesOfClient ==
  ASSUME TypeOK, CallsInv, Caller \/ Connection \/ Between, ~ReceiveEvent
  PROVE  \A c \in Calls : ReplyStep(c)
<1> USE DEF callerVars, flightVars, stateVars, linkVars, serverVars, boundVars, EndConnection
<1>0. /\ calls \in [Calls -> Call] /\ commands \in Seq(Calls) /\ lookups \in Seq(Calls)
  BY DEF TypeOK
<1>1. ASSUME calls' = calls PROVE \A c \in Calls : ReplyStep(c)
  BY <1>1 DEF ReplyStep
<1>2. ASSUME NEW answered, answered \subseteq Unsent, Reply(answered, "Disconnected")
      PROVE  \A c \in Calls : ReplyStep(c)
  BY <1>0, <1>2, ReplySettles DEF ReplyStep, Replies, Settles
<1>3. ASSUME NEW d, calls[d].kind = "Close", Reply({d}, "ok")
      PROVE  \A c \in Calls : ReplyStep(c)
  BY <1>0, <1>3, ReplySettles DEF ReplyStep, Replies, Settles
<1>4. Queued \subseteq Unsent
  BY ElementsType, <1>0 DEF Unsent, Queued
<1>5. ASSUME NEW d \in Calls, MakeCall(d) PROVE \A c \in Calls : ReplyStep(c)
  <2>1. /\ calls[d].reply = "unused"
        /\ \A c \in Calls : c # d => calls'[c] = calls[c]
        /\ calls'[d].reply \in {"waiting", "Disconnected"}
    BY <1>0, <1>5 DEF MakeCall
  <2>2. d \in Unsent
    BY <2>1 DEF Unsent
  <2> QED BY <2>1, <2>2 DEF ReplyStep
<1>6. CASE DropHandle
  <2>1. calls' = calls \/ Reply(Elements(commands) \cup Elements(lookups), "Disconnected")
    BY <1>6 DEF DropHandle
  <2> QED BY <1>1, <1>2, <1>4, <2>1 DEF Queued
<1>7. CASE TakeCommand
  <2>1. /\ commands # <<>>
        /\ \/ calls' = calls
           \/ calls[Head(commands)].kind = "Close" /\ Reply({Head(commands)}, "ok")
           \/ Reply({Head(commands)}, "Disconnected")
    BY <1>7 DEF TakeCommand
  <2>2. {Head(commands)} \subseteq Unsent
    BY <1>4, <2>1, TakenFromQueue DEF Queued
  <2> QED BY <1>1, <1>2, <1>3, <2>1, <2>2
<1>8. CASE TakeLookup
  <2>1. /\ lookups # <<>>
        /\ calls' = calls \/ Reply({Head(lookups)}, "Disconnected")
    BY <1>8 DEF TakeLookup
  <2>2. {Head(lookups)} \subseteq Unsent
    BY <1>4, <2>1, TakenFromQueue DEF Queued
  <2> QED BY <1>1, <1>2, <2>1, <2>2
<1>9. CASE SendingFails
  <2>1. Reply({sending}, "Disconnected") /\ worker = "sending"
    BY <1>9 DEF SendingFails
  <2>2. {sending} \subseteq Unsent
    BY <2>1 DEF CallsInv, Unsent
  <2> QED BY <1>2, <2>1, <2>2
<1>10. CASE Sent \/ Greet \/ RefuseEvent \/ ReceiveFails \/ HandleGone \/ Reconnect
  BY <1>1, <1>10 DEF Sent, Greet, RefuseEvent, ReceiveFails, HandleGone, Reconnect
<1>11. CASE Close
  <2> DEFINE settled == [c \in Calls |-> IF c \in InFlight THEN [calls[c] EXCEPT !.reply = Abandoned(c)] ELSE calls[c]]
  <2>1. /\ settled \in [Calls -> Call]
        /\ \A c \in Calls : /\ settled[c].kind = calls[c].kind /\ settled[c].target = calls[c].target
                            /\ settled[c].reply = IF c \in InFlight THEN Abandoned(c) ELSE calls[c].reply
                            /\ Abandoned(c) \in {"OutcomeUnknown", "Disconnected"}
    <3>1. settled = [c \in Calls |-> IF c \in InFlight THEN [calls[c] EXCEPT !.reply = Abandoned(c)] ELSE calls[c]]
      OBVIOUS
    <3> HIDE DEF settled
    <3> QED BY <1>0, <3>1, AbandoningSettles
  <2>2. calls' = settled \/ StopsWith(settled)
    BY <1>11 DEF Close
  <2> HIDE DEF settled
  <2>3. ASSUME NEW c \in Calls, c \in InFlight, Abandoned(c) = "Disconnected"
        PROVE  calls[c].kind \notin {"Apply", "Submit", "Cancel"}
    <3>1. CASE c \in outstanding
      BY <3>1 DEF CallsInv
    <3>2. CASE c = pending
      BY <2>3, <3>2 DEF Abandoned, MayHaveCompleted
    <3> QED BY <2>3, <3>1, <3>2 DEF InFlight
  <2>4. ASSUME NEW c \in Calls, calls'[c].kind = settled[c].kind, calls'[c].target = settled[c].target,
               \/ calls'[c].reply = settled[c].reply
               \/ calls'[c].reply = "Disconnected" /\ c \in Queued
        PROVE  ReplyStep(c)
    <3>1. CASE calls'[c].reply = "Disconnected" /\ c \in Queued
      BY <1>4, <2>1, <2>4, <3>1 DEF ReplyStep
    <3>2. CASE calls'[c].reply = settled[c].reply /\ c \in InFlight
      BY <2>1, <2>3, <2>4, <3>2 DEF ReplyStep
    <3>3. CASE calls'[c].reply = settled[c].reply /\ c \notin InFlight
      BY <2>1, <2>4, <3>3 DEF ReplyStep
    <3> QED BY <2>4, <3>1, <3>2, <3>3
  <2>5. CASE calls' = settled
    BY <2>4, <2>5
  <2>6. CASE StopsWith(settled)
    <3>1. CASE handle
      <4>1. calls' = settled
        BY <2>6, <3>1 DEF StopsWith
      <4> QED BY <2>4, <4>1
    <3>2. CASE ~handle
      <4>1. calls' = [c \in Calls |-> IF c \in Queued THEN [settled[c] EXCEPT !.reply = "Disconnected"]
                                      ELSE settled[c]]
        BY <2>6, <3>2 DEF StopsWith, Queued
      <4>2. ASSUME NEW c \in Calls PROVE ReplyStep(c)
        <5>1. settled[c] \in Call
          BY <2>1
        <5>2. CASE c \in Queued
          <6>1. calls'[c] = [settled[c] EXCEPT !.reply = "Disconnected"]
            BY <4>1, <5>2
          <6>2. /\ calls'[c].kind = settled[c].kind /\ calls'[c].target = settled[c].target
                /\ calls'[c].reply = "Disconnected"
            BY <5>1, <6>1 DEF Call
          <6> QED BY <2>4, <5>2, <6>2
        <5>3. CASE c \notin Queued
          <6>1. calls'[c] = settled[c]
            BY <4>1, <5>3
          <6> QED BY <2>4, <6>1
        <5> QED BY <5>2, <5>3
      <4> QED BY <4>2
    <3> QED BY <3>1, <3>2
  <2> QED BY <2>2, <2>5, <2>6
<1>12. CASE RefuseCall
  <2>1. \/ lookups # <<>> /\ Reply({Head(lookups)}, "Disconnected")
        \/ commands # <<>> /\ Reply({Head(commands)}, "Disconnected")
    BY <1>12 DEF RefuseCall
  <2>2. /\ lookups # <<>> => {Head(lookups)} \subseteq Unsent
        /\ commands # <<>> => {Head(commands)} \subseteq Unsent
    BY <1>4, TakenFromQueue DEF Queued
  <2> QED BY <1>2, <2>1, <2>2
<1>13. CASE StopReconnecting
  <2>1. \/ calls[Head(commands)].kind = "Close" /\ Reply({Head(commands)}, "ok")
        \/ StopsWith(calls) /\ ~handle
    BY <1>13 DEF StopReconnecting
  <2>2. CASE StopsWith(calls) /\ ~handle
    <3>1. calls' = [c \in Calls |-> IF c \in Queued THEN [calls[c] EXCEPT !.reply = "Disconnected"] ELSE calls[c]]
      BY <2>2 DEF StopsWith, Queued
    <3>2. Reply(Queued, "Disconnected")
      BY <3>1 DEF Reply
    <3> QED BY <1>2, <1>4, <3>2
  <2> QED BY <1>3, <2>1, <2>2
<1> QED BY <1>5, <1>6, <1>7, <1>8, <1>9, <1>10, <1>11, <1>12, <1>13 DEF Caller, Connection, Between

LEMMA AnswersInitially == Init => AnswersInv
<1> SUFFICES ASSUME Init PROVE AnswersInv
  OBVIOUS
<1>1. /\ \A c \in Calls : calls[c].reply = "unused"
      /\ toServer = <<>> /\ toClient = <<>> /\ session.due = <<>> /\ session.work = {}
  BY DEF Init, Unused, NewSession
<1>2. Len(Pipe) = 0
  BY <1>1 DEF Pipe
<1>3. InTransit = {}
  BY <1>1 DEF InTransit, CommandsOf
<1> QED BY <1>1, <1>2, <1>3 DEF AnswersInv, AnswersAreTheirOwn, AnswersIn, RequestsInv

\* No answer of a call leaves the pipe or enters it, and the server gets no other requests.
LEMMA OthersKeepAnswers ==
  ASSUME TypeOK, RunInv, AnswersInv, Live, UNCHANGED <<outcomes, pending>>, Pipe' = Pipe,
         (InTransit \cup session.work)' = InTransit \cup session.work, \A c \in Calls : ReplyStep(c)
  PROVE  AnswersIn(Pipe, pending)' /\ RequestsInv'
<1>1. AnswersIn(Pipe, pending)'
  BY DEF AnswersInv, AnswersIn
<1>2. ASSUME NEW c \in InTransit \cup session.work PROVE calls'[c].kind = calls[c].kind
  <2>1. c \in Calls /\ c \notin Unsent
    BY PlacesType DEF RunInv, AtServer
  <2>2. calls[c].reply # "unused"
    BY <2>1 DEF Unsent
  <2> QED BY <2>1, <2>2 DEF ReplyStep
<1>3. RequestsInv'
  BY <1>2 DEF AnswersInv, RequestsInv
<1> QED BY <1>1, <1>3

LEMMA AnswersOfReceiving ==
  ASSUME TypeOK, CallsInv, RunInv, AnswersInv, ReceiveEvent
  PROVE  AnswersInv'
<1> DEFINE event == Head(toClient)
<1> USE DEF callerVars, flightVars, stateVars, linkVars, serverVars, boundVars, EndConnection
<1>1. /\ worker = "serving" /\ toClient # <<>> /\ toClient' = Tail(toClient) /\ event \in Event
      /\ UNCHANGED <<session, outcomes, toServer>>
  BY DEF ReceiveEvent, TypeOK
<1>2. \/ /\ event.kind = "RequestResult" /\ pending' = NoCall
         /\ pending # NoCall => Reply({pending}, event.result)
      \/ /\ event.kind = "Lookup" /\ Reply({event.call} \cap outstanding, event.result)
         /\ pending' = pending
      \/ /\ event.kind \in {"Initialize", "Document", "Health", "Error"}
         /\ UNCHANGED <<calls, pending>>
  BY DEF ReceiveEvent
<1>3. /\ Len(Pipe) >= 1 /\ Pipe[1] = event /\ Len(Pipe) \in Nat
      /\ Len(Pipe') = Len(Pipe) - 1 /\ \A i \in 1..Len(Pipe') : Pipe'[i] = Pipe[i + 1]
  <2>1. Len(Pipe) \in Nat
    BY PipeParts
  <2> QED BY <1>1, <2>1, ReceivingShortensPipe
<1> HIDE DEF event
<1>4. AnswersAreTheirOwn /\ AnswersIn(Pipe, pending) /\ RequestsInv
  BY <1>1 DEF AnswersInv, Live
<1>5. calls \in [Calls -> Call] /\ pending \in Calls \cup {NoCall} /\ outstanding \subseteq Calls
  BY DEF TypeOK
<1>6. 1 \in 1..Len(Pipe) /\ \A i \in 1..Len(Pipe') : i + 1 \in 1..Len(Pipe)
  BY <1>3
<1>7. event.kind = "RequestResult" => pending # NoCall /\ outcomes[pending] = <<event.result>>
  BY <1>3, <1>4, <1>6 DEF AnswersIn
<1>8. event.kind = "Lookup" => outcomes[event.call] = <<event.result>>
  BY <1>3, <1>4, <1>6 DEF AnswersIn
<1>9. AnswersAreTheirOwn' /\ \A c \in Calls : calls'[c].kind = calls[c].kind
  <2>1. CASE event.kind = "RequestResult"
    <3>1. Reply({pending}, event.result) /\ event.result \in Replies /\ pending \in Calls
      BY <1>1, <1>2, <1>5, <1>7, <2>1, EventFields DEF Replies
    <3>2. /\ \A c \in Calls : c # pending => calls'[c].reply = calls[c].reply
          /\ \A c \in Calls : calls'[c].kind = calls[c].kind
          /\ calls'[pending].reply = event.result
      BY <1>5, <3>1, ReplySettles DEF Settles
    <3> QED BY <1>1, <1>4, <1>7, <2>1, <3>2 DEF AnswersAreTheirOwn
  <2>2. CASE event.kind = "Lookup"
    <3> DEFINE answered == {event.call} \cap outstanding
    <3>1. Reply(answered, event.result) /\ event.result \in Replies
      BY <1>1, <1>2, <2>2, EventFields DEF Replies
    <3> HIDE DEF answered
    <3>2. /\ \A c \in Calls : c \notin answered => calls'[c].reply = calls[c].reply
          /\ \A c \in Calls : calls'[c].kind = calls[c].kind
          /\ \A c \in Calls : c \in answered => calls'[c].reply = event.result
      BY <1>5, <3>1, ReplySettles DEF Settles
    <3>3. \A c \in answered : c = event.call
      BY DEF answered
    <3>4. ASSUME NEW c \in Calls, calls'[c].kind # "Close", calls'[c].reply \in {"ok", "rejected"}
          PROVE  outcomes'[c] = <<calls'[c].reply>>
      <4>1. CASE c \in answered
        BY <1>1, <1>8, <2>2, <3>2, <3>3, <4>1
      <4>2. CASE c \notin answered
        BY <1>1, <1>4, <3>2, <3>4, <4>2 DEF AnswersAreTheirOwn
      <4> QED BY <4>1, <4>2
    <3> QED BY <3>2, <3>4 DEF AnswersAreTheirOwn
  <2>3. CASE UNCHANGED calls
    BY <1>1, <1>4, <2>3 DEF AnswersAreTheirOwn
  <2> QED BY <1>2, <2>1, <2>2, <2>3
<1>10. AnswersIn(Pipe, pending)'
  <2>1. \A i \in 1..Len(Pipe') : Pipe'[i].kind = "RequestResult" => pending' = pending
    <3>1. CASE event.kind = "RequestResult"
      <4>1. ASSUME NEW i \in 1..Len(Pipe'), Pipe'[i].kind = "RequestResult" PROVE FALSE
        <5>1. i + 1 = 1
          BY <1>3, <1>4, <1>6, <3>1, <4>1 DEF AnswersIn
        <5> QED BY <1>3, <5>1
      <4> QED BY <4>1
    <3> QED BY <1>2, <3>1
  <2>2. ASSUME NEW i \in 1..Len(Pipe'), Pipe'[i].kind = "RequestResult"
        PROVE  pending' # NoCall /\ outcomes'[pending'] = <<Pipe'[i].result>>
    <3>1. i + 1 \in 1..Len(Pipe) /\ Pipe[i + 1] = Pipe'[i]
      BY <1>3, <1>6
    <3>2. pending # NoCall /\ outcomes[pending] = <<Pipe'[i].result>>
      BY <1>4, <2>2, <3>1 DEF AnswersIn
    <3> QED BY <1>1, <2>1, <2>2, <3>2
  <2>3. ASSUME NEW i \in 1..Len(Pipe'), NEW j \in 1..Len(Pipe'),
               Pipe'[i].kind = "RequestResult", Pipe'[j].kind = "RequestResult"
        PROVE  i = j
    <3>1. /\ i + 1 \in 1..Len(Pipe) /\ j + 1 \in 1..Len(Pipe)
          /\ Pipe[i + 1].kind = "RequestResult" /\ Pipe[j + 1].kind = "RequestResult"
      BY <1>3, <1>6, <2>3
    <3>2. i + 1 = j + 1
      BY <1>4, <3>1 DEF AnswersIn
    <3> QED BY <1>3, <3>2
  <2>4. \A i \in 1..Len(Pipe') : Pipe'[i].kind = "Lookup" => outcomes'[Pipe'[i].call] = <<Pipe'[i].result>>
    BY <1>1, <1>3, <1>4, <1>6 DEF AnswersIn
  <2> QED BY <2>2, <2>3, <2>4 DEF AnswersIn
<1>11. RequestsInv'
  <2>1. InTransit' = InTransit /\ session'.work = session.work
    BY <1>1 DEF InTransit
  <2>2. CASE event.kind = "RequestResult"
    <3>1. ASSUME NEW c \in InTransit \cup session.work, calls'[c].kind # "Lookup" PROVE FALSE
      <4>1. c = pending
        BY <1>4, <1>9, <3>1, PlacesType DEF RequestsInv
      <4>2. outcomes[c] = <<>>
        BY <3>1 DEF RunInv, AtServer
      <4> QED BY <1>7, <2>2, <4>1, <4>2
    <3> QED BY <2>1, <3>1 DEF RequestsInv
  <2>3. CASE event.kind # "RequestResult"
    BY <1>2, <1>4, <1>9, <2>1, <2>3, PlacesType DEF RequestsInv
  <2> QED BY <2>2, <2>3
<1> QED BY <1>9, <1>10, <1>11 DEF AnswersInv

LEMMA AnswersOfClient ==
  ASSUME TypeOK, CallsInv, RunInv, AnswersInv, Caller \/ Connection \/ Between
  PROVE  AnswersInv'
<1> USE DEF callerVars, flightVars, stateVars, linkVars, serverVars, boundVars, EndConnection
<1>1. CASE ReceiveEvent
  BY <1>1, AnswersOfReceiving
<1>2. CASE ~ReceiveEvent
  <2>1. \A c \in Calls : ReplyStep(c)
    BY <1>2, RepliesOfClient
  <2>2. outcomes' = outcomes
    <3>1. ASSUME NEW c \in Calls, MakeCall(c) PROVE outcomes' = outcomes
      BY <3>1 DEF MakeCall
    <3>2. CASE Caller
      BY <3>1, <3>2 DEF Caller, DropHandle
    <3>3. CASE Connection
      BY <1>2, <3>3 DEF Connection, Greet, Sent, SendingFails, TakeCommand, TakeLookup, RefuseEvent, ReceiveFails, HandleGone
    <3>4. CASE Between
      BY <3>4 DEF Between, Close, Reconnect, RefuseCall, StopReconnecting
    <3> QED BY <3>2, <3>3, <3>4
  <2>3. AnswersAreTheirOwn'
    <3>1. ASSUME NEW c \in Calls, calls'[c].kind # "Close", calls'[c].reply \in {"ok", "rejected"}
          PROVE  outcomes'[c] = <<calls'[c].reply>>
      <4>1. calls'[c].reply = calls[c].reply /\ calls'[c].kind = calls[c].kind
        BY <2>1, <3>1 DEF ReplyStep
      <4> QED BY <2>2, <3>1, <4>1 DEF AnswersInv, AnswersAreTheirOwn
    <3> QED BY <3>1 DEF AnswersAreTheirOwn
  <2>4. ASSUME Live' PROVE AnswersIn(Pipe, pending)' /\ RequestsInv'
    <3>1. CASE Reconnect
      <4>1. toClient' = <<>> /\ session'.due = <<>> /\ toServer' = <<>> /\ session'.work = {}
        BY <3>1 DEF Reconnect, NewSession
      <4>2. Len(Pipe') = 0
        BY <4>1 DEF Pipe
      <4>3. InTransit' = {}
        BY <4>1 DEF InTransit, CommandsOf
      <4> QED BY <4>1, <4>2, <4>3 DEF AnswersIn, RequestsInv
    <3>2. CASE Sent
      <4>1. /\ worker = "sending" /\ calls' = calls /\ UNCHANGED <<toClient, session>>
            /\ toServer' = toServer \/ toServer' = Append(toServer, Command(sending))
            /\ pending' = IF IsRequest(sending) THEN sending ELSE pending
        BY <3>2 DEF Sent, SendTo
      <4>2. /\ sending \in Calls /\ calls[sending].kind # "Close" /\ (IsRequest(sending) => pending = NoCall)
            /\ NoCall \notin Calls /\ toServer \in Seq(Message) /\ calls \in [Calls -> Call]
        BY <4>1, ConstantsAssumption DEF TypeOK, CallsInv
      <4>3. AnswersIn(Pipe, pending) /\ RequestsInv
        BY <4>1 DEF AnswersInv, Live
      <4>4. Command(sending) \in Message /\ Command(sending).call = sending
        BY <4>2, MessageTypes DEF Command
      <4>5. InTransit' \subseteq InTransit \cup {sending} /\ session'.work = session.work
        BY <4>1, <4>2, <4>4, CommandsOfAppend DEF InTransit
      <4>6. Pipe' = Pipe
        BY <4>1 DEF Pipe
      <4>7. CASE IsRequest(sending)
        <5>1. AnswersIn(Pipe, pending)'
          BY <2>2, <4>1, <4>2, <4>3, <4>6, <4>7 DEF AnswersIn
        <5>2. RequestsInv'
          BY <4>1, <4>2, <4>3, <4>5, <4>7, PlacesType DEF RequestsInv
        <5> QED BY <5>1, <5>2
      <4>8. CASE ~IsRequest(sending)
        <5>1. AnswersIn(Pipe, pending)'
          BY <2>2, <4>1, <4>3, <4>6, <4>8 DEF AnswersIn
        <5>2. RequestsInv'
          BY <4>1, <4>2, <4>3, <4>5, <4>8 DEF RequestsInv, IsRequest
        <5> QED BY <5>1, <5>2
      <4> QED BY <4>7, <4>8
    <3>3. CASE Greet
      <4>1. /\ worker = "greeting" /\ UNCHANGED <<toClient, session, pending>>
            /\ toServer' = toServer \/ toServer' = Append(toServer, Hello(resume))
        BY <3>3 DEF Greet, SendTo, SendFails
      <4>2. toServer \in Seq(Message) /\ Hello(resume) \in Message /\ Hello(resume).call = NoCall
        BY MessageTypes DEF TypeOK, Hello
      <4>3. InTransit' = InTransit
        <5>1. CommandsOf(Append(toServer, Hello(resume))) = CommandsOf(toServer) \cup ({NoCall} \ {NoCall})
          BY <4>2, CommandsOfAppend
        <5> QED BY <4>1, <5>1 DEF InTransit
      <4>4. Pipe' = Pipe /\ Live
        BY <4>1 DEF Pipe, Live
      <4> QED BY <2>1, <2>2, <4>1, <4>3, <4>4, OthersKeepAnswers
    <3>4. CASE ~Reconnect /\ ~Sent /\ ~Greet
      <4>1. UNCHANGED <<toClient, toServer, session, pending>> /\ Live
        <5>1. ASSUME NEW c \in Calls, MakeCall(c) PROVE UNCHANGED <<toClient, toServer, session, pending>> /\ Live
          BY <2>4, <5>1 DEF MakeCall, Live
        <5>2. CASE DropHandle \/ TakeCommand \/ TakeLookup
          BY <2>4, <5>2 DEF DropHandle, TakeCommand, TakeLookup, Live
        <5>3. ~SendingFails /\ ~RefuseEvent /\ ~ReceiveFails /\ ~HandleGone /\ ~Close /\ ~RefuseCall /\ ~StopReconnecting
          BY <2>4 DEF SendingFails, RefuseEvent, ReceiveFails, HandleGone, Close, RefuseCall, StopReconnecting, StopsWith, Live
        <5> QED BY <1>2, <3>4, <5>1, <5>2, <5>3 DEF Caller, Connection, Between
      <4>2. Pipe' = Pipe /\ (InTransit \cup session.work)' = InTransit \cup session.work
        BY <4>1 DEF Pipe, InTransit
      <4> QED BY <2>1, <2>2, <4>1, <4>2, OthersKeepAnswers
    <3> QED BY <3>1, <3>2, <3>3, <3>4
  <2> QED BY <2>3, <2>4 DEF AnswersInv
<1> QED BY <1>1, <1>2

LEMMA Singletons ==
  /\ \A x : <<x>> # <<>>
  /\ \A x : <<>> \o <<x>> = <<x>>
  /\ \A x, y : <<x>> \o <<y>> = <<x, y>>
<1>1. ASSUME NEW x PROVE <<x>> # <<>>
  OBVIOUS
<1>2. ASSUME NEW x PROVE <<>> \o <<x>> = <<x>>
  <2>1. PICK S : x \in S
    <3>1. x \in {x}
      OBVIOUS
    <3> QED BY <3>1
  <2>2. <<x>> \in Seq(S)
    BY <2>1
  <2> QED BY <2>2, ConcatEmptySeq
<1>3. ASSUME NEW x, NEW y PROVE <<x>> \o <<y>> = <<x, y>>
  <2>1. PICK S : x \in S /\ y \in S
    <3>1. x \in {x, y} /\ y \in {x, y}
      OBVIOUS
    <3> QED BY <3>1
  <2>2. /\ <<x>> \in Seq(S) /\ <<y>> \in Seq(S) /\ <<x, y>> \in Seq(S)
        /\ Len(<<x>>) = 1 /\ Len(<<y>>) = 1 /\ Len(<<x, y>>) = 2
    BY <2>1
  <2> DEFINE both == <<x>> \o <<y>>
  <2>3. both \in Seq(S) /\ Len(both) = 2 /\ both[1] = x /\ both[2] = y
    BY <2>2, ConcatProperties
  <2>4. <<x, y>>[1] = x /\ <<x, y>>[2] = y
    OBVIOUS
  <2> HIDE DEF both
  <2>5. both = <<x, y>>
    BY <2>2, <2>3, <2>4, SeqEqual
  <2> QED BY <2>5 DEF both
<1> QED BY <1>1, <1>2, <1>3

\* What an event adds to the answers under way: nothing, unless it is one.
LEMMA SpeakingKeepsAnswers ==
  ASSUME TypeOK, AnswersIn(Pipe, pending), UNCHANGED <<outcomes, pending, toClient>>, session.due = <<>>,
         NEW due \in Seq(Event), session'.due = due,
         \A i \in 1..Len(due) : due[i].kind \notin {"RequestResult", "Lookup"}
  PROVE  AnswersIn(Pipe, pending)'
<1>1. /\ Len(Pipe) \in Nat /\ Len(due) \in Nat /\ Len(Pipe') = Len(Pipe) + Len(due)
      /\ \A i \in 1..Len(Pipe) : Pipe'[i] = Pipe[i]
      /\ \A i \in 1..Len(due) : Pipe'[Len(Pipe) + i] = due[i]
  <2>1. Len(Pipe) \in Nat /\ Len(due) \in Nat
    BY PipeParts
  <2>2. toClient' = toClient
    OBVIOUS
  <2> QED BY <2>1, <2>2, SpeakingExtendsPipe
<1>2. ASSUME NEW i \in 1..Len(Pipe'), Pipe'[i].kind \in {"RequestResult", "Lookup"}
      PROVE  i \in 1..Len(Pipe) /\ Pipe'[i] = Pipe[i]
  <2>1. CASE i \in 1..Len(Pipe)
    BY <1>1, <2>1
  <2>2. CASE i \notin 1..Len(Pipe)
    <3>1. i - Len(Pipe) \in 1..Len(due) /\ Len(Pipe) + (i - Len(Pipe)) = i
      BY <1>1, <2>2
    <3> QED BY <1>1, <1>2, <3>1
  <2> QED BY <2>1, <2>2
<1> QED BY <1>2 DEF AnswersIn

LEMMA AnswersOfRunning ==
  ASSUME TypeOK, RunInv, AnswersInv, NEW c \in Calls, SessionRuns(c)
  PROVE  AnswersInv'
<1> USE DEF callerVars, flightVars, stateVars, linkVars, serverVars, boundVars
<1> DEFINE switches(o) == calls[c].kind = "SetTarget" /\ o = "ok"
           shown(o) == IF switches(o) THEN calls[c].target ELSE session.target
           answer(o) == IF calls[c].kind = "Lookup"
                        THEN [kind |-> "Lookup", call |-> c, result |-> o]
                        ELSE [kind |-> "RequestResult", result |-> o]
           due(o) == IF switches(o) THEN <<Shows(shown(o)), answer(o)>> ELSE <<answer(o)>>
<1>0. /\ calls \in [Calls -> Call] /\ session \in Session /\ session.target \in Targets
      /\ session.work \in SUBSET Calls /\ outcomes \in [Calls -> Seq({"ok", "rejected"})]
  BY SessionFields DEF TypeOK
<1>1. PICK o \in {"ok", "rejected"} :
        /\ outcomes' = [outcomes EXCEPT ![c] = Append(@, o)]
        /\ session' = [session EXCEPT !.work = @ \ {c}, !.target = shown(o), !.due = due(o)]
  <2>1. PICK o \in {"ok", "rejected"} :
          /\ outcomes' = [outcomes EXCEPT ![c] = Append(@, o)]
          /\ session' = [session EXCEPT !.work = @ \ {c}, !.target = shown(o),
                           !.due = (IF switches(o) THEN <<Shows(shown(o))>> ELSE <<>>)
                                   \o (IF calls[c].kind = "Lookup"
                                       THEN <<[kind |-> "Lookup", call |-> c, result |-> o]>>
                                       ELSE <<[kind |-> "RequestResult", result |-> o]>>)]
    BY DEF SessionRuns
  <2>2. (IF switches(o) THEN <<Shows(shown(o))>> ELSE <<>>)
          \o (IF calls[c].kind = "Lookup"
              THEN <<[kind |-> "Lookup", call |-> c, result |-> o]>>
              ELSE <<[kind |-> "RequestResult", result |-> o]>>)
        = due(o)
    <3>1. (IF calls[c].kind = "Lookup"
           THEN <<[kind |-> "Lookup", call |-> c, result |-> o]>>
           ELSE <<[kind |-> "RequestResult", result |-> o]>>) = <<answer(o)>>
      OBVIOUS
    <3> HIDE DEF answer, shown
    <3>2. <<Shows(shown(o))>> \o <<answer(o)>> = <<Shows(shown(o)), answer(o)>>
      BY Singletons
    <3>3. <<>> \o <<answer(o)>> = <<answer(o)>>
      BY Singletons
    <3> QED BY <3>1, <3>2, <3>3
  <2> HIDE DEF due, shown
  <2> QED BY <2>1, <2>2
<1>2. /\ session.due = <<>> /\ c \in session.work /\ UNCHANGED <<calls, worker, pending, toClient, toServer>>
  BY DEF SessionRuns
<1>3. outcomes[c] = <<>> /\ outcomes'[c] = <<o>> /\ \A d \in Calls : d # c => outcomes'[d] = outcomes[d]
  <2>1. outcomes[c] = <<>>
    BY <1>2 DEF RunInv, AtServer
  <2> QED BY <1>0, <1>1, <2>1
<1>4. AnswersAreTheirOwn'
  BY <1>2, <1>3 DEF AnswersInv, AnswersAreTheirOwn
<1>5. answer(o) \in Event /\ Shows(shown(o)) \in Event /\ Shows(shown(o)).kind = "Document"
  <2>1. shown(o) \in Targets
    BY <1>0 DEF Call
  <2>2. answer(o) \in Event
    BY EventTypes
  <2> HIDE DEF shown
  <2> QED BY <2>1, <2>2, EventTypes DEF Shows
<1>6. /\ answer(o).kind = IF calls[c].kind = "Lookup" THEN "Lookup" ELSE "RequestResult"
      /\ answer(o).result = o /\ (calls[c].kind = "Lookup" => answer(o).call = c)
  OBVIOUS
<1> HIDE DEF answer, shown
<1>7. ASSUME Live PROVE AnswersIn(Pipe, pending)' /\ RequestsInv'
  <2>1. AnswersIn(Pipe, pending) /\ RequestsInv
    BY <1>7 DEF AnswersInv
  <2>2. calls[c].kind = "Lookup" \/ c = pending
    BY <1>2, <2>1 DEF RequestsInv
  <2>3. due(o) \in Seq(Event) /\ session'.due = due(o) /\ session'.work = session.work \ {c}
    <3>1. due(o) \in Seq(Event)
      BY <1>5
    <3> HIDE DEF due
    <3> QED BY <1>0, <1>1, <3>1 DEF Session
  <2>4. PICK n \in Nat : /\ n = Len(due(o)) /\ n >= 1 /\ due(o)[n] = answer(o)
                         /\ \A i \in 1..n : i # n => due(o)[i].kind = "Document"
    <3>1. CASE switches(o)
      <4>1. due(o) = <<Shows(shown(o)), answer(o)>>
        BY <3>1
      <4>2. Len(due(o)) = 2 /\ due(o)[2] = answer(o) /\ due(o)[1].kind = "Document"
        BY <1>5, <4>1
      <4> HIDE DEF due
      <4> QED BY <4>2
    <3>2. CASE ~switches(o)
      <4>1. due(o) = <<answer(o)>>
        BY <3>2
      <4>2. Len(due(o)) = 1 /\ due(o)[1] = answer(o)
        BY <4>1
      <4> HIDE DEF due
      <4> QED BY <4>2
    <3> QED BY <3>1, <3>2
  <2> HIDE DEF due
  <2>5. /\ Len(Pipe) \in Nat /\ Len(Pipe') = Len(Pipe) + n
        /\ \A i \in 1..Len(Pipe) : Pipe'[i] = Pipe[i] /\ Pipe[i] \in Event
        /\ \A i \in 1..n : Pipe'[Len(Pipe) + i] = due(o)[i]
    BY <1>2, <2>3, <2>4, PipeParts, SpeakingExtendsPipe
  <2>6. ASSUME NEW i \in 1..Len(Pipe'), Pipe'[i].kind \in {"RequestResult", "Lookup"}
        PROVE  \/ i \in 1..Len(Pipe) /\ Pipe'[i] = Pipe[i]
               \/ i = Len(Pipe') /\ Pipe'[i] = answer(o)
    <3>1. CASE i \in 1..Len(Pipe)
      BY <2>5, <3>1
    <3>2. CASE i \notin 1..Len(Pipe)
      <4>1. i - Len(Pipe) \in 1..n /\ Len(Pipe) + (i - Len(Pipe)) = i
        BY <2>4, <2>5, <3>2
      <4>2. Pipe'[i] = due(o)[i - Len(Pipe)]
        BY <2>5, <4>1
      <4>3. i - Len(Pipe) = n
        BY <2>4, <2>6, <4>1, <4>2
      <4>4. i = Len(Pipe')
        BY <2>5, <4>1, <4>3
      <4> QED BY <2>4, <4>2, <4>3, <4>4
    <3> QED BY <3>1, <3>2
  <2>7. ASSUME calls[c].kind # "Lookup", NEW i \in 1..Len(Pipe) PROVE Pipe[i].kind # "RequestResult"
    BY <1>3, <2>1, <2>2, <2>7 DEF AnswersIn
  <2>8. ASSUME NEW i \in 1..Len(Pipe), Pipe[i].kind = "Lookup" PROVE Pipe[i].call \in Calls /\ Pipe[i].call # c
    <3>1. Pipe[i].call \in Calls
      BY <2>5, <2>8, EventFields
    <3> QED BY <1>3, <2>1, <2>8, <3>1, Singletons DEF AnswersIn
  <2>9. ASSUME NEW i \in 1..Len(Pipe), Pipe[i].kind = "RequestResult" PROVE pending \in Calls /\ pending # c
    <3>1. pending # NoCall /\ outcomes[pending] = <<Pipe[i].result>>
      BY <2>1, <2>9 DEF AnswersIn
    <3> QED BY <1>3, <3>1, Singletons DEF TypeOK
  <2>10. ASSUME NEW i \in 1..Len(Pipe'), Pipe'[i].kind = "RequestResult"
         PROVE  pending' # NoCall /\ outcomes'[pending'] = <<Pipe'[i].result>>
    <3>1. CASE i \in 1..Len(Pipe) /\ Pipe'[i] = Pipe[i]
      BY <1>2, <1>3, <2>1, <2>9, <2>10, <3>1 DEF AnswersIn
    <3>2. CASE Pipe'[i] = answer(o)
      BY <1>2, <1>3, <1>6, <2>2, <2>10, <3>2, ConstantsAssumption
    <3> QED BY <2>6, <2>10, <3>1, <3>2
  <2>11. ASSUME NEW i \in 1..Len(Pipe'), Pipe'[i].kind = "Lookup"
         PROVE  outcomes'[Pipe'[i].call] = <<Pipe'[i].result>>
    <3>1. CASE i \in 1..Len(Pipe) /\ Pipe'[i] = Pipe[i]
      BY <1>3, <2>1, <2>8, <2>11, <3>1 DEF AnswersIn
    <3>2. CASE Pipe'[i] = answer(o)
      BY <1>3, <1>6, <2>11, <3>2
    <3> QED BY <2>6, <2>11, <3>1, <3>2
  <2>12. ASSUME NEW i \in 1..Len(Pipe'), NEW j \in 1..Len(Pipe'),
                Pipe'[i].kind = "RequestResult", Pipe'[j].kind = "RequestResult"
         PROVE  i = j
    <3>1. CASE calls[c].kind = "Lookup"
      <4>1. i \in 1..Len(Pipe) /\ j \in 1..Len(Pipe) /\ Pipe'[i] = Pipe[i] /\ Pipe'[j] = Pipe[j]
        BY <1>6, <2>6, <2>12, <3>1
      <4> QED BY <2>1, <2>12, <4>1 DEF AnswersIn
    <3>2. CASE calls[c].kind # "Lookup"
      BY <2>6, <2>7, <2>12, <3>2
    <3> QED BY <3>1, <3>2
  <2>13. AnswersIn(Pipe, pending)'
    BY <2>10, <2>11, <2>12 DEF AnswersIn
  <2>14. RequestsInv'
    BY <1>2, <2>1, <2>3 DEF RequestsInv, InTransit
  <2> QED BY <2>13, <2>14
<1> QED BY <1>2, <1>4, <1>7 DEF AnswersInv, Live

LEMMA AnswersOfServer ==
  ASSUME TypeOK, RunInv, AnswersInv, Server
  PROVE  AnswersInv'
<1> USE DEF callerVars, flightVars, stateVars, linkVars, serverVars, boundVars
<1>0. session \in Session /\ session.due \in Seq(Event) /\ toServer \in Seq(Message)
  BY SessionFields DEF TypeOK
<1>1. UNCHANGED <<calls, pending, worker>>
  <2>1. ASSUME NEW c \in Calls, SessionRuns(c) \/ RunsLate(c) PROVE UNCHANGED <<calls, pending, worker>>
    BY <2>1 DEF SessionRuns, RunsLate
  <2> QED BY <2>1 DEF Server, SessionReceives, SessionPublishes, SessionSpeaks, SessionTimesOut, SessionDies
<1>2. ASSUME outcomes' = outcomes PROVE AnswersAreTheirOwn'
  BY <1>1, <1>2 DEF AnswersInv, AnswersAreTheirOwn
<1>3. \A c \in Calls : ReplyStep(c)
  BY <1>1 DEF ReplyStep
<1>4. CASE SessionReceives
  <2> DEFINE message == Head(toServer)
  <2>1. /\ session.due = <<>> /\ toServer # <<>> /\ toServer' = Tail(toServer) /\ UNCHANGED <<outcomes, toClient>>
        /\ message \in Message
    BY <1>0, <1>4 DEF SessionReceives
  <2>2. /\ InTransit' = InTransit \ {message.call} /\ (message.call # NoCall => message.call \in InTransit)
    BY <1>0, <2>1, CommandsOfTail DEF InTransit, RunInv
  <2>3. CASE message.call = NoCall
    <3> DEFINE due == <<Greets, Shows(message.target)>>
    <3>1. session' = [session EXCEPT !.greeted = TRUE, !.target = message.target, !.due = due]
      BY <1>4, <2>3 DEF SessionReceives
    <3>2. message.target \in Targets
      BY <2>1 DEF Message
    <3> HIDE DEF message
    <3>3. due \in Seq(Event)
      BY <3>2, EventTypes
    <3>4. \A i \in 1..Len(due) : due[i].kind \notin {"RequestResult", "Lookup"}
      BY DEF Greets, Shows
    <3> HIDE DEF due
    <3>5. session'.due = due /\ session'.work = session.work
      BY <1>0, <3>1 DEF Session
    <3>6. ASSUME Live PROVE AnswersIn(Pipe, pending)' /\ RequestsInv'
      <4>1. AnswersIn(Pipe, pending)' /\ RequestsInv
        BY <1>1, <2>1, <3>3, <3>4, <3>5, <3>6, SpeakingKeepsAnswers DEF AnswersInv
      <4> QED BY <1>1, <2>2, <3>5, <4>1 DEF RequestsInv
    <3> QED BY <1>1, <1>2, <2>1, <3>6 DEF AnswersInv, Live
  <2>4. CASE message.call # NoCall
    <3>1. session' = [session EXCEPT !.work = @ \cup {message.call}]
      BY <1>4, <2>4 DEF SessionReceives
    <3> HIDE DEF message
    <3>2. session'.due = session.due /\ session'.work = session.work \cup {message.call}
      BY <1>0, <3>1 DEF Session
    <3>3. Pipe' = Pipe /\ (InTransit \cup session.work)' = InTransit \cup session.work
      BY <2>1, <2>2, <2>4, <3>2 DEF Pipe
    <3> QED BY <1>1, <1>2, <1>3, <2>1, <3>3, OthersKeepAnswers DEF AnswersInv, Live
  <2> QED BY <2>3, <2>4
<1>5. CASE SessionPublishes
  <2>1. /\ Pipe' = Pipe /\ UNCHANGED <<outcomes, toServer>> /\ session'.work = session.work
    BY <1>0, <1>5, PublishingKeepsPipe DEF SessionPublishes, Session
  <2>2. (InTransit \cup session.work)' = InTransit \cup session.work
    BY <2>1 DEF InTransit
  <2> QED BY <1>1, <1>2, <1>3, <2>1, <2>2, OthersKeepAnswers DEF AnswersInv, Live
<1>6. CASE SessionSpeaks
  <2>1. PICK event \in Event : /\ session' = [session EXCEPT !.due = <<event>>]
                               /\ event.kind \notin {"RequestResult", "Lookup"}
    <3>1. session.target \in Targets
      BY SessionFields DEF TypeOK
    <3> QED BY <1>6, <3>1, EventTypes, ZenonT(60) DEF SessionSpeaks, Greets, Shows
  <2> DEFINE due == <<event>>
  <2>2. due \in Seq(Event) /\ \A i \in 1..Len(due) : due[i].kind \notin {"RequestResult", "Lookup"}
    BY <2>1
  <2>3. session' = [session EXCEPT !.due = due]
    BY <2>1
  <2> HIDE DEF due
  <2>4. session'.due = due /\ session'.work = session.work
    BY <1>0, <2>3 DEF Session
  <2>5. session.due = <<>> /\ UNCHANGED <<outcomes, toClient, toServer>>
    BY <1>6 DEF SessionSpeaks
  <2>6. ASSUME Live PROVE AnswersIn(Pipe, pending)' /\ RequestsInv'
    <3>1. AnswersIn(Pipe, pending)' /\ RequestsInv
      BY <1>1, <2>2, <2>4, <2>5, <2>6, SpeakingKeepsAnswers DEF AnswersInv
    <3> QED BY <1>1, <2>4, <2>5, <3>1 DEF RequestsInv, InTransit
  <2> QED BY <1>1, <1>2, <2>5, <2>6 DEF AnswersInv, Live
<1>7. CASE SessionTimesOut \/ SessionDies
  <2>1. UNCHANGED <<outcomes, toClient, toServer, session>>
    BY <1>7 DEF SessionTimesOut, SessionDies
  <2>2. Pipe' = Pipe /\ (InTransit \cup session.work)' = InTransit \cup session.work
    BY <2>1 DEF Pipe, InTransit
  <2> QED BY <1>1, <1>2, <1>3, <2>1, <2>2, OthersKeepAnswers DEF AnswersInv, Live
<1>8. ASSUME NEW c \in Calls, RunsLate(c) PROVE AnswersInv'
  <2>1. PICK o \in {"ok", "rejected"} : outcomes' = [outcomes EXCEPT ![c] = Append(@, o)]
    BY <1>8 DEF RunsLate
  <2>2. UNCHANGED <<toClient, toServer, session>> /\ c \in late
    BY <1>8 DEF RunsLate
  <2>3. outcomes[c] = <<>> /\ \A d \in Calls : d # c => outcomes'[d] = outcomes[d]
    BY <2>1, <2>2 DEF RunInv, AtServer, TypeOK
  <2>4. AnswersAreTheirOwn'
    BY <1>1, <2>3, Singletons DEF AnswersInv, AnswersAreTheirOwn
  <2>5. ASSUME Live PROVE AnswersIn(Pipe, pending)' /\ RequestsInv'
    <3>1. Pipe' = Pipe /\ InTransit' = InTransit /\ AnswersIn(Pipe, pending) /\ RequestsInv
      BY <2>2, <2>5 DEF AnswersInv, Pipe, InTransit
    <3>2. \A i \in 1..Len(Pipe) : Pipe[i].kind = "RequestResult" => pending \in Calls /\ pending # c
      BY <2>3, <3>1, Singletons DEF AnswersIn, TypeOK
    <3>3. \A i \in 1..Len(Pipe) : Pipe[i].kind = "Lookup" => Pipe[i].call \in Calls /\ Pipe[i].call # c
      <4> TAKE i \in 1..Len(Pipe)
      <4>1. Pipe[i] \in Event
        BY PipeParts
      <4>2. Pipe[i].kind = "Lookup" => Pipe[i].call \in Calls /\ outcomes[Pipe[i].call] = <<Pipe[i].result>>
        BY <3>1, <4>1, EventFields DEF AnswersIn
      <4> QED BY <2>3, <4>2, Singletons
    <3>4. AnswersIn(Pipe, pending)'
      BY <1>1, <2>3, <3>1, <3>2, <3>3 DEF AnswersIn
    <3> QED BY <1>1, <2>2, <3>1, <3>4 DEF RequestsInv
  <2> QED BY <1>1, <2>4, <2>5 DEF AnswersInv, Live
<1>9. ASSUME NEW c \in Calls, SessionRuns(c) PROVE AnswersInv'
  BY <1>9, AnswersOfRunning
<1> QED BY <1>4, <1>5, <1>6, <1>7, <1>8, <1>9 DEF Server

LEMMA AnswersAreKept ==
  ASSUME TypeOK, CallsInv, RunInv, AnswersInv, [Next]_vars
  PROVE  AnswersInv'
<1>1. CASE Quiet \/ UNCHANGED vars
  <2>1. UNCHANGED allVars
    BY <1>1, NothingChanges
  <2> QED BY <2>1 DEF allVars, AnswersInv, AnswersAreTheirOwn, Live, Pipe, AnswersIn, RequestsInv, InTransit
<1> QED BY <1>1, AnswersOfClient, AnswersOfServer DEF Next

-----------------------------------------------------------------------------
(* Together.                                                                *)

\* The inductive invariant of the client with any server.
IInv == TypeOK /\ CallsInv /\ RunInv /\ AnswersInv

LEMMA IInvInitially == Init => IInv
BY TypesInitially, CallsInitially, RunsInitially, AnswersInitially DEF IInv

LEMMA IInvIsKept == IInv /\ [Next]_vars => IInv'
<1> SUFFICES ASSUME IInv, [Next]_vars PROVE IInv'
  OBVIOUS
<1>1. TypeOK /\ CallsInv /\ RunInv /\ AnswersInv /\ (worker = "sending" => sending # NoCall)
  BY DEF IInv, CallsInv
<1>2. TypeOK'
  BY <1>1, TypesAreKept
<1> QED BY <1>1, <1>2, CallsAreKept, RunsAreKept, AnswersAreKept DEF IInv

\* The inductive invariant: every call is in one place, every command at most one place of the server
\* and run once, and the answers under way are those of the calls they will be given to.
THEOREM Invariance == Spec => []IInv
BY IInvInitially, IInvIsKept, PTL DEF Spec

\* Every variable of the client, of the connection and of the server's end keeps its type.
THEOREM TypeCorrectness == Spec => []TypeOK
<1>1. IInv => TypeOK
  BY DEF IInv
<1> QED BY <1>1, Invariance, PTL

\* A call that waits is held in one place, and what is held waits: no connection that ends loses a reply
\* of `request`, `lookup` or `close`, and none is answered twice.
THEOREM EveryCallIsSomewhereHolds == Spec => []EveryCallIsSomewhere
<1>1. IInv => EveryCallIsSomewhere
  BY DEF IInv, CallsInv
<1> QED BY <1>1, Invariance, PTL

\* However connections break and come back, the worker sends no command a second time: the server runs
\* each at most once.
THEOREM CommandsRunOnceHolds == Spec => []CommandsRunOnce
<1>1. IInv => CommandsRunOnce
  BY DEF IInv, RunInv
<1> QED BY <1>1, Invariance, PTL

\* A RequestResult names no request, and yet the caller it answers is the one whose command was run.
THEOREM AnswersAreTheirOwnHolds == Spec => []AnswersAreTheirOwn
<1>1. IInv => AnswersAreTheirOwn
  BY DEF IInv, AnswersInv
<1> QED BY <1>1, Invariance, PTL

-----------------------------------------------------------------------------
(* What Disconnected means, but of a call whose own write timed out with its *)
(* frame on the way.                                                        *)

\* A change that was reported Disconnected did not run, and the server does not have it.
DisconnectedInv ==
  \A c \in Calls \ written :
    calls[c].kind \in {"Apply", "Submit", "Cancel"} /\ calls[c].reply = "Disconnected" =>
      outcomes[c] = <<>> /\ c \notin AtServer

LEMMA DisconnectedInitially == Init => DisconnectedInv
BY DEF Init, Unused, DisconnectedInv

LEMMA DisconnectedOfClient ==
  ASSUME IInv, DisconnectedInv, Caller \/ Connection \/ Between
  PROVE  DisconnectedInv'
<1> USE DEF callerVars, flightVars, stateVars, linkVars, serverVars, boundVars, EndConnection
<1>0. TypeOK /\ CallsInv /\ RunInv /\ AnswersInv
  BY DEF IInv
<1>1. outcomes' = outcomes
  <2>1. ASSUME NEW c \in Calls, MakeCall(c) PROVE outcomes' = outcomes
    BY <2>1 DEF MakeCall
  <2>2. CASE Caller
    BY <2>1, <2>2 DEF Caller, DropHandle
  <2>3. CASE Connection
    BY <2>3 DEF Connection, Greet, Sent, SendingFails, TakeCommand, TakeLookup, ReceiveEvent, RefuseEvent,
                ReceiveFails, HandleGone
  <2>4. CASE Between
    BY <2>4 DEF Between, Close, Reconnect, RefuseCall, StopReconnecting
  <2> QED BY <2>2, <2>3, <2>4
<1>2. \/ AtServer' = AtServer
      \/ AtServer' = AtServer \cup {sending} /\ calls' = calls /\ calls[sending].reply = "waiting"
      \/ AtServer' = AtServer \cup {sending} /\ sending \in written'
  <2>1. CASE Sent
    <3>1. /\ worker = "sending" /\ UNCHANGED <<calls, session, late>>
          /\ toServer' = toServer \/ toServer' = Append(toServer, Command(sending))
      BY <2>1 DEF Sent, SendTo
    <3>2. /\ sending \in Calls /\ sending # NoCall /\ calls[sending].reply = "waiting"
          /\ toServer \in Seq(Message) /\ calls \in [Calls -> Call]
      BY <1>0, <3>1 DEF TypeOK, CallsInv, EveryCallIsSomewhere, Underway, Waiting
    <3>3. Command(sending) \in Message /\ Command(sending).call = sending
      BY <3>2, MessageTypes DEF Command
    <3>4. InTransit' = InTransit \/ InTransit' = InTransit \cup {sending}
      BY <3>1, <3>2, <3>3, CommandsOfAppend DEF InTransit
    <3> QED BY <3>1, <3>2, <3>4 DEF AtServer
  <2>2. CASE Greet
    <3>1. /\ UNCHANGED <<session, late>>
          /\ toServer' = toServer \/ toServer' = Append(toServer, Hello(resume))
      BY <2>2 DEF Greet, SendTo, SendFails
    <3>2. toServer \in Seq(Message) /\ Hello(resume) \in Message /\ Hello(resume).call = NoCall
      BY <1>0, MessageTypes DEF TypeOK, Hello
    <3>3. CommandsOf(Append(toServer, Hello(resume))) = CommandsOf(toServer) \cup ({NoCall} \ {NoCall})
      BY <3>2, CommandsOfAppend
    <3> QED BY <3>1, <3>3 DEF AtServer, InTransit
  <2>3. CASE Reconnect
    BY <2>3 DEF Reconnect, NewSession, AtServer, InTransit, CommandsOf
  <2>4. CASE SendingFails
    <3>1. /\ worker = "sending" /\ UNCHANGED <<session, late>>
          /\ toServer' = toServer \/ toServer' = Append(toServer, Command(sending))
          /\ written' = IF toServer' = toServer THEN written ELSE written \cup {sending}
      BY <2>4 DEF SendingFails, SendFails
    <3>2. CASE toServer' = toServer
      BY <3>1, <3>2 DEF AtServer, InTransit
    <3>3. CASE toServer' # toServer
      <4>1. /\ sending \in Calls /\ sending # NoCall
            /\ toServer \in Seq(Message) /\ calls \in [Calls -> Call]
        BY <1>0, <3>1 DEF TypeOK, CallsInv
      <4>2. Command(sending) \in Message /\ Command(sending).call = sending
        BY <4>1, MessageTypes DEF Command
      <4>3. InTransit' = InTransit \cup {sending}
        BY <3>1, <3>3, <4>1, <4>2, CommandsOfAppend DEF InTransit
      <4> QED BY <3>1, <3>3, <4>3 DEF AtServer
    <3> QED BY <3>2, <3>3
  <2>5. CASE ~Sent /\ ~Greet /\ ~Reconnect /\ ~SendingFails
    <3>1. UNCHANGED <<toServer, session, late>>
      <4>1. ASSUME NEW c \in Calls, MakeCall(c) PROVE UNCHANGED <<toServer, session, late>>
        BY <4>1 DEF MakeCall
      <4>2. CASE Caller
        BY <4>1, <4>2 DEF Caller, DropHandle
      <4>3. CASE Connection
        BY <2>5, <4>3 DEF Connection, TakeCommand, TakeLookup, ReceiveEvent, RefuseEvent, ReceiveFails, HandleGone
      <4>4. CASE Between
        BY <2>5, <4>4 DEF Between, Close, RefuseCall, StopReconnecting
      <4> QED BY <4>2, <4>3, <4>4
    <3> QED BY <3>1 DEF AtServer, InTransit
  <2> QED BY <2>1, <2>2, <2>3, <2>4, <2>5
<1>3. ASSUME NEW c \in Calls, calls'[c].kind \in {"Apply", "Submit", "Cancel"}, calls'[c].reply = "Disconnected"
      PROVE  \/ calls[c].kind = calls'[c].kind /\ calls[c].reply = "Disconnected"
             \/ c \in Unsent
  <2>1. CASE ReceiveEvent
    <3> DEFINE event == Head(toClient)
    <3>1. /\ event \in Event /\ pending \in Calls \cup {NoCall}
          /\ \/ calls' = calls
             \/ event.kind = "RequestResult" /\ Reply({pending}, event.result)
             \/ event.kind = "Lookup" /\ Reply({event.call} \cap outstanding, event.result)
      BY <1>0, <2>1 DEF ReceiveEvent, TypeOK
    <3> HIDE DEF event
    <3>2. CASE calls' = calls
      BY <1>3, <3>2
    <3>3. ASSUME NEW answered, NEW reply \in {"ok", "rejected"}, Reply(answered, reply)
          PROVE  calls[c].kind = calls'[c].kind /\ calls[c].reply = "Disconnected"
      <4>1. reply \in Replies /\ calls \in [Calls -> Call]
        BY <1>0 DEF Replies, TypeOK
      <4>2. Settles(answered) /\ (c \in answered => calls'[c].reply = reply)
        BY <3>3, <4>1, ReplySettles
      <4> QED BY <1>3, <4>2 DEF Settles
    <3> QED BY <3>1, <3>2, <3>3, EventFields
  <2>2. CASE ~ReceiveEvent
    <3>1. ReplyStep(c)
      BY <1>0, <2>2, RepliesOfClient
    <3> QED BY <1>3, <3>1 DEF ReplyStep
  <2> QED BY <2>1, <2>2
<1>5. written \subseteq written'
  <2>1. ASSUME NEW c \in Calls, MakeCall(c) PROVE written' = written
    BY <2>1 DEF MakeCall
  <2>2. CASE Caller
    BY <2>1, <2>2 DEF Caller, DropHandle
  <2>3. CASE Connection
    BY <2>3 DEF Connection, Greet, Sent, SendingFails, TakeCommand, TakeLookup, ReceiveEvent, RefuseEvent,
                ReceiveFails, HandleGone
  <2>4. CASE Between
    BY <2>4 DEF Between, Close, Reconnect, RefuseCall, StopReconnecting
  <2> QED BY <2>2, <2>3, <2>4
<1>4. ASSUME NEW c \in Calls \ written',
             calls'[c].kind \in {"Apply", "Submit", "Cancel"}, calls'[c].reply = "Disconnected"
      PROVE  outcomes'[c] = <<>> /\ c \notin AtServer'
  <2>1. outcomes[c] = <<>> /\ c \notin AtServer
    <3>1. CASE calls[c].kind = calls'[c].kind /\ calls[c].reply = "Disconnected"
      BY <1>4, <1>5, <3>1 DEF DisconnectedInv
    <3>2. CASE c \in Unsent
      BY <1>0, <3>2 DEF RunInv
    <3> QED BY <1>3, <1>4, <3>1, <3>2
  <2>2. c \notin AtServer'
    <3>1. CASE AtServer' = AtServer
      BY <2>1, <3>1
    <3>2. CASE AtServer' = AtServer \cup {sending} /\ calls' = calls /\ calls[sending].reply = "waiting"
      BY <1>4, <2>1, <3>2
    <3>3. CASE AtServer' = AtServer \cup {sending} /\ sending \in written'
      BY <1>4, <2>1, <3>3
    <3> QED BY <1>2, <3>1, <3>2, <3>3
  <2> QED BY <1>1, <2>1, <2>2
<1> QED BY <1>4 DEF DisconnectedInv

LEMMA DisconnectedOfServer ==
  ASSUME IInv, DisconnectedInv, Server
  PROVE  DisconnectedInv'
<1> USE DEF callerVars, flightVars, stateVars, linkVars, serverVars, boundVars
<1>0. /\ TypeOK /\ RunInv /\ session \in Session /\ toServer \in Seq(Message)
      /\ outcomes \in [Calls -> Seq({"ok", "rejected"})]
  BY DEF IInv, TypeOK
<1>1. calls' = calls /\ written' = written
  <2>1. ASSUME NEW c \in Calls, SessionRuns(c) \/ RunsLate(c) PROVE calls' = calls /\ written' = written
    BY <2>1 DEF SessionRuns, RunsLate
  <2> QED BY <2>1 DEF Server, SessionReceives, SessionPublishes, SessionSpeaks, SessionTimesOut, SessionDies
<1>2. AtServer' \subseteq AtServer /\ \A c \in Calls : c \in AtServer \/ outcomes'[c] = outcomes[c]
  <2>1. CASE SessionReceives
    <3> DEFINE message == Head(toServer)
    <3>1. toServer # <<>> /\ toServer' = Tail(toServer) /\ UNCHANGED <<late, outcomes>>
      BY <2>1 DEF SessionReceives
    <3>2. InTransit' = InTransit \ {message.call} /\ (message.call # NoCall => message.call \in InTransit)
      BY <1>0, <3>1, CommandsOfTail DEF InTransit, RunInv
    <3>3. session'.work = IF message.call = NoCall THEN session.work ELSE session.work \cup {message.call}
      BY <1>0, <2>1 DEF SessionReceives, Session
    <3> HIDE DEF message
    <3> QED BY <3>1, <3>2, <3>3 DEF AtServer
  <2>2. ASSUME NEW c \in Calls, SessionRuns(c)
        PROVE  AtServer' \subseteq AtServer /\ \A d \in Calls : d \in AtServer \/ outcomes'[d] = outcomes[d]
    <3>1. PICK o : outcomes' = [outcomes EXCEPT ![c] = Append(@, o)]
      BY <2>2 DEF SessionRuns
    <3>2. toServer' = toServer /\ late' = late /\ c \in session.work /\ session'.work = session.work \ {c}
      BY <1>0, <2>2 DEF SessionRuns, Session
    <3> QED BY <1>0, <3>1, <3>2 DEF AtServer, InTransit
  <2>3. ASSUME NEW c \in Calls, RunsLate(c)
        PROVE  AtServer' \subseteq AtServer /\ \A d \in Calls : d \in AtServer \/ outcomes'[d] = outcomes[d]
    <3>1. PICK o : outcomes' = [outcomes EXCEPT ![c] = Append(@, o)]
      BY <2>3 DEF RunsLate
    <3>2. toServer' = toServer /\ session' = session /\ c \in late /\ late' = late \ {c}
      BY <2>3 DEF RunsLate
    <3> QED BY <1>0, <3>1, <3>2 DEF AtServer, InTransit
  <2>4. CASE SessionPublishes \/ SessionSpeaks \/ SessionTimesOut \/ SessionDies
    <3>1. UNCHANGED <<toServer, late, outcomes>>
      BY <2>4 DEF SessionPublishes, SessionSpeaks, SessionTimesOut, SessionDies
    <3>2. session'.work = session.work
      <4>1. ASSUME NEW due, session' = [session EXCEPT !.due = due] PROVE session'.work = session.work
        BY <1>0, <4>1 DEF Session
      <4> QED BY <2>4, <4>1 DEF SessionPublishes, SessionSpeaks, SessionTimesOut, SessionDies
    <3> QED BY <3>1, <3>2 DEF AtServer, InTransit
  <2> QED BY <2>1, <2>2, <2>3, <2>4 DEF Server
<1> QED BY <1>1, <1>2 DEF DisconnectedInv

\* A change of the repository, or a completed review, that is reported "connection closed" did not and
\* will not happen, over any transport and whatever else fails, unless the write of that very command was
\* given up (WRITE_TIMEOUT) and its frame arrived all the same.
THEOREM DisconnectedDidNotRunHolds == Spec => []DisconnectedDidNotRun
<1>1. Init => IInv /\ DisconnectedInv
  BY IInvInitially, DisconnectedInitially
<1>2. IInv /\ DisconnectedInv /\ [Next]_vars => (IInv /\ DisconnectedInv)'
  <2> SUFFICES ASSUME IInv, DisconnectedInv, [Next]_vars PROVE DisconnectedInv'
    BY IInvIsKept
  <2>1. CASE Quiet \/ UNCHANGED vars
    BY <2>1, NothingChanges DEF allVars, DisconnectedInv, AtServer, InTransit
  <2> QED BY <2>1, DisconnectedOfClient, DisconnectedOfServer DEF Next
<1>3. DisconnectedInv => DisconnectedDidNotRun
  BY DEF DisconnectedInv, DisconnectedDidNotRun
<1> QED BY <1>1, <1>2, <1>3, PTL DEF Spec

-----------------------------------------------------------------------------
(* The target that is asked for, when the server keeps to the protocol.     *)

\* From one event on, every document is of one target.
ShowsOnly(events, first, t) ==
  \A i \in 1..Len(events) : i >= first /\ events[i].kind = "Document" => events[i].target = t

\* A session speaks only once it received the client's hello, and the client sends nothing but its
\* hello before the session spoke.
ConnectionInv ==
  /\ worker = "greeting" => toServer = <<>> /\ ~session.greeted
  /\ worker = "sending" => initialized
  /\ ~session.greeted => /\ ~initialized /\ session.work = {}
                         /\ Len(toServer) <= 1 /\ \A i \in 1..Len(toServer) : toServer[i] = Hello(resume)
                         /\ \A i \in 1..Len(Pipe) : Pipe[i].kind = "Error"
  /\ session.greeted => \A i \in 1..Len(toServer) : toServer[i].call # NoCall

\* The answer to a switch comes right after the document it switched to, and everything after it is of
\* that target.
SwitchUnderway(events, t) ==
  \A k \in 1..Len(events) : events[k].kind = "RequestResult" /\ events[k].result = "ok" =>
    /\ session.target = t /\ ShowsOnly(events, k, t)
    /\ IF k = 1 THEN resume = t ELSE events[k - 1] = Shows(t)

SwitchPending == pending # NoCall /\ calls[pending].kind = "SetTarget"

\* A session that greeted shows the target of the last switch, unless another is pending.
ShownInv == session.greeted /\ switched # NoTarget => session.target = switched /\ ShowsOnly(Pipe, 1, switched)
SwitchInv == SwitchPending => SwitchUnderway(Pipe, calls[pending].target)

TargetInv ==
  /\ SwitchIsKept
  /\ SwitchPending => switched = NoTarget
  /\ Live => ConnectionInv /\ ShownInv /\ SwitchInv

LEMMA TargetInitially == Init => TargetInv
<1> SUFFICES ASSUME Init PROVE TargetInv
  OBVIOUS
<1>1. /\ switched = NoTarget /\ pending = NoCall /\ worker = "greeting" /\ ~initialized
      /\ toServer = <<>> /\ toClient = <<>> /\ session.due = <<>> /\ session.work = {} /\ ~session.greeted
  BY DEF Init, NewSession
<1>2. Len(Pipe) = 0 /\ Len(toServer) = 0
  BY <1>1 DEF Pipe
<1> QED BY <1>1, <1>2 DEF TargetInv, SwitchIsKept, SwitchPending, ConnectionInv, ShownInv, SwitchInv

\* The request that is pending was made already: no step changes what it asks for.
LEMMA PendingIsKept ==
  ASSUME TypeOK, CallsInv, pending # NoCall, \A c \in Calls : ReplyStep(c)
  PROVE  calls'[pending].kind = calls[pending].kind /\ calls'[pending].target = calls[pending].target
<1>1. pending \in Calls /\ calls[pending].reply = "waiting"
  BY DEF TypeOK, CallsInv, EveryCallIsSomewhere, Underway, Waiting
<1> QED BY <1>1 DEF ReplyStep

\* Nothing that was shown or asked for changes.
LEMMA OthersKeepTarget ==
  ASSUME TypeOK, CallsInv, TargetInv, \A c \in Calls : ReplyStep(c),
         UNCHANGED <<resume, pending, session, toServer, toClient, initialized>>, switched' \in {switched, NoTarget},
         Live' => Live,
         Live' => worker' = worker \/ (worker' = "sending" /\ initialized)
  PROVE  TargetInv'
<1>1. SwitchIsKept' /\ (SwitchPending' => SwitchPending) /\ (SwitchPending => calls'[pending].target = calls[pending].target)
  BY PendingIsKept DEF TargetInv, SwitchIsKept, SwitchPending
<1>2. SwitchPending' => switched' = NoTarget
  BY <1>1 DEF TargetInv
<1>3. ASSUME Live' PROVE ConnectionInv' /\ ShownInv' /\ SwitchInv'
  <2>1. ConnectionInv /\ ShownInv /\ SwitchInv /\ Pipe' = Pipe
    BY <1>3 DEF TargetInv, Pipe
  <2>2. ConnectionInv'
    BY <1>3, <2>1 DEF ConnectionInv
  <2>3. ShownInv'
    BY <2>1 DEF ShownInv, ShowsOnly
  <2>4. SwitchInv'
    <3>1. SwitchPending' => SwitchPending /\ calls'[pending'].target = calls[pending].target
      BY <1>1
    <3> QED BY <2>1, <3>1 DEF SwitchInv, SwitchUnderway, ShowsOnly
  <2> QED BY <2>2, <2>3, <2>4
<1> QED BY <1>1, <1>2, <1>3 DEF TargetInv

LEMMA TargetOfSent ==
  ASSUME TypeOK, CallsInv, AnswersInv, TargetInv, Sent
  PROVE  TargetInv'
<1> USE DEF callerVars, flightVars, stateVars, linkVars, serverVars, boundVars
<1>1. /\ worker = "sending" /\ worker' = "serving" /\ UNCHANGED <<calls, resume, session, toClient, initialized>>
      /\ toServer' = toServer \/ toServer' = Append(toServer, Command(sending))
      /\ pending' = IF IsRequest(sending) THEN sending ELSE pending
      /\ switched' = IF calls[sending].kind = "SetTarget" THEN NoTarget ELSE switched
  BY DEF Sent, SendTo
<1>2. /\ sending \in Calls /\ calls[sending].kind # "Close" /\ (IsRequest(sending) => pending = NoCall)
      /\ toServer \in Seq(Message) /\ calls \in [Calls -> Call] /\ NoCall \notin Calls
  BY <1>1, ConstantsAssumption DEF TypeOK, CallsInv
<1>3. Command(sending) \in Message /\ Command(sending).call = sending
  BY <1>2, MessageTypes DEF Command
<1>4. ConnectionInv /\ ShownInv /\ SwitchInv /\ AnswersIn(Pipe, pending) /\ initialized /\ session.greeted /\ Pipe' = Pipe
  BY <1>1 DEF TargetInv, AnswersInv, Live, ConnectionInv, Pipe
<1>5. SwitchIsKept'
  BY <1>1 DEF TargetInv, SwitchIsKept
<1>6. SwitchPending' => switched' = NoTarget
  <2>1. CASE IsRequest(sending)
    BY <1>1, <1>2, <2>1 DEF SwitchPending
  <2>2. CASE ~IsRequest(sending)
    BY <1>1, <2>2 DEF SwitchPending, TargetInv, IsRequest
  <2> QED BY <2>1, <2>2
<1>7. ConnectionInv'
  <2>1. ASSUME NEW i \in 1..Len(toServer') PROVE toServer'[i].call # NoCall
    <3>1. CASE toServer' = toServer
      BY <1>4, <2>1, <3>1 DEF ConnectionInv
    <3>2. CASE toServer' = Append(toServer, Command(sending))
      <4>1. /\ Len(toServer) \in Nat /\ Len(toServer') = Len(toServer) + 1
            /\ \A j \in 1..Len(toServer) : toServer'[j] = toServer[j]
            /\ toServer'[Len(toServer) + 1] = Command(sending)
        BY <1>2, <1>3, <3>2
      <4>2. i \in 1..Len(toServer) \/ i = Len(toServer) + 1
        BY <4>1
      <4> QED BY <1>2, <1>3, <1>4, <4>1, <4>2 DEF ConnectionInv
    <3> QED BY <1>1, <3>1, <3>2
  <2> QED BY <1>1, <1>4, <2>1 DEF ConnectionInv
<1>8. ShownInv'
  BY <1>1, <1>4 DEF ShownInv, ShowsOnly
<1>9. SwitchInv'
  <2>1. CASE IsRequest(sending)
    <3>1. \A k \in 1..Len(Pipe) : Pipe[k].kind # "RequestResult"
      BY <1>2, <1>4, <2>1 DEF AnswersIn
    <3> QED BY <1>4, <3>1 DEF SwitchInv, SwitchUnderway
  <2>2. CASE ~IsRequest(sending)
    BY <1>1, <1>4, <2>2 DEF SwitchInv, SwitchPending, SwitchUnderway, ShowsOnly
  <2> QED BY <2>1, <2>2
<1> QED BY <1>5, <1>6, <1>7, <1>8, <1>9 DEF TargetInv

LEMMA TargetOfReceiving ==
  ASSUME TypeOK, CallsInv, AnswersInv, TargetInv, ReceiveEvent
  PROVE  TargetInv'
<1> DEFINE event == Head(toClient)
<1> USE DEF callerVars, flightVars, stateVars, linkVars, serverVars, boundVars, EndConnection
<1>1. /\ worker = "serving" /\ toClient # <<>> /\ toClient' = Tail(toClient) /\ event \in Event
      /\ UNCHANGED <<session, toServer>>
  BY DEF ReceiveEvent, TypeOK
<1>2. \/ /\ event.kind = "RequestResult" /\ pending' = NoCall /\ resume' = resume
         /\ pending # NoCall => switched' = IF event.result = "ok" /\ calls[pending].kind = "SetTarget"
                                            THEN calls[pending].target ELSE switched
      \/ /\ event.kind \in {"Lookup", "Initialize", "Health"}
         /\ UNCHANGED <<pending, resume, switched>>
      \/ /\ event.kind = "Document" /\ UNCHANGED <<pending, switched>> /\ resume' = event.target
      \/ event.kind = "Error" /\ worker' = "closing" /\ UNCHANGED <<pending, resume, switched>>
  BY DEF ReceiveEvent, Follow
<1>3. /\ Len(Pipe) >= 1 /\ Pipe[1] = event /\ Len(Pipe) \in Nat
      /\ Len(Pipe') = Len(Pipe) - 1 /\ \A i \in 1..Len(Pipe') : Pipe'[i] = Pipe[i + 1]
  <2>1. Len(Pipe) \in Nat
    BY PipeParts
  <2> QED BY <1>1, <2>1, ReceivingShortensPipe
<1>4. worker' \in {"serving", "closing"}
  BY <1>1 DEF ReceiveEvent
<1>12. \A c \in Calls : calls'[c].kind = calls[c].kind /\ calls'[c].target = calls[c].target
  <2>1. /\ pending \in Calls \cup {NoCall} /\ calls \in [Calls -> Call]
        /\ \/ calls' = calls
           \/ event.kind = "RequestResult" /\ Reply({pending}, event.result)
           \/ event.kind = "Lookup" /\ Reply({event.call} \cap outstanding, event.result)
    BY DEF ReceiveEvent, TypeOK
  <2> HIDE DEF event
  <2>2. ASSUME NEW answered, NEW reply \in {"ok", "rejected"}, Reply(answered, reply)
        PROVE  \A c \in Calls : calls'[c].kind = calls[c].kind /\ calls'[c].target = calls[c].target
    <3>1. reply \in Replies
      BY DEF Replies
    <3>2. Settles(answered)
      BY <2>1, <2>2, <3>1, ReplySettles
    <3> QED BY <3>2 DEF Settles
  <2> QED BY <1>1, <2>1, <2>2, EventFields
<1> HIDE DEF event
<1>5. /\ SwitchIsKept /\ (SwitchPending => switched = NoTarget) /\ ConnectionInv /\ ShownInv /\ SwitchInv
      /\ AnswersIn(Pipe, pending) /\ pending \in Calls \cup {NoCall}
  BY <1>1 DEF TargetInv, Live, AnswersInv, TypeOK
<1>6. 1 \in 1..Len(Pipe) /\ \A i \in 1..Len(Pipe') : i + 1 \in 1..Len(Pipe) /\ i + 1 >= 1 /\ i + 1 - 1 = i
  BY <1>3
<1>7. event.kind = "RequestResult" => pending # NoCall
  BY <1>3, <1>5, <1>6 DEF AnswersIn
<1>8. event.kind # "Error" => session.greeted
  BY <1>3, <1>5, <1>6 DEF ConnectionInv
<1>9. CASE event.kind = "RequestResult"
  <2>1. /\ pending' = NoCall /\ resume' = resume /\ pending # NoCall /\ pending \in Calls
        /\ switched' = IF event.result = "ok" /\ calls[pending].kind = "SetTarget"
                       THEN calls[pending].target ELSE switched
    BY <1>2, <1>5, <1>7, <1>9
  <2>2. CASE event.result = "ok" /\ calls[pending].kind = "SetTarget"
    <3> DEFINE t == calls[pending].target
    <3>1. session.target = t /\ ShowsOnly(Pipe, 1, t) /\ resume = t
      BY <1>3, <1>5, <1>6, <1>9, <2>1, <2>2 DEF SwitchInv, SwitchPending, SwitchUnderway
    <3>2. SwitchIsKept'
      BY <2>1, <2>2, <3>1 DEF SwitchIsKept
    <3>3. ShownInv'
      <4>1. ASSUME NEW i \in 1..Len(Pipe'), Pipe'[i].kind = "Document" PROVE Pipe'[i].target = t
        BY <1>3, <1>6, <3>1, <4>1 DEF ShowsOnly
      <4> HIDE DEF t
      <4>2. switched' = t
        BY <2>1, <2>2 DEF t
      <4> QED BY <1>1, <3>1, <4>1, <4>2 DEF ShownInv, ShowsOnly
    <3> QED BY <1>1, <1>5, <1>8, <1>9, <2>1, <3>2, <3>3, <1>4 DEF TargetInv, SwitchPending, SwitchInv, ConnectionInv, Live
  <2>3. CASE ~(event.result = "ok" /\ calls[pending].kind = "SetTarget")
    <3>1. switched' = switched
      BY <2>1, <2>3
    <3>2. SwitchIsKept'
      BY <1>5, <2>1, <3>1 DEF SwitchIsKept
    <3>3. ShownInv'
      <4>1. ASSUME session.greeted, switched # NoTarget, NEW i \in 1..Len(Pipe'), Pipe'[i].kind = "Document"
            PROVE  Pipe'[i].target = switched
        BY <1>3, <1>5, <1>6, <4>1 DEF ShownInv, ShowsOnly
      <4> QED BY <1>1, <1>5, <3>1, <4>1 DEF ShownInv, ShowsOnly
    <3> QED BY <1>1, <1>5, <1>8, <1>9, <2>1, <3>2, <3>3, <1>4 DEF TargetInv, SwitchPending, SwitchInv, ConnectionInv, Live
  <2> QED BY <2>2, <2>3
<1>10. CASE event.kind \in {"Lookup", "Initialize", "Health", "Document"}
  <2>1. /\ UNCHANGED <<pending, switched>> /\ session.greeted
        /\ resume' = IF event.kind = "Document" THEN event.target ELSE resume
    BY <1>2, <1>8, <1>10
  <2>2. SwitchPending' => SwitchPending /\ calls'[pending'].target = calls[pending].target
    BY <1>5, <1>12, <2>1 DEF SwitchPending
  <2>3. SwitchIsKept'
    <3>1. event.kind = "Document" /\ switched # NoTarget => event.target = switched
      BY <1>3, <1>5, <1>6, <2>1 DEF ShownInv, ShowsOnly
    <3> QED BY <1>5, <2>1, <3>1 DEF SwitchIsKept
  <2>4. ShownInv'
    <3>1. ASSUME switched # NoTarget, NEW i \in 1..Len(Pipe'), Pipe'[i].kind = "Document"
          PROVE  Pipe'[i].target = switched
      BY <1>3, <1>5, <1>6, <2>1, <3>1 DEF ShownInv, ShowsOnly
    <3> QED BY <1>1, <1>5, <2>1, <3>1 DEF ShownInv, ShowsOnly
  <2>5. SwitchInv'
    <3> DEFINE t == calls[pending].target
    <3> SUFFICES ASSUME SwitchPending, NEW k \in 1..Len(Pipe'), Pipe'[k].kind = "RequestResult", Pipe'[k].result = "ok"
                 PROVE  /\ session.target = t
                        /\ \A i \in 1..Len(Pipe') : i >= k /\ Pipe'[i].kind = "Document" => Pipe'[i].target = t
                        /\ IF k = 1 THEN resume' = t ELSE Pipe'[k - 1] = Shows(t)
      BY <1>1, <2>2 DEF SwitchInv, SwitchUnderway, ShowsOnly
    <3> HIDE DEF t
    <3>1. /\ k + 1 \in 1..Len(Pipe) /\ Pipe[k + 1].kind = "RequestResult" /\ Pipe[k + 1].result = "ok"
      BY <1>3, <1>6
    <3>2. SwitchUnderway(Pipe, t)
      BY <1>5 DEF SwitchInv, t
    <3>3. session.target = t /\ ShowsOnly(Pipe, k + 1, t) /\ IF k + 1 = 1 THEN resume = t ELSE Pipe[k + 1 - 1] = Shows(t)
      BY <3>1, <3>2 DEF SwitchUnderway
    <3>4. Pipe[k] = Shows(t)
      BY <1>3, <3>3
    <3>5. ASSUME NEW i \in 1..Len(Pipe'), i >= k, Pipe'[i].kind = "Document" PROVE Pipe'[i].target = t
      <4>1. i + 1 \in 1..Len(Pipe) /\ i + 1 >= k + 1 /\ Pipe'[i] = Pipe[i + 1]
        BY <1>3, <1>6, <3>5
      <4> QED BY <3>3, <3>5, <4>1 DEF ShowsOnly
    <3>6. CASE k = 1
      <4>1. event = Shows(t)
        BY <1>3, <3>4, <3>6
      <4> QED BY <2>1, <3>3, <3>5, <3>6, <4>1 DEF Shows
    <3>7. CASE k # 1
      <4>1. k - 1 \in 1..Len(Pipe') /\ k - 1 + 1 = k
        BY <1>3, <3>7
      <4>2. Pipe'[k - 1] = Pipe[k]
        BY <1>3, <4>1
      <4> QED BY <3>3, <3>4, <3>5, <3>7, <4>2
    <3> QED BY <3>6, <3>7
  <2>6. ConnectionInv'
    BY <1>1, <1>4, <1>5, <2>1 DEF ConnectionInv
  <2>7. SwitchPending' => switched' = NoTarget
    BY <1>5, <2>1, <2>2
  <2> QED BY <2>3, <2>4, <2>5, <2>6, <2>7 DEF TargetInv
<1>11. CASE event.kind = "Error"
  <2>1. worker' = "closing" /\ UNCHANGED <<pending, resume, switched>>
    BY <1>2, <1>11
  <2>2. SwitchPending' => SwitchPending
    BY <1>5, <1>12, <2>1 DEF SwitchPending
  <2> QED BY <1>5, <2>1, <2>2 DEF TargetInv, SwitchIsKept, Live
<1> QED BY <1>2, <1>9, <1>10, <1>11

LEMMA TargetOfClient ==
  ASSUME TypeOK, CallsInv, AnswersInv, TargetInv, Caller \/ Connection \/ Between
  PROVE  TargetInv'
<1> USE DEF callerVars, flightVars, stateVars, linkVars, serverVars, boundVars, EndConnection
<1>0. ConstantsAssumption /\ toServer \in Seq(Message) /\ resume \in Targets
  BY ConstantsAssumption DEF TypeOK
<1>1. CASE ReceiveEvent
  BY <1>1, TargetOfReceiving
<1>2. CASE Sent
  BY <1>2, TargetOfSent
<1>3. CASE Reconnect
  <2>1. /\ worker' = "greeting" /\ ~initialized' /\ toServer' = <<>> /\ toClient' = <<>>
        /\ session'.due = <<>> /\ session'.work = {} /\ ~session'.greeted
        /\ UNCHANGED <<calls, pending, resume, switched>> /\ worker = "reconnecting"
    BY <1>3 DEF Reconnect, NewSession, ResetHandshake
  <2>2. Len(Pipe') = 0 /\ Len(toServer') = 0 /\ pending = NoCall
    BY <2>1 DEF Pipe, CallsInv
  <2>3. ConnectionInv' /\ ShownInv' /\ SwitchInv'
    BY <2>1, <2>2 DEF ConnectionInv, ShownInv, SwitchInv, SwitchPending
  <2> QED BY <2>1, <2>2, <2>3 DEF TargetInv, SwitchIsKept, SwitchPending
<1>4. CASE Greet
  <2>1. /\ worker = "greeting" /\ worker' \in {"serving", "closing"}
        /\ toServer' = toServer \/ toServer' = Append(toServer, Hello(resume))
        /\ UNCHANGED <<calls, pending, resume, switched, initialized, session, toClient>>
    BY <1>4 DEF Greet, SendTo, SendFails
  <2>2. ConnectionInv /\ ShownInv /\ SwitchInv /\ toServer = <<>> /\ ~session.greeted /\ Pipe' = Pipe
    BY <2>1 DEF TargetInv, Live, ConnectionInv, Pipe
  <2>3. Len(toServer') <= 1 /\ \A i \in 1..Len(toServer') : toServer'[i] = Hello(resume)
    <3>1. CASE toServer' = toServer
      BY <2>2, <3>1
    <3>2. CASE toServer' = Append(toServer, Hello(resume))
      <4>1. toServer' = <<Hello(resume)>>
        BY <2>2, <3>2
      <4> QED BY <4>1
    <3> QED BY <2>1, <3>1, <3>2
  <2>4. ConnectionInv'
    BY <2>1, <2>2, <2>3 DEF ConnectionInv, Hello
  <2>5. ShownInv' /\ SwitchInv'
    BY <2>1, <2>2 DEF ShownInv, SwitchInv, SwitchPending, SwitchUnderway, ShowsOnly
  <2> QED BY <2>1, <2>4, <2>5 DEF TargetInv, SwitchIsKept, SwitchPending
<1>5. CASE ~ReceiveEvent /\ ~Sent /\ ~Reconnect /\ ~Greet
  <2>1. \A c \in Calls : ReplyStep(c)
    BY <1>5, RepliesOfClient
  <2>2. CASE Close
    <3>1. pending' = NoCall /\ UNCHANGED <<resume, switched>> /\ worker' \in {"reconnecting", "stopped"}
      BY <2>2 DEF Close, StopsWith
    <3> QED BY <3>1 DEF TargetInv, SwitchIsKept, SwitchPending, Live
  <2>3. CASE SendingFails \/ RefuseEvent \/ ReceiveFails \/ HandleGone \/ RefuseCall \/ StopReconnecting
    <3>1. /\ UNCHANGED <<pending, resume>> /\ switched' \in {switched, NoTarget}
          /\ worker' \in {"closing", "reconnecting", "stopped"}
      BY <2>3 DEF SendingFails, RefuseEvent, ReceiveFails, HandleGone, RefuseCall, StopReconnecting, StopsWith
    <3>2. SwitchPending' => SwitchPending
      BY <2>1, <3>1, PendingIsKept DEF SwitchPending
    <3> QED BY <3>1, <3>2 DEF TargetInv, SwitchIsKept, Live
  <2>4. CASE Caller \/ TakeCommand \/ TakeLookup
    <3>1. /\ UNCHANGED <<resume, switched, pending, session, toServer, toClient, initialized>>
          /\ \/ worker' = worker
             \/ worker = "serving" /\ worker' = "sending" /\ initialized
             \/ worker = "serving" /\ worker' = "closing"
      <4>1. ASSUME NEW c \in Calls, MakeCall(c)
            PROVE  UNCHANGED <<resume, switched, pending, session, toServer, toClient, initialized>> /\ worker' = worker
        BY <4>1 DEF MakeCall
      <4>2. CASE Caller
        BY <4>1, <4>2 DEF Caller, DropHandle
      <4>3. CASE TakeCommand
        BY <4>3 DEF TakeCommand
      <4>4. CASE TakeLookup
        BY <4>4 DEF TakeLookup
      <4> QED BY <2>4, <4>2, <4>3, <4>4
    <3> QED BY <2>1, <3>1, OthersKeepTarget DEF Live
  <2> QED BY <1>5, <2>2, <2>3, <2>4 DEF Connection, Between
<1> QED BY <1>1, <1>2, <1>3, <1>4, <1>5

\* What a session adds to the pipe while no answer to the pending switch is in it.
LEMMA SpeakingKeepsSwitch ==
  ASSUME TypeOK, SwitchInv, calls' = calls, UNCHANGED <<pending, resume, toClient>>, session.due = <<>>,
         NEW due \in Seq(Event), session'.due = due, session'.target = session.target,
         \A i \in 1..Len(due) : /\ due[i].kind # "RequestResult" \/ due[i].result # "ok" \/ ~SwitchPending
                                /\ due[i].kind = "Document" => due[i].target = session.target
  PROVE  SwitchInv'
<1>1. /\ Len(Pipe) \in Nat /\ Len(due) \in Nat /\ Len(Pipe') = Len(Pipe) + Len(due)
      /\ \A i \in 1..Len(Pipe) : Pipe'[i] = Pipe[i]
      /\ \A i \in 1..Len(due) : Pipe'[Len(Pipe) + i] = due[i]
  <2>1. Len(Pipe) \in Nat /\ Len(due) \in Nat /\ toClient' = toClient
    BY PipeParts
  <2> QED BY <2>1, SpeakingExtendsPipe
<1>2. ASSUME NEW i \in 1..Len(Pipe')
      PROVE  \/ i \in 1..Len(Pipe) /\ Pipe'[i] = Pipe[i]
             \/ /\ Pipe'[i].kind # "RequestResult" \/ Pipe'[i].result # "ok" \/ ~SwitchPending
                /\ Pipe'[i].kind = "Document" => Pipe'[i].target = session.target
  <2>1. CASE i \in 1..Len(Pipe)
    BY <1>1, <2>1
  <2>2. CASE i \notin 1..Len(Pipe)
    <3>1. i - Len(Pipe) \in 1..Len(due) /\ Len(Pipe) + (i - Len(Pipe)) = i
      BY <1>1, <2>2
    <3>2. Pipe'[i] = due[i - Len(Pipe)]
      BY <1>1, <3>1
    <3> QED BY <3>1, <3>2
  <2> QED BY <2>1, <2>2
<1> DEFINE t == calls[pending].target
<1> SUFFICES ASSUME SwitchPending, NEW k \in 1..Len(Pipe'), Pipe'[k].kind = "RequestResult", Pipe'[k].result = "ok"
             PROVE  /\ session'.target = t
                    /\ \A i \in 1..Len(Pipe') : i >= k /\ Pipe'[i].kind = "Document" => Pipe'[i].target = t
                    /\ IF k = 1 THEN resume' = t ELSE Pipe'[k - 1] = Shows(t)
  BY DEF SwitchInv, SwitchPending, SwitchUnderway, ShowsOnly
<1>3. SwitchUnderway(Pipe, t)
  BY DEF SwitchInv
<1> HIDE DEF t
<1>4. k \in 1..Len(Pipe) /\ Pipe'[k] = Pipe[k]
  BY <1>2
<1>5. session.target = t /\ ShowsOnly(Pipe, k, t) /\ IF k = 1 THEN resume = t ELSE Pipe[k - 1] = Shows(t)
  BY <1>3, <1>4 DEF SwitchUnderway
<1>6. ASSUME NEW i \in 1..Len(Pipe'), i >= k, Pipe'[i].kind = "Document" PROVE Pipe'[i].target = t
  BY <1>2, <1>5, <1>6 DEF ShowsOnly
<1>7. IF k = 1 THEN resume' = t ELSE Pipe'[k - 1] = Shows(t)
  <2>1. k # 1 => k - 1 \in 1..Len(Pipe)
    BY <1>1, <1>4
  <2> QED BY <1>1, <1>5, <2>1
<1> QED BY <1>5, <1>6, <1>7

\* Likewise for what it shows after a switch that was answered.
LEMMA SpeakingKeepsShown ==
  ASSUME TypeOK, ShownInv, switched' = switched, toClient' = toClient, session.due = <<>>,
         NEW due \in Seq(Event), session'.due = due, session'.target = session.target, session.greeted,
         \A i \in 1..Len(due) : due[i].kind = "Document" => due[i].target = session.target
  PROVE  ShownInv'
<1>1. /\ Len(Pipe) \in Nat /\ Len(due) \in Nat /\ Len(Pipe') = Len(Pipe) + Len(due)
      /\ \A i \in 1..Len(Pipe) : Pipe'[i] = Pipe[i]
      /\ \A i \in 1..Len(due) : Pipe'[Len(Pipe) + i] = due[i]
  <2>1. Len(Pipe) \in Nat /\ Len(due) \in Nat
    BY PipeParts
  <2> QED BY <2>1, SpeakingExtendsPipe
<1>2. ASSUME switched # NoTarget, NEW i \in 1..Len(Pipe'), Pipe'[i].kind = "Document"
      PROVE  Pipe'[i].target = switched
  <2>1. CASE i \in 1..Len(Pipe)
    BY <1>1, <1>2, <2>1 DEF ShownInv, ShowsOnly
  <2>2. CASE i \notin 1..Len(Pipe)
    <3>1. i - Len(Pipe) \in 1..Len(due) /\ Len(Pipe) + (i - Len(Pipe)) = i
      BY <1>1, <2>2
    <3>2. Pipe'[i] = due[i - Len(Pipe)]
      BY <1>1, <3>1
    <3> QED BY <1>2, <3>1, <3>2 DEF ShownInv
  <2> QED BY <2>1, <2>2
<1> QED BY <1>2 DEF ShownInv, ShowsOnly

\* The hello is received: the session greets and shows the target the client asked for.
LEMMA TargetOfHello ==
  ASSUME TypeOK, TargetInv, SessionReceives, Head(toServer).call = NoCall
  PROVE  TargetInv'
<1> USE DEF callerVars, flightVars, stateVars, linkVars, serverVars, boundVars
<1>1. /\ session.due = <<>> /\ toServer # <<>> /\ toServer' = Tail(toServer)
      /\ UNCHANGED <<calls, pending, worker, resume, switched, initialized, toClient>>
      /\ toServer \in Seq(Message) /\ session \in Session /\ resume \in Targets
  BY DEF SessionReceives, TypeOK
<1>2. SwitchIsKept' /\ (SwitchPending' => SwitchPending) /\ (SwitchPending' => switched' = NoTarget)
  BY <1>1 DEF TargetInv, SwitchIsKept, SwitchPending
<1>3. ASSUME Live PROVE ConnectionInv' /\ ShownInv' /\ SwitchInv'
  <2>1. ConnectionInv /\ SwitchIsKept
    BY <1>3 DEF TargetInv
  <2>2. Len(toServer) \in Nat /\ Len(toServer) >= 1 /\ Head(toServer) = toServer[1] /\ 1 \in 1..Len(toServer)
    BY <1>1
  <2>3. ~session.greeted
    BY <2>1, <2>2 DEF ConnectionInv
  <2>4. /\ ~initialized /\ session.work = {} /\ Len(toServer) = 1 /\ Head(toServer) = Hello(resume)
        /\ \A i \in 1..Len(Pipe) : Pipe[i].kind = "Error"
    <3>1. /\ ~initialized /\ session.work = {} /\ Len(toServer) <= 1
          /\ \A i \in 1..Len(toServer) : toServer[i] = Hello(resume)
          /\ \A i \in 1..Len(Pipe) : Pipe[i].kind = "Error"
      BY <2>1, <2>3 DEF ConnectionInv
    <3> HIDE DEF Hello
    <3>2. Head(toServer) = Hello(resume)
      BY <2>2, <3>1
    <3>3. Len(toServer) = 1
      <4>1. Len(toServer) \in Nat /\ Len(toServer) >= 1 /\ Len(toServer) <= 1
        BY <2>2, <3>1
      <4>2. \A n \in Nat : n >= 1 /\ n <= 1 => n = 1
        OBVIOUS
      <4> QED BY ONLY <4>1, <4>2
    <3> QED BY <3>1, <3>2, <3>3
  <2>5. Len(toServer') = 0 /\ toServer' = <<>>
    BY <1>1, <2>4
  <2> DEFINE due == <<Greets, Shows(resume)>>
  <2>6. session' = [session EXCEPT !.greeted = TRUE, !.target = resume, !.due = due]
    <3>1. Head(toServer).call = NoCall /\ Head(toServer).target = resume
      BY <2>4 DEF Hello
    <3>2. session' = [session EXCEPT !.greeted = TRUE, !.target = Head(toServer).target,
                                     !.due = <<Greets, Shows(Head(toServer).target)>>]
      BY <3>1 DEF SessionReceives
    <3> QED BY <3>1, <3>2
  <2>7. /\ due \in Seq(Event) /\ Len(due) = 2 /\ due[1].kind = "Initialize"
        /\ due[2].kind = "Document" /\ due[2].target = resume
    <3>1. Greets \in Event /\ Shows(resume) \in Event
      BY <1>1, EventTypes
    <3> QED BY <3>1 DEF Greets, Shows
  <2> HIDE DEF due
  <2>8. session'.greeted /\ session'.target = resume /\ session'.due = due
    BY <1>1, <2>6, <2>7 DEF Session
  <2>9. /\ Len(Pipe) \in Nat /\ Len(Pipe') = Len(Pipe) + 2
        /\ \A i \in 1..Len(Pipe) : Pipe'[i] = Pipe[i]
        /\ \A i \in 1..2 : Pipe'[Len(Pipe) + i] = due[i]
    <3>1. Len(Pipe) \in Nat
      BY PipeParts
    <3> QED BY <1>1, <2>7, <2>8, <3>1, SpeakingExtendsPipe
  <2>10. ASSUME NEW i \in 1..Len(Pipe')
         PROVE  Pipe'[i].kind # "RequestResult" /\ (Pipe'[i].kind = "Document" => Pipe'[i].target = resume)
    <3>1. CASE i \in 1..Len(Pipe)
      BY <2>4, <2>9, <3>1
    <3>2. CASE i \notin 1..Len(Pipe)
      <4>1. i - Len(Pipe) \in 1..2 /\ Len(Pipe) + (i - Len(Pipe)) = i
        BY <2>9, <3>2
      <4>2. Pipe'[i] = due[i - Len(Pipe)] /\ i - Len(Pipe) \in {1, 2}
        BY <2>9, <4>1
      <4> QED BY <2>7, <4>2
    <3> QED BY <3>1, <3>2
  <2>11. ConnectionInv'
    <3>1. worker' # "greeting" /\ worker' # "sending"
      BY <1>1, <2>1, <2>4, <2>2 DEF ConnectionInv
    <3>2. session'.greeted /\ \A i \in 1..Len(toServer') : toServer'[i].call # NoCall
      BY <2>5, <2>8
    <3> QED BY <3>1, <3>2 DEF ConnectionInv
  <2>12. ShownInv'
    BY <1>1, <2>1, <2>8, <2>10 DEF ShownInv, ShowsOnly, SwitchIsKept
  <2>13. SwitchInv'
    BY <2>10 DEF SwitchInv, SwitchUnderway
  <2> QED BY <2>11, <2>12, <2>13
<1> QED BY <1>1, <1>2, <1>3 DEF TargetInv, Live

\* A command runs: a switch is shown right before it is answered.
LEMMA TargetOfRunning ==
  ASSUME TypeOK, RunInv, AnswersInv, TargetInv, NEW c \in Calls, SessionRuns(c)
  PROVE  TargetInv'
<1> USE DEF callerVars, flightVars, stateVars, linkVars, serverVars, boundVars
<1> DEFINE answer(o) == IF calls[c].kind = "Lookup" THEN [kind |-> "Lookup", call |-> c, result |-> o]
                        ELSE [kind |-> "RequestResult", result |-> o]
           switches(o) == calls[c].kind = "SetTarget" /\ o = "ok"
           shown(o) == IF switches(o) THEN calls[c].target ELSE session.target
           due(o) == IF switches(o) THEN <<Shows(shown(o)), answer(o)>> ELSE <<answer(o)>>
<1>0. session \in Session /\ calls \in [Calls -> Call] /\ session.target \in Targets
  BY SessionFields DEF TypeOK
<1>1. PICK o \in {"ok", "rejected"} :
        session' = [session EXCEPT !.work = @ \ {c}, !.target = shown(o), !.due = due(o)]
  <2>1. PICK o \in {"ok", "rejected"} :
          session' = [session EXCEPT !.work = @ \ {c}, !.target = shown(o),
                        !.due = (IF switches(o) THEN <<Shows(shown(o))>> ELSE <<>>)
                                  \o (IF calls[c].kind = "Lookup"
                                      THEN <<[kind |-> "Lookup", call |-> c, result |-> o]>>
                                      ELSE <<[kind |-> "RequestResult", result |-> o]>>)]
    BY DEF SessionRuns
  <2>2. (IF switches(o) THEN <<Shows(shown(o))>> ELSE <<>>)
          \o (IF calls[c].kind = "Lookup"
              THEN <<[kind |-> "Lookup", call |-> c, result |-> o]>>
              ELSE <<[kind |-> "RequestResult", result |-> o]>>)
        = due(o)
    <3>1. (IF calls[c].kind = "Lookup"
           THEN <<[kind |-> "Lookup", call |-> c, result |-> o]>>
           ELSE <<[kind |-> "RequestResult", result |-> o]>>) = <<answer(o)>>
      OBVIOUS
    <3> HIDE DEF answer, shown
    <3>2. <<Shows(shown(o))>> \o <<answer(o)>> = <<Shows(shown(o)), answer(o)>>
      BY Singletons
    <3>3. <<>> \o <<answer(o)>> = <<answer(o)>>
      BY Singletons
    <3> QED BY <3>1, <3>2, <3>3
  <2> HIDE DEF due, shown
  <2> QED BY <2>1, <2>2
<1>2. /\ session.due = <<>> /\ c \in session.work
      /\ UNCHANGED <<calls, pending, worker, resume, switched, initialized, toClient, toServer>>
  BY DEF SessionRuns
<1>3. SwitchIsKept' /\ SwitchPending' = SwitchPending /\ (SwitchPending' => switched' = NoTarget)
  BY <1>2 DEF TargetInv, SwitchIsKept, SwitchPending
<1>4. answer(o) \in Event /\ shown(o) \in Targets /\ Shows(shown(o)) \in Event
  <2>1. shown(o) \in Targets
    BY <1>0 DEF Call
  <2>2. answer(o) \in Event
    BY EventTypes
  <2> HIDE DEF shown
  <2> QED BY <2>1, <2>2, EventTypes
<1>5. /\ answer(o).kind = IF calls[c].kind = "Lookup" THEN "Lookup" ELSE "RequestResult"
      /\ answer(o).result = o
  OBVIOUS
<1>6. due(o) \in Seq(Event)
  <2> HIDE DEF answer, shown
  <2> QED BY <1>4
<1>7. session'.greeted = session.greeted /\ session'.target = shown(o) /\ session'.work = session.work \ {c} /\ session'.due = due(o)
  <2> HIDE DEF due, shown
  <2> QED BY <1>0, <1>1, <1>4, <1>6 DEF Session
<1>8. ASSUME Live PROVE ConnectionInv' /\ ShownInv' /\ SwitchInv'
  <2>1. /\ ConnectionInv /\ ShownInv /\ SwitchInv /\ AnswersIn(Pipe, pending) /\ RequestsInv
        /\ SwitchPending => switched = NoTarget
    BY <1>8 DEF TargetInv, AnswersInv
  <2>2. session.greeted
    BY <1>2, <2>1 DEF ConnectionInv
  <2>3. ConnectionInv'
    BY <1>2, <1>7, <2>1, <2>2 DEF ConnectionInv
  <2>4. calls[c].kind = "Lookup" \/ c = pending
    BY <1>2, <2>1 DEF RequestsInv
  <2>5. CASE ~switches(o)
    <3>1. session'.target = session.target /\ due(o) = <<answer(o)>>
      BY <1>7, <2>5
    <3>2. due(o)[1] = answer(o) /\ Len(due(o)) = 1
      <4> HIDE DEF answer
      <4> QED BY <3>1
    <3>3. ASSUME NEW i \in 1..Len(due(o))
          PROVE  /\ due(o)[i].kind # "RequestResult" \/ due(o)[i].result # "ok" \/ ~SwitchPending
                 /\ due(o)[i].kind # "Document"
      <4>1. due(o)[i] = answer(o)
        <5> HIDE DEF due
        <5> QED BY <3>2
      <4>2. answer(o).kind # "RequestResult" \/ answer(o).result # "ok" \/ ~SwitchPending
        BY <1>5, <2>4, <2>5 DEF SwitchPending
      <4>3. answer(o).kind # "Document"
        BY <1>5
      <4> HIDE DEF due, answer
      <4> QED BY <4>1, <4>2, <4>3
    <3> HIDE DEF due, answer, shown
    <3>4. SwitchInv'
      BY <1>2, <1>6, <1>7, <2>1, <3>1, <3>3, SpeakingKeepsSwitch
    <3>5. ShownInv'
      BY <1>2, <1>6, <1>7, <2>1, <2>2, <3>1, <3>3, SpeakingKeepsShown
    <3> QED BY <2>3, <3>4, <3>5
  <2>6. CASE switches(o)
    <3> DEFINE t == calls[c].target
    <3>1. c = pending /\ pending # NoCall /\ SwitchPending
      BY <2>4, <2>6, ConstantsAssumption DEF SwitchPending
    <3>2. ShownInv'
      BY <1>2, <2>1, <3>1 DEF ShownInv
    <3>3. session'.target = t /\ due(o) = <<Shows(t), answer(o)>>
      BY <1>7, <2>6
    <3>4. /\ due(o)[1] = Shows(t) /\ Len(due(o)) = 2
          /\ due(o)[2] = answer(o)
      <4> HIDE DEF answer
      <4> QED BY <3>3
    <3>5. answer(o).kind = "RequestResult"
      BY <1>5, <2>6
    <3> HIDE DEF due, answer, shown
    <3>6. /\ Len(Pipe) \in Nat /\ Len(Pipe') = Len(Pipe) + 2
          /\ \A i \in 1..Len(Pipe) : Pipe'[i] = Pipe[i]
          /\ \A i \in 1..2 : Pipe'[Len(Pipe) + i] = due(o)[i]
      BY <1>2, <1>6, <1>7, <3>4, PipeParts, SpeakingExtendsPipe
    <3>7. \A i \in 1..Len(Pipe) : Pipe[i].kind # "RequestResult"
      <4>1. outcomes[c] = <<>>
        BY <1>2 DEF RunInv, AtServer
      <4> QED BY <2>1, <3>1, <4>1, Singletons DEF AnswersIn
    <3>8. /\ Len(Pipe) + 1 \in 1..Len(Pipe') /\ Len(Pipe) + 2 - 1 = Len(Pipe) + 1 /\ Len(Pipe) + 2 # 1
          /\ Pipe'[Len(Pipe) + 1] = Shows(t) /\ Pipe'[Len(Pipe) + 2] = answer(o)
      BY <3>4, <3>6
    <3>9. ASSUME NEW k \in 1..Len(Pipe'), Pipe'[k].kind = "RequestResult" PROVE k = Len(Pipe) + 2
      <4>1. k \notin 1..Len(Pipe)
        BY <3>6, <3>7, <3>9
      <4>2. k # Len(Pipe) + 1
        BY <3>8, <3>9 DEF Shows
      <4> QED BY <3>6, <4>1, <4>2
    <3>10. SwitchUnderway(Pipe, t)'
      <4> SUFFICES ASSUME NEW k \in 1..Len(Pipe'), Pipe'[k].kind = "RequestResult"
                   PROVE  /\ session'.target = t'
                          /\ \A i \in 1..Len(Pipe') : i >= k /\ Pipe'[i].kind = "Document" => Pipe'[i].target = t'
                          /\ IF k = 1 THEN resume' = t' ELSE Pipe'[k - 1] = Shows(t')
        BY DEF SwitchUnderway, ShowsOnly
      <4>1. t' = t /\ k = Len(Pipe) + 2
        BY <1>2, <3>9
      <4> HIDE DEF t
      <4>2. ASSUME NEW i \in 1..Len(Pipe'), i >= k PROVE Pipe'[i].kind # "Document"
        <5>1. i = k
          BY <3>6, <4>1, <4>2
        <5> QED BY <5>1
      <4> QED BY <3>3, <3>8, <4>1, <4>2
    <3>11. SwitchInv'
      BY <1>2, <3>1, <3>10 DEF SwitchInv
    <3> QED BY <2>3, <3>2, <3>11
  <2> QED BY <2>5, <2>6
<1> QED BY <1>2, <1>3, <1>8 DEF TargetInv, Live

LEMMA TargetOfServer ==
  ASSUME TypeOK, RunInv, AnswersInv, TargetInv, "ServerMisbehaves" \notin Disturbances, Server
  PROVE  TargetInv'
<1> USE DEF callerVars, flightVars, stateVars, linkVars, serverVars, boundVars
<1>0. session \in Session /\ toServer \in Seq(Message)
  BY DEF TypeOK
<1>1. ASSUME NEW c \in Calls, SessionRuns(c) PROVE TargetInv'
  BY <1>1, TargetOfRunning
<1>2. CASE SessionReceives /\ Head(toServer).call = NoCall
  BY <1>2, TargetOfHello
<1>3. CASE /\ ~\E c \in Calls : SessionRuns(c)
           /\ ~(SessionReceives /\ Head(toServer).call = NoCall)
  <2>1. UNCHANGED <<calls, pending, worker, resume, switched, initialized>>
    <3>1. ASSUME NEW c \in Calls, RunsLate(c)
          PROVE  UNCHANGED <<calls, pending, worker, resume, switched, initialized>>
      BY <3>1 DEF RunsLate
    <3> QED BY <1>3, <3>1 DEF Server, SessionReceives, SessionPublishes, SessionSpeaks, SessionTimesOut, SessionDies
  <2>2. SwitchIsKept' /\ SwitchPending' = SwitchPending /\ (SwitchPending' => switched' = NoTarget)
    BY <2>1 DEF TargetInv, SwitchIsKept, SwitchPending
  <2>3. ASSUME Live PROVE ConnectionInv' /\ ShownInv' /\ SwitchInv'
    <3>1. ConnectionInv /\ ShownInv /\ SwitchInv
      BY <2>3 DEF TargetInv
    <3>2. ASSUME Pipe' = Pipe, toServer' = toServer,
                 session'.greeted = session.greeted, session'.target = session.target, session'.work = session.work
          PROVE  ConnectionInv' /\ ShownInv' /\ SwitchInv'
      <4>1. ConnectionInv'
        BY <2>1, <3>1, <3>2 DEF ConnectionInv
      <4>2. ShownInv'
        BY <2>1, <3>1, <3>2 DEF ShownInv, ShowsOnly
      <4>3. SwitchInv'
        BY <2>1, <3>1, <3>2 DEF SwitchInv, SwitchPending, SwitchUnderway, ShowsOnly
      <4> QED BY <4>1, <4>2, <4>3
    <3>3. CASE SessionReceives
      <4> DEFINE message == Head(toServer)
      <4>1. /\ toServer # <<>> /\ toServer' = Tail(toServer) /\ toClient' = toClient /\ message.call # NoCall
            /\ session' = [session EXCEPT !.work = @ \cup {message.call}]
        BY <1>3, <3>3 DEF SessionReceives
      <4>2. /\ Len(toServer) \in Nat /\ Len(toServer) >= 1 /\ message = toServer[1] /\ Len(toServer') = Len(toServer) - 1
            /\ \A i \in 1..Len(toServer') : toServer'[i] = toServer[i + 1]
        BY <1>0, <4>1
      <4> HIDE DEF message
      <4>3. 1 \in 1..Len(toServer) /\ \A i \in 1..Len(toServer') : i + 1 \in 1..Len(toServer)
        BY <4>2
      <4>4. session.greeted
        BY <3>1, <4>1, <4>2, <4>3 DEF ConnectionInv, Hello
      <4>5. /\ session'.greeted = session.greeted /\ session'.target = session.target /\ session'.due = session.due
        BY <1>0, <4>1 DEF Session
      <4>6. Pipe' = Pipe
        BY <4>1, <4>5 DEF Pipe
      <4>7. ConnectionInv'
        BY <2>1, <3>1, <4>2, <4>3, <4>4, <4>5 DEF ConnectionInv
      <4>8. ShownInv'
        BY <2>1, <3>1, <4>5, <4>6 DEF ShownInv, ShowsOnly
      <4>9. SwitchInv'
        BY <2>1, <3>1, <4>5, <4>6 DEF SwitchInv, SwitchPending, SwitchUnderway, ShowsOnly
      <4> QED BY <4>7, <4>8, <4>9
    <3>4. CASE SessionPublishes
      <4>1. Pipe' = Pipe
        BY <3>4, PublishingKeepsPipe
      <4>2. /\ session'.greeted = session.greeted /\ session'.target = session.target /\ session'.work = session.work
            /\ toServer' = toServer
        BY <1>0, <3>4 DEF SessionPublishes, Session
      <4> QED BY <3>2, <4>1, <4>2
    <3>5. CASE SessionSpeaks
      <4>1. PICK event : /\ \/ session.greeted /\ event = Shows(session.target)
                            \/ session.greeted /\ event \in [kind: {"Health"}, error: BOOLEAN]
                            \/ event \in [kind: {"Error"}, terminal: BOOLEAN]
                         /\ session' = [session EXCEPT !.due = <<event>>]
        BY <3>5 DEF SessionSpeaks
      <4>2. UNCHANGED <<toServer, toClient>> /\ session.due = <<>>
        BY <3>5 DEF SessionSpeaks
      <4>3. /\ event \in Event /\ event.kind # "RequestResult"
            /\ event.kind = "Document" => event.target = session.target
            /\ ~session.greeted => event.kind = "Error"
        <5>1. session.target \in Targets
          BY <1>0, SessionFields
        <5> QED BY <4>1, <5>1, EventTypes DEF Shows
      <4> DEFINE due == <<event>>
      <4>4. due \in Seq(Event) /\ Len(due) = 1 /\ due[1] = event
        BY <4>3
      <4>5. session' = [session EXCEPT !.due = due]
        BY <4>1
      <4> HIDE DEF due
      <4>6. /\ session'.due = due /\ session'.greeted = session.greeted /\ session'.target = session.target
            /\ session'.work = session.work
        BY <1>0, <4>4, <4>5 DEF Session
      <4>7. \A i \in 1..Len(due) : due[i] = event
        BY <4>4
      <4>8. SwitchInv'
        BY <2>1, <3>1, <4>2, <4>3, <4>4, <4>6, <4>7, SpeakingKeepsSwitch
      <4>9. ShownInv'
        BY <2>1, <3>1, <4>2, <4>3, <4>4, <4>6, <4>7, SpeakingKeepsShown DEF ShownInv
      <4>10. ConnectionInv'
        <5>1. /\ Len(Pipe) \in Nat /\ Len(Pipe') = Len(Pipe) + 1
              /\ \A i \in 1..Len(Pipe) : Pipe'[i] = Pipe[i]
              /\ \A i \in 1..1 : Pipe'[Len(Pipe) + i] = due[i]
          BY <4>2, <4>4, <4>6, PipeParts, SpeakingExtendsPipe
        <5>2. ASSUME ~session.greeted, NEW i \in 1..Len(Pipe') PROVE Pipe'[i].kind = "Error"
          <6>1. i \in 1..Len(Pipe) \/ i = Len(Pipe) + 1
            BY <5>1
          <6>2. Pipe'[Len(Pipe) + 1] = event
            BY <4>4, <5>1
          <6> QED BY <3>1, <4>3, <5>1, <5>2, <6>1, <6>2 DEF ConnectionInv
        <5> QED BY <2>1, <3>1, <4>2, <4>6, <5>2 DEF ConnectionInv
      <4> QED BY <4>8, <4>9, <4>10
    <3>6. CASE SessionTimesOut \/ SessionDies \/ \E c \in Calls : RunsLate(c)
      <4>1. UNCHANGED <<session, toServer, toClient>>
        BY <3>6 DEF SessionTimesOut, SessionDies, RunsLate
      <4> QED BY <3>2, <4>1 DEF Pipe
    <3> QED BY <1>3, <3>3, <3>4, <3>5, <3>6 DEF Server
  <2> QED BY <2>1, <2>2, <2>3 DEF TargetInv, Live
<1> QED BY <1>1, <1>2, <1>3

\* Once a SetTarget was acknowledged the client asks for its target on every later connection, until it
\* sends another, of any server that shows nothing before it was greeted.
THEOREM SwitchIsKeptHolds ==
  ASSUME "ServerMisbehaves" \notin Disturbances
  PROVE  Spec => []SwitchIsKept
<1>1. Init => IInv /\ TargetInv
  BY IInvInitially, TargetInitially
<1>2. IInv /\ TargetInv /\ [Next]_vars => (IInv /\ TargetInv)'
  <2> SUFFICES ASSUME IInv, TargetInv, [Next]_vars PROVE TargetInv'
    BY IInvIsKept
  <2>1. CASE Quiet \/ UNCHANGED vars
    BY <2>1, NothingChanges
       DEF allVars, TargetInv, SwitchIsKept, SwitchPending, Live, ConnectionInv, ShownInv, SwitchInv,
           SwitchUnderway, ShowsOnly, Pipe
  <2> QED BY <2>1, TargetOfClient, TargetOfServer DEF Next, IInv
<1>3. TargetInv => SwitchIsKept
  BY DEF TargetInv
<1> QED BY <1>1, <1>2, <1>3, PTL DEF Spec
====
