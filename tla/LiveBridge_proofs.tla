-------------------------- MODULE LiveBridge_proofs --------------------------
(***************************************************************************)
(* What the live bridge guarantees for any number of clients, exchanges    *)
(* and kinds of request.                                                   *)
(***************************************************************************)
EXTENDS LiveBridge, SequenceTheorems, TLAPS

-----------------------------------------------------------------------------
(***************************************************************************)
(* Type correctness.  The worker hands over the exchange it serves, so the *)
(* queue is well typed only if a worker in the middle of a request has a   *)
(* connection, and a connection belongs to an exchange that has begun.     *)
(***************************************************************************)
Serving == {"reading", "deciding", "marshalling", "writing"}

Attached ==
  /\ worker \in Serving => conn \in Exchange
  /\ worker = "marshalling" => answer = "queued"
  /\ \A c \in Clients : pc[c] # "idle" => ticket[c] \in 1..MaxExchanges

Typed == TypeOK /\ Attached

\* The parts of TypeOK, one per thread and one for what they share.
GameTyped ==
  /\ running \in BOOLEAN /\ cache \in BOOLEAN /\ ticked \in BOOLEAN
  /\ phase \in {"frame", "drain"} /\ ran \subseteq Exchange
ServerTyped ==
  /\ worker \in {"off", "listening", "reading", "deciding", "marshalling", "writing", "stopped"}
  /\ conn \in Exchange \cup {None}
  /\ asked \in Kinds \cup {NoAnswer} /\ answer \in Answers \cup {NoAnswer}
ClientTyped ==
  /\ pc \in [Clients -> {"idle", "connecting", "sending", "awaiting"}]
  /\ kind \in [Clients -> Kinds \cup {NoAnswer}]
  /\ begun \in 0..MaxExchanges /\ ticket \in [Clients -> 0..MaxExchanges]
  /\ result \in [Clients -> Answers \cup {NoAnswer, "noClient"}]
QueueTyped ==
  /\ owner \in {"wiring", "starting", "up", "disposed"}
  /\ queue \in Seq({Refresh} \cup Exchange) /\ remaining \in 0..Len(queue)
  /\ enqueued \in Seq(Exchange)

LEMMA TypedParts == TypeOK <=> GameTyped /\ ServerTyped /\ ClientTyped /\ QueueTyped
  BY Zenon DEF TypeOK, GameTyped, ServerTyped, ClientTyped, QueueTyped

LEMMA InitTyped == Init => Typed
<1> SUFFICES ASSUME Init PROVE Typed
  OBVIOUS
<1>1. GameTyped
  BY Zenon DEF Init, GameTyped
<1>2. ServerTyped
  BY DEF Init, ServerTyped
<1>3. ClientTyped
  BY BridgeAssumption DEF Init, ClientTyped
<1>4. QueueTyped
  BY DEF Init, QueueTyped
<1>5. Attached
  BY DEF Init, Attached, Serving
<1> QED
  BY <1>1, <1>2, <1>3, <1>4, <1>5, TypedParts DEF Typed

-----------------------------------------------------------------------------
(***************************************************************************)
(* The main-loop queue.                                                    *)
(***************************************************************************)
\* Putting a call at the end, and running the first one.
LEMMA EnqueueFacts ==
  ASSUME NEW S, NEW s \in Seq(S), NEW x \in S
  PROVE  /\ Append(s, x) \in Seq(S)
         /\ Len(s) \in Nat /\ Len(Append(s, x)) = Len(s) + 1
         /\ \A i \in 1..Len(s) : Append(s, x)[i] = s[i]
         /\ Append(s, x)[Len(s) + 1] = x
         /\ DOMAIN s = 1..Len(s) /\ DOMAIN Append(s, x) = 1..(Len(s) + 1)
  OBVIOUS

LEMMA DequeueFacts ==
  ASSUME NEW S, NEW s \in Seq(S), Len(s) > 0
  PROVE  Head(s) \in S /\ Tail(s) \in Seq(S) /\ Len(Tail(s)) = Len(s) - 1 /\ Len(s) \in Nat
  BY HeadTailProperties

LEMMA NextTyped == Typed /\ [Next]_vars => Typed'
<1> SUFFICES ASSUME Typed, [Next]_vars
             PROVE  Typed'
  OBVIOUS
<1>g. GameTyped /\ ServerTyped /\ ClientTyped /\ QueueTyped /\ Attached
  BY TypedParts DEF Typed
<1>p. SUFFICES GameTyped' /\ ServerTyped' /\ ClientTyped' /\ QueueTyped' /\ Attached'
  BY TypedParts DEF Typed, TypeOK, GameTyped, ServerTyped, ClientTyped, QueueTyped
<1> DEFINE Goal == GameTyped' /\ ServerTyped' /\ ClientTyped' /\ QueueTyped' /\ Attached'
<1> USE <1>g
<1>1. CASE WireRefresh
  BY <1>1, EnqueueFacts DEF WireRefresh, game, server, client,
     GameTyped, ServerTyped, ClientTyped, QueueTyped, Attached
<1>2. CASE StartListener
  BY <1>2 DEF StartListener, game, client,
     GameTyped, ServerTyped, ClientTyped, QueueTyped, Attached, Serving
<1>3. CASE Dispose
  BY <1>3 DEF Dispose, game, server, client,
     GameTyped, ServerTyped, ClientTyped, QueueTyped, Attached
<1>4. CASE GameChanges
  <2>1. GameTyped'
    BY <1>4, Zenon DEF GameChanges, GameTyped
  <2> QED
    BY <1>4, <2>1 DEF GameChanges, server, client, ServerTyped, ClientTyped, QueueTyped, Attached
<1>5. CASE BeginDrain
  <2>1. Len(queue) \in 0..Len(queue)
    BY DEF QueueTyped
  <2> QED
    BY <1>5, <2>1 DEF BeginDrain, server, client,
       GameTyped, ServerTyped, ClientTyped, QueueTyped, Attached
<1>6. CASE RunRefresh
  <2>1. GameTyped'
    BY <1>6, Zenon DEF RunRefresh, GameTyped
  <2>2. /\ remaining \in Nat /\ remaining > 0 /\ remaining <= Len(queue) /\ Len(queue) > 0
        /\ queue \in Seq({Refresh} \cup Exchange)
    BY <1>6 DEF RunRefresh, QueueTyped
  <2>3. Tail(queue) \in Seq({Refresh} \cup Exchange) /\ Len(Tail(queue)) = Len(queue) - 1
        /\ Len(queue) \in Nat
    BY <2>2, DequeueFacts
  <2>4. /\ Append(Tail(queue), Refresh) \in Seq({Refresh} \cup Exchange)
        /\ Len(Append(Tail(queue), Refresh)) = (Len(queue) - 1) + 1
    BY <2>3, EnqueueFacts
  <2>5. QueueTyped'
    BY <1>6, <2>2, <2>3, <2>4 DEF RunRefresh, QueueTyped
  <2> QED
    BY <1>6, <2>1, <2>5 DEF RunRefresh, server, client, ServerTyped, ClientTyped, Attached
<1>7. CASE RunReload
  <2>1. /\ remaining \in Nat /\ remaining > 0 /\ remaining <= Len(queue) /\ Len(queue) > 0
        /\ queue \in Seq({Refresh} \cup Exchange)
    BY <1>7 DEF RunReload, QueueTyped
  <2>2. Tail(queue) \in Seq({Refresh} \cup Exchange) /\ Len(Tail(queue)) = Len(queue) - 1
        /\ Len(queue) \in Nat /\ Head(queue) \in {Refresh} \cup Exchange
    BY <2>1, DequeueFacts
  <2>3. QueueTyped'
    BY <1>7, <2>1, <2>2 DEF RunReload, QueueTyped
  <2>4. ran' \subseteq Exchange
    BY <1>7, <2>2 DEF RunReload, GameTyped
  <2>5. GameTyped'
    BY <1>7, <2>4 DEF RunReload, GameTyped
  <2> QED
    BY <1>7, <2>3, <2>5 DEF RunReload, server, client, ServerTyped, ClientTyped, Attached
<1>8. CASE EndDrain
  BY <1>8 DEF EndDrain, server, client, GameTyped, ServerTyped, ClientTyped, QueueTyped, Attached
<1>9. CASE ReadRequest
  BY <1>9 DEF ReadRequest, game, client,
     GameTyped, ServerTyped, ClientTyped, QueueTyped, Attached, Serving
<1>10. CASE GiveUpReading
  BY <1>10 DEF GiveUpReading, HangUp, game, client,
     GameTyped, ServerTyped, ClientTyped, QueueTyped, Attached, Serving
<1>11. CASE DecideRequest
  <2>1. Answer(asked, cache) \in Answers
    BY DEF Answer, Answers
  <2> QED
    BY <1>11, <2>1 DEF DecideRequest, game, client,
       GameTyped, ServerTyped, ClientTyped, QueueTyped, Attached, Serving
<1>12. CASE Marshal
  <2>1. conn \in Exchange
    BY <1>12 DEF Marshal, Attached, Serving
  <2>2. /\ queue' \in Seq({Refresh} \cup Exchange) /\ Len(queue') = Len(queue) + 1
        /\ enqueued' \in Seq(Exchange) /\ Len(queue) \in Nat
    BY <1>12, <2>1, EnqueueFacts DEF Marshal, QueueTyped
  <2>3. QueueTyped'
    BY <1>12, <2>2 DEF Marshal, game, QueueTyped
  <2> QED
    BY <1>12, <2>3 DEF Marshal, game, client,
       GameTyped, ServerTyped, ClientTyped, Attached, Serving
<1>13. CASE WriteAck
  <2>1. conn[1] \in Clients
    BY <1>13 DEF WriteAck, Attached, Serving, Exchange
  <2>2. ClientTyped'
    BY <1>13, <2>1 DEF WriteAck, ClientTyped, ServerTyped
  <2> QED
    BY <1>13, <2>1, <2>2 DEF WriteAck, HangUp, game,
       GameTyped, ServerTyped, ClientTyped, QueueTyped, Attached, Serving
<1>14. CASE FailToWrite
  BY <1>14 DEF FailToWrite, HangUp, game, client,
     GameTyped, ServerTyped, ClientTyped, QueueTyped, Attached, Serving
<1>15. CASE StopListening
  BY <1>15 DEF StopListening, game, client,
     GameTyped, ServerTyped, ClientTyped, QueueTyped, Attached, Serving
<1>16. ASSUME NEW c \in Clients, Accept(c)
       PROVE  Goal
  <2>1. Mine(c) \in Exchange
    BY <1>16 DEF Accept, Attached, Mine, Exchange
  <2> QED
    BY <1>16, <2>1 DEF Accept, game,
       GameTyped, ServerTyped, ClientTyped, QueueTyped, Attached, Serving
<1>17. ASSUME NEW c \in Clients, NEW what \in Kinds, Begin(c, what)
       PROVE  Goal
  <2>1. begun \in Nat /\ begun + 1 \in 1..MaxExchanges /\ begun + 1 \in 0..MaxExchanges
    BY <1>17, BridgeAssumption DEF Begin, ClientTyped
  <2>2. ClientTyped'
    BY <1>17, <2>1 DEF Begin, ClientTyped
  <2>3. Attached'
    BY <1>17, <2>1 DEF Begin, server, ClientTyped, Attached
  <2> QED
    BY <1>17, <2>2, <2>3 DEF Begin, game, server, GameTyped, ServerTyped, QueueTyped
<1>18. ASSUME NEW c \in Clients, Send(c)
       PROVE  Goal
  BY <1>18 DEF Send, game, GameTyped, ServerTyped, ClientTyped, QueueTyped, Attached, Serving
<1>19. ASSUME NEW c \in Clients, GiveUp(c)
       PROVE  Goal
  BY <1>19 DEF GiveUp, game, server,
     GameTyped, ServerTyped, ClientTyped, QueueTyped, Attached, Serving
<1>20. CASE UNCHANGED vars
  BY <1>20 DEF vars, GameTyped, ServerTyped, ClientTyped, QueueTyped, Attached
<1> QED
  BY <1>1, <1>2, <1>3, <1>4, <1>5, <1>6, <1>7, <1>8, <1>9, <1>10, <1>11, <1>12, <1>13,
     <1>14, <1>15, <1>16, <1>17, <1>18, <1>19, <1>20
     DEF Next, Owner, Frame, Worker, Client, SeesHangUp, TimesOut

LEMMA AlwaysTyped == Spec => []Typed
  BY InitTyped, NextTyped, PTL DEF Spec

\* The queue holds refreshes and exchanges, a drain never runs past its end, and
\* the worker's connection and the clients' tickets belong to exchanges.
THEOREM TypeCorrect == Spec => []TypeOK
<1>1. Typed => TypeOK
  BY DEF Typed
<1> QED
  BY <1>1, AlwaysTyped, PTL

-----------------------------------------------------------------------------
(***************************************************************************)
(* The ack tells the truth.  The argument follows one exchange: it is not  *)
(* handed over before it is connected (its number is new when it begins),  *)
(* a worker that has not reached the hand-over has not made it, and a      *)
(* worker that writes knows from the answer whether it did.  A client that *)
(* has its answer is no longer connected, so nothing is handed over later. *)
(***************************************************************************)
Once == \A i, j \in DOMAIN enqueued : enqueued[i] = enqueued[j] => i = j

Numbered ==
  /\ \A e \in Marshalled : e[2] <= begun
  /\ conn # None => conn[2] <= begun
  /\ \A c \in Clients : ticket[c] <= begun

Handed ==
  /\ worker \notin Serving => conn = None
  /\ worker \in {"reading", "deciding", "marshalling"} => conn \notin Marshalled
  /\ worker = "writing" => answer \in Answers /\ (answer = "queued" <=> conn \in Marshalled)

Told(c) ==
  /\ pc[c] = "connecting" => Mine(c) \notin Marshalled /\ conn # Mine(c)
  /\ pc[c] # "idle" => result[c] = NoAnswer
  /\ result[c] \in Answers => conn # Mine(c) /\ (result[c] = "queued" <=> Mine(c) \in Marshalled)

Truth == Once /\ Numbered /\ Handed /\ \A c \in Clients : Told(c)

LEMMA InitTruth == Init => Truth
<1> SUFFICES ASSUME Init PROVE Truth
  OBVIOUS
<1>1. Marshalled = {} /\ Once
  BY DEF Init, Marshalled, Once
<1>2. Numbered /\ Handed
  BY <1>1 DEF Init, Numbered, Handed, Serving
<1>3. ASSUME NEW c \in Clients PROVE Told(c)
  BY <1>1, <1>3 DEF Init, Told, NoAnswer, Answers
<1> QED
  BY <1>1, <1>2, <1>3 DEF Truth

\* What the hand-over does to the set of reloads handed over.
LEMMA HandOver ==
  ASSUME Typed, Once, Marshal, conn \notin Marshalled
  PROVE  Marshalled' = Marshalled \cup {conn} /\ Once'
<1>1. enqueued \in Seq(Exchange) /\ conn \in Exchange /\ enqueued' = Append(enqueued, conn)
  BY DEF Typed, TypeOK, Attached, Serving, Marshal
<1>2. /\ Len(enqueued) \in Nat
      /\ DOMAIN enqueued = 1..Len(enqueued) /\ DOMAIN enqueued' = 1..(Len(enqueued) + 1)
      /\ \A i \in 1..Len(enqueued) : enqueued'[i] = enqueued[i]
      /\ enqueued'[Len(enqueued) + 1] = conn
  BY <1>1, EnqueueFacts
<1>3. \A i \in DOMAIN enqueued : enqueued[i] # conn
  BY DEF Marshalled
<1>4. Marshalled' = Marshalled \cup {conn}
  BY <1>2 DEF Marshalled
<1>5. Once'
  BY <1>2, <1>3 DEF Once
<1> QED
  BY <1>4, <1>5

\* The worker does nothing before its owner starts it.
Unstarted == owner \in {"wiring", "starting"} => worker = "off"

LEMMA NextUnstarted == Unstarted /\ [Next]_vars => Unstarted'
<1> SUFFICES ASSUME Unstarted, [Next]_vars PROVE Unstarted'
  OBVIOUS
<1>1. CASE Owner
  BY <1>1 DEF Owner, WireRefresh, StartListener, Dispose, server, Unstarted
<1>2. CASE GameChanges \/ Frame
  BY <1>2 DEF GameChanges, Frame, BeginDrain, RunRefresh, RunReload, EndDrain, server, Unstarted
<1>3. CASE Worker
  BY <1>3 DEF Worker, ReadRequest, GiveUpReading, DecideRequest, Marshal, WriteAck, FailToWrite,
     StopListening, Unstarted
<1>4. ASSUME NEW c \in Clients, Accept(c) \/ Client(c) PROVE Unstarted'
  BY <1>4 DEF Accept, Client, Begin, Send, SeesHangUp, TimesOut, GiveUp, server, Unstarted
<1> QED
  BY <1>1, <1>2, <1>3, <1>4 DEF Next, vars, Unstarted

LEMMA NextTruth == Typed /\ Unstarted /\ Truth /\ [Next]_vars => Truth'
<1> SUFFICES ASSUME Typed, Unstarted, Truth, [Next]_vars
             PROVE  Truth'
  OBVIOUS
<1>t. /\ ServerTyped /\ ClientTyped /\ QueueTyped /\ Attached
  BY TypedParts DEF Typed
<1>m. /\ \A c \in Clients : ticket[c] \in Nat /\ Mine(c) \in Clients \X Nat /\ Mine(c) # None
      /\ \A c, d \in Clients : Mine(c) = Mine(d) => c = d
  BY <1>t, BridgeAssumption DEF ClientTyped, Mine
<1>n. begun \in Nat
  BY <1>t, BridgeAssumption DEF ClientTyped
<1>o. Once /\ Numbered /\ Handed /\ \A c \in Clients : Told(c)
  BY DEF Truth
\* Whoever leaves the list of hand-overs alone leaves Marshalled and Once alone.
<1>q. UNCHANGED enqueued => Marshalled' = Marshalled /\ Once'
  BY <1>o DEF Marshalled, Once
\* The owner, the engine and the game thread touch none of it.
<1>f. UNCHANGED <<enqueued, server, client>> => Truth'
  <2> SUFFICES ASSUME UNCHANGED <<enqueued, server, client>> PROVE Truth'
    OBVIOUS
  <2>1. Numbered' /\ Handed'
    BY <1>o, <1>q DEF server, client, Numbered, Handed
  <2>2. ASSUME NEW c \in Clients PROVE Told(c)'
    BY <1>o, <1>q, <2>2 DEF server, client, Told, Mine
  <2> QED
    BY <1>q, <2>1, <2>2 DEF Truth
<1>1. CASE WireRefresh \/ Dispose
  BY <1>1, <1>f DEF WireRefresh, Dispose
<1>2. CASE GameChanges \/ Frame
  BY <1>2, <1>f DEF GameChanges, Frame, BeginDrain, RunRefresh, RunReload, EndDrain
\* The worker goes on with the connection it has.
<1>3. ASSUME UNCHANGED <<enqueued, conn, client>>, Handed'
      PROVE  Truth'
  <2>1. Numbered'
    BY <1>3, <1>o, <1>q DEF client, Numbered
  <2>2. ASSUME NEW c \in Clients PROVE Told(c)'
    BY <1>3, <1>o, <1>q, <2>2 DEF client, Told, Mine
  <2> QED
    BY <1>3, <1>q, <2>1, <2>2 DEF Truth
\* The worker hangs up.
<1>4. ASSUME UNCHANGED <<enqueued, client>>, conn' = None, worker' \notin Serving
      PROVE  Truth'
  <2>1. Numbered' /\ Handed'
    BY <1>4, <1>o, <1>q DEF client, Numbered, Handed, Serving
  <2>2. ASSUME NEW c \in Clients PROVE Told(c)'
    BY <1>4, <1>m, <1>o, <1>q, <2>2 DEF client, Told, Mine
  <2> QED
    BY <1>4, <1>q, <2>1, <2>2 DEF Truth
<1>5. CASE StartListener
  <2>1. conn' = None
    BY <1>5, <1>o DEF StartListener, Unstarted, Handed, Serving
  <2> QED
    BY <1>5, <2>1, <1>4 DEF StartListener, Serving
<1>6. CASE ReadRequest
  <2>1. Handed'
    BY <1>6, <1>o, <1>q DEF ReadRequest, client, Handed, Serving
  <2> QED
    BY <1>6, <2>1, <1>3 DEF ReadRequest
<1>7. CASE GiveUpReading \/ FailToWrite
  BY <1>7, <1>4 DEF GiveUpReading, FailToWrite, HangUp, Serving
<1>8. CASE DecideRequest
  <2>1. answer' \in Answers
    BY <1>8 DEF DecideRequest, Answer, Answers
  <2>2. Handed'
    BY <1>8, <2>1, <1>o, <1>q DEF DecideRequest, client, Handed, Serving
  <2> QED
    BY <1>8, <2>2, <1>3 DEF DecideRequest
<1>9. CASE Marshal
  <2>1. conn \notin Marshalled /\ worker = "marshalling" /\ conn \in Exchange
    BY <1>9, <1>o, <1>t DEF Marshal, Handed, Attached, Serving
  <2>2. Marshalled' = Marshalled \cup {conn} /\ Once'
    BY <1>9, <1>o, <2>1, HandOver
  <2>3. conn # None
    BY <2>1, BridgeAssumption DEF Exchange
  <2>4. Numbered'
    BY <1>9, <1>o, <2>2, <2>3 DEF Marshal, client, Numbered
  <2>5. Handed'
    BY <1>9, <2>2, <1>t DEF Marshal, Handed, Attached, Serving, Answers
  <2>6. ASSUME NEW c \in Clients PROVE Told(c)'
    BY <1>9, <1>o, <2>2, <2>6 DEF Marshal, client, Told, Mine
  <2> QED
    BY <2>2, <2>4, <2>5, <2>6 DEF Truth
<1>10. CASE WriteAck
  <2>1. /\ conn[1] \in Clients /\ conn = Mine(conn[1]) /\ UNCHANGED <<enqueued, begun, ticket>>
        /\ result' = [result EXCEPT ![conn[1]] = answer]
        /\ pc' = [pc EXCEPT ![conn[1]] = "idle"]
        /\ conn' = None /\ worker' \notin Serving
        /\ answer \in Answers /\ (answer = "queued" <=> conn \in Marshalled)
    BY <1>10, <1>o, <1>t DEF WriteAck, PeerThere, Connected, HangUp, Handed, Attached, Serving,
       Exchange
  <2>2. Numbered' /\ Handed'
    BY <2>1, <1>o, <1>q DEF Numbered, Handed, Serving
  <2>3. ASSUME NEW c \in Clients PROVE Told(c)'
    <3>1. Mine(c)' = Mine(c) /\ Mine(c) # None /\ Marshalled' = Marshalled
      BY <2>1, <1>m, <1>q DEF Mine
    <3>2. CASE c = conn[1]
      BY <2>1, <3>1, <3>2, <1>t DEF Told, ClientTyped, Answers, NoAnswer
    <3>3. CASE c # conn[1]
      BY <2>1, <3>1, <3>3, <1>o, <1>t DEF Told, ClientTyped
    <3> QED
      BY <3>2, <3>3
  <2> QED
    BY <2>1, <2>2, <2>3, <1>q DEF Truth
<1>11. CASE StopListening
  <2>1. Handed'
    BY <1>11, <1>o, <1>q DEF StopListening, client, Handed, Serving
  <2> QED
    BY <1>11, <2>1, <1>3 DEF StopListening
<1>12. ASSUME NEW c \in Clients, Accept(c)
       PROVE  Truth'
  <2>1. /\ Mine(c) \notin Marshalled /\ result[c] = NoAnswer
        /\ conn' = Mine(c) /\ worker' = "reading" /\ Marshalled' = Marshalled
        /\ pc' = [pc EXCEPT ![c] = "sending"] /\ UNCHANGED <<enqueued, begun, ticket, result>>
    BY <1>12, <1>o, <1>q DEF Accept, Told
  <2>2. Numbered'
    BY <2>1, <1>o DEF Numbered, Mine
  <2>3. Handed'
    BY <2>1 DEF Handed, Serving
  <2>4. ASSUME NEW d \in Clients PROVE Told(d)'
    <3>1. Mine(d)' = Mine(d)
      BY <2>1 DEF Mine
    <3>2. CASE d = c
      BY <2>1, <3>1, <3>2, <1>t DEF Told, ClientTyped, Answers, NoAnswer
    <3>3. CASE d # c
      <4>1. Mine(d) # Mine(c)
        BY <1>m, <3>3
      <4> QED
        BY <2>1, <3>1, <3>3, <4>1, <1>o, <1>t DEF Told, ClientTyped
    <3> QED
      BY <3>2, <3>3
  <2> QED
    BY <2>1, <2>2, <2>3, <2>4, <1>q DEF Truth
<1>13. ASSUME NEW c \in Clients, NEW what \in Kinds, Begin(c, what)
       PROVE  Truth'
  <2>1. /\ pc' = [pc EXCEPT ![c] = "connecting"] /\ result' = [result EXCEPT ![c] = NoAnswer]
        /\ begun' = begun + 1 /\ ticket' = [ticket EXCEPT ![c] = begun + 1]
        /\ UNCHANGED <<worker, conn, answer, enqueued>> /\ Marshalled' = Marshalled
    BY <1>13, <1>q DEF Begin, server
  <2>2. Mine(c)' = <<c, begun + 1>> /\ \A d \in Clients : d # c => Mine(d)' = Mine(d)
    BY <2>1, <1>t DEF Mine, ClientTyped
  <2>3. \A e \in Marshalled : e[2] \in Nat /\ e[2] <= begun
    <3>1. ASSUME NEW e \in Marshalled PROVE e \in Exchange
      BY <1>t, <3>1 DEF QueueTyped, Marshalled
    <3> QED
      BY <3>1, <1>o DEF Numbered, Exchange
  <2>4. conn # None => conn[2] \in Nat /\ conn[2] <= begun
    BY <1>o, <1>t DEF Numbered, ServerTyped, Exchange
  <2>5. Numbered'
    BY <2>1, <2>3, <2>4, <1>m, <1>n, <1>o, <1>t DEF Numbered, ClientTyped
  <2>6. Handed'
    BY <2>1, <1>o DEF Handed
  <2>7. <<c, begun + 1>> \notin Marshalled /\ conn # <<c, begun + 1>>
    <3>1. <<c, begun + 1>>[2] = begun + 1 /\ ~(begun + 1 <= begun) /\ <<c, begun + 1>> \in Clients \X Nat
      BY <1>n
    <3> QED
      BY <2>3, <2>4, <3>1, BridgeAssumption
  <2>8. ASSUME NEW d \in Clients PROVE Told(d)'
    <3>1. CASE d = c
      BY <2>1, <2>2, <2>7, <3>1, <1>t DEF Told, ClientTyped, Answers, NoAnswer
    <3>2. CASE d # c
      BY <2>1, <2>2, <3>2, <1>o, <1>t DEF Told, ClientTyped
    <3> QED
      BY <3>1, <3>2
  <2> QED
    BY <2>1, <2>5, <2>6, <2>8, <1>q DEF Truth
<1>14. ASSUME NEW c \in Clients, Send(c)
       PROVE  Truth'
  <2>1. /\ pc[c] = "sending" /\ pc' = [pc EXCEPT ![c] = "awaiting"]
        /\ UNCHANGED <<worker, conn, answer, begun, ticket, result, enqueued>>
    BY <1>14 DEF Send
  <2>2. Numbered' /\ Handed'
    BY <2>1, <1>o, <1>q DEF Numbered, Handed
  <2>3. ASSUME NEW d \in Clients PROVE Told(d)'
    BY <2>1, <2>3, <1>o, <1>q, <1>t DEF Told, Mine, ClientTyped
  <2> QED
    BY <2>1, <2>2, <2>3, <1>q DEF Truth
<1>15. ASSUME NEW c \in Clients, GiveUp(c)
       PROVE  Truth'
  <2>1. /\ pc' = [pc EXCEPT ![c] = "idle"] /\ result' = [result EXCEPT ![c] = "noClient"]
        /\ UNCHANGED <<worker, conn, answer, begun, ticket, enqueued>>
    BY <1>15 DEF GiveUp, server
  <2>2. Numbered' /\ Handed'
    BY <2>1, <1>o, <1>q DEF Numbered, Handed
  <2>3. ASSUME NEW d \in Clients PROVE Told(d)'
    BY <2>1, <2>3, <1>o, <1>q, <1>t DEF Told, Mine, ClientTyped, Answers
  <2> QED
    BY <2>1, <2>2, <2>3, <1>q DEF Truth
<1>16. CASE UNCHANGED vars
  BY <1>16, <1>f DEF vars, server, client
<1> QED
  BY <1>1, <1>2, <1>5, <1>6, <1>7, <1>8, <1>9, <1>11, <1>10, <1>12, <1>13, <1>14, <1>15, <1>16
     DEF Next, Owner, Worker, Client, SeesHangUp, TimesOut

\* An ack tells what the server did with the request, and no request is handed to
\* the game thread twice, for any number of clients and exchanges.
THEOREM AcksAreTrue == Spec => []AckIsTrue
<1>1. Truth => AckIsTrue
  BY DEF Truth, Once, Told, AckIsTrue, Answers
<1>2. Init => Unstarted
  BY DEF Init, Unstarted
<1> QED
  BY <1>1, <1>2, AlwaysTyped, InitTruth, NextUnstarted, NextTruth, PTL DEF Spec

-----------------------------------------------------------------------------
(***************************************************************************)
(* The cached flag.  Once wired, the refresh is always in the queue, so a  *)
(* drain that begins has it ahead; a drain that has it behind took the     *)
(* flag over in this drain, and the game does not change during a drain.   *)
(***************************************************************************)
Wired ==
  /\ owner # "wiring" => \E i \in 1..Len(queue) : queue[i] = Refresh
  /\ owner = "wiring" => queue = <<>>
Behind == \A i \in 1..remaining : queue[i] # Refresh
FlagInv ==
  /\ Wired
  /\ ticked => owner # "wiring"
  /\ phase = "drain" /\ ticked /\ Behind => cache = running

LEMMA NextFlag == Typed /\ Unstarted /\ FlagInv /\ [Next]_vars => FlagInv'
<1> SUFFICES ASSUME Typed, Unstarted, FlagInv, [Next]_vars PROVE FlagInv'
  OBVIOUS
<1>1. /\ queue \in Seq({Refresh} \cup Exchange) /\ remaining \in Nat /\ remaining <= Len(queue)
      /\ Len(queue) \in Nat /\ ticked \in BOOLEAN
  BY DEF Typed, TypeOK
\* A step that leaves the queue alone, or puts something at its end.
<1>2. ASSUME UNCHANGED <<running, cache, ticked, phase, remaining>>,
             \/ queue' = queue /\ owner' = owner
             \/ queue' = queue /\ owner # "wiring" /\ owner' # "wiring"
             \/ queue' = Append(queue, Refresh) /\ owner' # "wiring"
             \/ \E e \in Exchange : queue' = Append(queue, e) /\ owner' = owner /\ owner # "wiring"
      PROVE  FlagInv'
  <2>1. CASE queue' = queue
    BY <1>2, <2>1, <1>1 DEF FlagInv, Wired, Behind
  <2>2. CASE \E x \in {Refresh} \cup Exchange :
               queue' = Append(queue, x) /\ owner' # "wiring" /\ (owner # "wiring" \/ x = Refresh)
    <3>1. PICK x \in {Refresh} \cup Exchange :
               queue' = Append(queue, x) /\ owner' # "wiring" /\ (owner # "wiring" \/ x = Refresh)
      BY <2>2
    <3>2. /\ Len(queue') = Len(queue) + 1 /\ queue'[Len(queue) + 1] = x
          /\ \A i \in 1..Len(queue) : queue'[i] = queue[i]
      BY <1>1, <3>1, EnqueueFacts
    <3>3. Wired'
      BY <1>1, <1>2, <3>1, <3>2 DEF FlagInv, Wired
    <3>4. Behind' => Behind
      BY <1>1, <1>2, <3>2 DEF Behind
    <3> QED BY <1>2, <3>3, <3>4 DEF FlagInv
  <2> QED BY <1>2, <2>1, <2>2
<1>3. CASE WireRefresh \/ StartListener \/ Dispose
  BY <1>2, <1>3 DEF WireRefresh, StartListener, Dispose, game
<1>4. CASE GameChanges
  BY <1>4 DEF GameChanges, FlagInv, Wired
<1>5. CASE BeginDrain
  BY <1>1, <1>5 DEF BeginDrain, FlagInv, Wired, Behind
<1>6. CASE RunRefresh
  <2>1. /\ cache' = running /\ running' = running /\ queue' = Append(Tail(queue), Refresh)
        /\ remaining > 0 /\ Head(queue) = Refresh /\ owner' = owner
    BY <1>6 DEF RunRefresh
  <2>2. /\ Tail(queue) \in Seq({Refresh} \cup Exchange) /\ Len(Tail(queue)) \in Nat
        /\ Len(queue) > 0 /\ Head(queue) = queue[1]
    BY <1>1, <2>1, DequeueFacts
  <2>3. Len(queue') = Len(Tail(queue)) + 1 /\ queue'[Len(Tail(queue)) + 1] = Refresh
    BY <2>1, <2>2, EnqueueFacts
  <2>4. Wired' /\ owner # "wiring"
    <3>1. queue[1] = Refresh /\ 1 \in 1..Len(queue)
      BY <1>1, <2>1, <2>2
    <3>2. owner # "wiring"
      BY <2>2 DEF FlagInv, Wired
    <3> QED BY <2>1, <2>2, <2>3, <3>2 DEF Wired
  <2> QED BY <2>1, <2>4 DEF FlagInv
<1>7. CASE RunReload
  <2>1. /\ queue' = Tail(queue) /\ remaining > 0 /\ remaining' = remaining - 1 /\ Head(queue) # Refresh
        /\ UNCHANGED <<running, cache, ticked, phase, owner>>
    BY <1>7 DEF RunReload
  <2>2. /\ Len(queue') = Len(queue) - 1 /\ \A i \in 1..Len(queue) - 1 : queue'[i] = queue[i + 1]
        /\ Head(queue) = queue[1] /\ Len(queue) > 0
    BY <1>1, <2>1, HeadTailProperties
  <2>3. Wired'
    <3> SUFFICES \E i \in 1..Len(queue') : queue'[i] = Refresh
      BY <2>1, <2>2 DEF FlagInv, Wired
    <3>1. PICK i \in 1..Len(queue) : queue[i] = Refresh
      BY <2>2 DEF FlagInv, Wired
    <3>2. i - 1 \in 1..Len(queue) - 1 /\ i - 1 + 1 = i
      BY <1>1, <2>1, <2>2, <3>1
    <3> QED BY <2>2, <3>1, <3>2
  <2>4. Behind' => Behind
    <3> SUFFICES ASSUME Behind', NEW i \in 1..remaining PROVE queue[i] # Refresh
      BY DEF Behind
    <3>1. CASE i = 1
      BY <2>1, <2>2, <3>1
    <3>2. CASE i # 1
      <4>1. i - 1 \in 1..remaining' /\ i - 1 \in 1..Len(queue) - 1 /\ i - 1 + 1 = i
        BY <1>1, <2>1, <3>2
      <4> QED BY <2>2, <4>1 DEF Behind
    <3> QED BY <3>1, <3>2
  <2> QED BY <2>1, <2>3, <2>4 DEF FlagInv
<1>8. CASE EndDrain
  BY <1>8 DEF EndDrain, FlagInv, Wired
<1>9. CASE Marshal
  <2>1. conn \in Exchange
    BY <1>9 DEF Marshal, Typed, Attached, Serving
  <2>2. owner # "wiring"
    BY <1>9 DEF Marshal, Unstarted
  <2> QED BY <1>2, <1>9, <2>1, <2>2 DEF Marshal, game
<1>10. CASE ReadRequest \/ GiveUpReading \/ DecideRequest \/ WriteAck \/ FailToWrite \/ StopListening
  BY <1>2, <1>10 DEF ReadRequest, GiveUpReading, DecideRequest, WriteAck, FailToWrite, StopListening, game
<1>11. ASSUME NEW c \in Clients, Accept(c) \/ Client(c) PROVE FlagInv'
  BY <1>2, <1>11 DEF Accept, Client, Begin, Send, SeesHangUp, TimesOut, GiveUp, game
<1>12. CASE UNCHANGED vars
  BY <1>2, <1>12 DEF vars
<1> QED
  BY <1>3, <1>4, <1>5, <1>6, <1>7, <1>8, <1>9, <1>10, <1>11, <1>12
     DEF Next, Owner, Frame, Worker

\* The worker never decides from a flag that is older than one frame.
THEOREM FlagIsFresh == Spec => []FlagIsOneFrameOld
<1>1. Init => FlagInv
  BY DEF Init, FlagInv, Wired
<1>2. Typed /\ FlagInv => FlagIsOneFrameOld
  BY DEF FlagInv, Behind, FlagIsOneFrameOld
<1>3. Init => Unstarted
  BY DEF Init, Unstarted
<1> QED
  BY <1>1, <1>2, <1>3, AlwaysTyped, NextUnstarted, NextFlag, PTL DEF Spec
=============================================================================
