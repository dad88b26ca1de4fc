----------------------------- MODULE LiveBridge -----------------------------
(***************************************************************************)
(* The live bridge: MCP clients (Utinni.Mcp/Server/LivePipeClient.cs) ask  *)
(* the editor inside the game client for an asset reload over a named pipe *)
(* (UtinniCoreDotNet/Live/LivePipeServer.cs).                              *)
(*                                                                         *)
(* One worker thread serves one connection and one request at a time.  It  *)
(* may not call into the game: it answers from a cached "is the game       *)
(* running" flag and hands a reload to the game thread's main-loop queue.  *)
(* The game thread drains that queue once per frame; one of the queued     *)
(* calls refreshes the flag and queues itself again (main.cs).             *)
(*                                                                         *)
(* A frame is either wholly sent or not: a truncated, oversize or stalled  *)
(* frame and a client that hangs up all end the connection the same way.   *)
(***************************************************************************)
EXTENDS Naturals, Sequences, FiniteSets

CONSTANTS Clients,       \* LivePipeClient instances, each one call at a time
          Kinds,         \* what they ask for: see Answer
          MaxExchanges,  \* bound on the calls all clients make
          None           \* no exchange

ASSUME BridgeAssumption ==
  /\ Kinds \subseteq {"ping", "reload", "outside", "skewed", "malformed", "unknown"}
  /\ MaxExchanges \in Nat
  /\ None \notin Clients \X Nat

VARIABLES
  owner,      \* main.cs: "wiring", "starting", "up", "disposed"
  running,    \* native Game.IsRunning
  cache,      \* _gameIsRunningCache
  ticked,     \* has the refresh run yet
  queue,      \* mainLoopCallQueue: the refresh and the exchanges whose reload waits
  phase,      \* the game thread: "frame" or "drain"
  remaining,  \* what is left of the drain
  worker,     \* the accept loop
  conn,       \* the exchange connected to the pipe
  asked,      \* the kind of the request a client has written to the pipe
  answer,     \* the ack it will write
  pc,         \* per client: "idle", "connecting", "sending", "awaiting"
  kind,       \* per client: what it asks for
  begun,      \* exchanges begun so far
  ticket,     \* per client: the number of its exchange
  result,     \* per client: the outcome of the last exchange
  enqueued,   \* exchanges whose reload was queued, once per queuing
  ran         \* exchanges whose reload has run

game == <<running, cache, ticked, phase, remaining, ran>>
server == <<worker, conn, asked, answer>>
client == <<pc, kind, begun, ticket, result>>
vars == <<owner, running, cache, ticked, queue, phase, remaining, worker, conn,
          asked, answer, pc, kind, begun, ticket, result, enqueued, ran>>

Exchange == Clients \X (1..MaxExchanges)
Mine(c) == <<c, ticket[c]>>
Refresh == <<"refresh">>
Cancelled == owner = "disposed"

Answers == {"listening", "queued", "unavailable", "rejected"}
NoAnswer == "none"

Init ==
  /\ owner = "wiring"
  /\ running \in BOOLEAN /\ cache = FALSE /\ ticked = FALSE
  /\ queue = <<>> /\ phase = "frame" /\ remaining = 0
  /\ worker = "off" /\ conn = None /\ asked = NoAnswer /\ answer = NoAnswer
  /\ pc = [c \in Clients |-> "idle"]
  /\ kind = [c \in Clients |-> NoAnswer]
  /\ begun = 0 /\ ticket = [c \in Clients |-> 0]
  /\ result = [c \in Clients |-> NoAnswer]
  /\ enqueued = <<>> /\ ran = {}

(***************************************************************************)
(* The managed main thread: it queues the refresh, then starts the worker; *)
(* whoever owns the server may dispose it.                                 *)
(***************************************************************************)
WireRefresh ==
  /\ owner = "wiring"
  /\ queue' = Append(queue, Refresh)
  /\ owner' = "starting"
  /\ UNCHANGED <<game, server, client, enqueued>>

StartListener ==
  /\ owner = "starting"
  /\ worker' = "listening"
  /\ owner' = "up"
  /\ UNCHANGED <<game, queue, conn, asked, answer, client, enqueued>>

Dispose ==
  /\ owner = "up"
  /\ owner' = "disposed"
  /\ UNCHANGED <<game, queue, server, client, enqueued>>

(***************************************************************************)
(* The game thread.  The engine changes its run state inside the frame,    *)
(* the drain follows.  A drain runs what the queue held when it began.     *)
(***************************************************************************)
GameChanges ==
  /\ phase = "frame"
  /\ running' = ~running
  /\ UNCHANGED <<owner, cache, ticked, queue, phase, remaining, server, client, enqueued, ran>>

\* A slip: one call too many.
BeginDrainOneMore ==
  /\ phase = "frame" /\ queue # <<>>
  /\ phase' = "drain" /\ remaining' = Len(queue) + 1
  /\ UNCHANGED <<owner, running, cache, ticked, queue, server, client, enqueued, ran>>

BeginDrain ==
  /\ phase = "frame" /\ queue # <<>>
  /\ phase' = "drain" /\ remaining' = Len(queue)
  /\ UNCHANGED <<owner, running, cache, ticked, queue, server, client, enqueued, ran>>

\* A slip: the refresh does not queue itself again.
RunRefreshOnce ==
  /\ phase = "drain" /\ remaining > 0 /\ Head(queue) = Refresh
  /\ cache' = running /\ ticked' = TRUE
  /\ queue' = Tail(queue)
  /\ remaining' = remaining - 1
  /\ UNCHANGED <<owner, running, phase, server, client, enqueued, ran>>

\* A slip: the refresh goes back to the front.
RunRefreshFirst ==
  /\ phase = "drain" /\ remaining > 0 /\ Head(queue) = Refresh
  /\ cache' = running /\ ticked' = TRUE
  /\ remaining' = remaining - 1
  /\ UNCHANGED <<owner, running, queue, phase, server, client, enqueued, ran>>

RunRefresh ==
  /\ phase = "drain" /\ remaining > 0 /\ Head(queue) = Refresh
  /\ cache' = running /\ ticked' = TRUE
  /\ queue' = Append(Tail(queue), Refresh)
  /\ remaining' = remaining - 1
  /\ UNCHANGED <<owner, running, phase, server, client, enqueued, ran>>

RunReload ==
  /\ phase = "drain" /\ remaining > 0 /\ Head(queue) # Refresh
  /\ ran' = ran \cup {Head(queue)}
  /\ queue' = Tail(queue)
  /\ remaining' = remaining - 1
  /\ UNCHANGED <<owner, running, cache, ticked, phase, server, client, enqueued>>

\* A slip: the drain runs until the queue is empty.
EndDrainWhenEmpty ==
  /\ phase = "drain" /\ remaining = 0
  /\ IF queue = <<>> THEN phase' = "frame" /\ UNCHANGED remaining
                     ELSE remaining' = Len(queue) /\ UNCHANGED phase
  /\ UNCHANGED <<owner, running, cache, ticked, queue, server, client, enqueued, ran>>

EndDrain ==
  /\ phase = "drain" /\ remaining = 0
  /\ phase' = "frame"
  /\ UNCHANGED <<owner, running, cache, ticked, queue, remaining, server, client, enqueued, ran>>

(***************************************************************************)
(* The worker.                                                             *)
(***************************************************************************)
\* What Decide and its callers make of a request.
Answer(what, gameIsRunning) ==
  CASE what = "ping" -> "listening"
    [] what = "reload" /\ gameIsRunning -> "queued"
    [] what = "reload" /\ ~gameIsRunning -> "unavailable"
    [] OTHER -> "rejected"

Connected(c) == conn = Mine(c)
\* The client at the other end of the connection is still there.
PeerThere == conn # None /\ Connected(conn[1]) /\ pc[conn[1]] \in {"sending", "awaiting"}

\* The pipe is closed and, unless the server is being disposed, created anew.
HangUp ==
  /\ conn' = None /\ asked' = NoAnswer /\ answer' = NoAnswer
  /\ worker' = IF Cancelled THEN "stopped" ELSE "listening"

Accept(c) ==
  /\ worker = "listening" /\ ~Cancelled /\ pc[c] = "connecting"
  /\ worker' = "reading" /\ conn' = Mine(c)
  /\ pc' = [pc EXCEPT ![c] = "sending"]
  /\ UNCHANGED <<owner, game, queue, asked, answer, kind, begun, ticket, result, enqueued>>

\* What a client has written can be read even when the client is gone.
ReadRequest ==
  /\ worker = "reading" /\ asked # NoAnswer
  /\ worker' = "deciding"
  /\ UNCHANGED <<owner, game, queue, conn, asked, answer, client, enqueued>>

\* A slip: a read that ends without a request ends the loop as well.
GiveUpReadingForGood ==
  /\ worker = "reading"
  /\ conn' = None /\ asked' = NoAnswer /\ answer' = NoAnswer /\ worker' = "off"
  /\ UNCHANGED <<owner, game, queue, client, enqueued>>

\* The read ends without a request: timeout, hang-up, or cancellation.
GiveUpReading ==
  /\ worker = "reading"
  /\ HangUp
  /\ UNCHANGED <<owner, game, queue, client, enqueued>>

DecideRequest ==
  /\ worker = "deciding"
  /\ answer' = Answer(asked, cache)
  /\ worker' = IF answer' = "queued" THEN "marshalling" ELSE "writing"
  /\ UNCHANGED <<owner, game, queue, conn, asked, client, enqueued>>

\* A slip: the flag is read again before the hand-over.
MarshalIfStillRunning ==
  /\ worker = "marshalling"
  /\ worker' = "writing"
  /\ IF cache THEN queue' = Append(queue, conn) /\ enqueued' = Append(enqueued, conn)
              ELSE UNCHANGED <<queue, enqueued>>
  /\ UNCHANGED <<owner, game, conn, asked, answer, client>>

Marshal ==
  /\ worker = "marshalling"
  /\ queue' = Append(queue, conn)
  /\ enqueued' = Append(enqueued, conn)
  /\ worker' = "writing"
  /\ UNCHANGED <<owner, game, conn, asked, answer, client>>

\* The write completes when the client has read the ack ...
WriteAck ==
  /\ worker = "writing" /\ PeerThere
  /\ result' = [result EXCEPT ![conn[1]] = answer]
  /\ pc' = [pc EXCEPT ![conn[1]] = "idle"]
  /\ HangUp
  /\ UNCHANGED <<owner, game, queue, kind, begun, ticket, enqueued>>

\* ... or fails because the client is gone.  It has no timeout of its own.
FailToWrite ==
  /\ worker = "writing" /\ ~PeerThere
  /\ HangUp
  /\ UNCHANGED <<owner, game, queue, client, enqueued>>

StopListening ==
  /\ worker = "listening" /\ Cancelled
  /\ worker' = "stopped"
  /\ UNCHANGED <<owner, game, queue, conn, asked, answer, client, enqueued>>

(***************************************************************************)
(* A client.  One timeout bounds the whole exchange.                       *)
(***************************************************************************)
Begin(c, what) ==
  /\ pc[c] = "idle" /\ begun < MaxExchanges
  /\ pc' = [pc EXCEPT ![c] = "connecting"]
  /\ kind' = [kind EXCEPT ![c] = what]
  /\ begun' = begun + 1 /\ ticket' = [ticket EXCEPT ![c] = begun + 1]
  /\ result' = [result EXCEPT ![c] = NoAnswer]
  /\ UNCHANGED <<owner, game, queue, server, enqueued>>

Send(c) ==
  /\ pc[c] = "sending" /\ Connected(c)
  /\ pc' = [pc EXCEPT ![c] = "awaiting"]
  /\ asked' = kind[c]
  /\ UNCHANGED <<owner, game, queue, worker, conn, answer, kind, begun, ticket, result, enqueued>>

GiveUp(c) ==
  /\ pc' = [pc EXCEPT ![c] = "idle"]
  /\ result' = [result EXCEPT ![c] = "noClient"]
  /\ UNCHANGED <<owner, game, queue, server, kind, begun, ticket, enqueued>>

SeesHangUp(c) ==
  /\ pc[c] \in {"sending", "awaiting"} /\ ~Connected(c)
  /\ GiveUp(c)

\* A slip: the connect has no timeout.
TimesOutOnceConnected(c) ==
  /\ pc[c] \in {"sending", "awaiting"}
  /\ GiveUp(c)

\* A pipe that waits for a connection is connected to at once, so a connect
\* times out only when the worker is busy or down.
TimesOut(c) ==
  /\ \/ pc[c] = "connecting" /\ (worker # "listening" \/ Cancelled)
     \/ pc[c] \in {"sending", "awaiting"}
  /\ GiveUp(c)

Owner == WireRefresh \/ StartListener \/ Dispose
Frame == BeginDrain \/ RunRefresh \/ RunReload \/ EndDrain
Worker == ReadRequest \/ GiveUpReading \/ DecideRequest \/ Marshal \/ WriteAck
          \/ FailToWrite \/ StopListening
Client(c) == (\E what \in Kinds : Begin(c, what)) \/ Send(c) \/ SeesHangUp(c) \/ TimesOut(c)

Next == Owner \/ GameChanges \/ Frame \/ Worker \/ \E c \in Clients : Accept(c) \/ Client(c)

\* The game loops, the worker loops with a timeout on its read, a client's timeout
\* fires; nobody has to call, to start or to dispose.
Fairness ==
  /\ WF_vars(Frame)
  /\ WF_vars(Worker)
  /\ \A c \in Clients : WF_vars(SeesHangUp(c) \/ TimesOut(c)) /\ WF_vars(Accept(c))

Spec == Init /\ [][Next]_vars /\ Fairness

-----------------------------------------------------------------------------
(***************************************************************************)
(* Properties.                                                             *)
(***************************************************************************)
TypeOK ==
  /\ owner \in {"wiring", "starting", "up", "disposed"}
  /\ {running, cache, ticked} \subseteq BOOLEAN
  /\ queue \in Seq({Refresh} \cup Exchange)
  /\ phase \in {"frame", "drain"} /\ remaining \in 0..Len(queue)
  /\ worker \in {"off", "listening", "reading", "deciding", "marshalling", "writing", "stopped"}
  /\ conn \in Exchange \cup {None}
  /\ asked \in Kinds \cup {NoAnswer} /\ answer \in Answers \cup {NoAnswer}
  /\ pc \in [Clients -> {"idle", "connecting", "sending", "awaiting"}]
  /\ kind \in [Clients -> Kinds \cup {NoAnswer}]
  /\ begun \in 0..MaxExchanges /\ ticket \in [Clients -> 0..MaxExchanges]
  /\ result \in [Clients -> Answers \cup {NoAnswer, "noClient"}]
  /\ enqueued \in Seq(Exchange) /\ ran \subseteq Exchange

Marshalled == {enqueued[i] : i \in DOMAIN enqueued}

\* An ack tells what the server did: "queued" means the reload was put on the
\* main-loop queue exactly once, any other ack that it was not, whatever the cached
\* flag did between the decision and the hand-over; and no request is queued twice.
AckIsTrue ==
  /\ \A i, j \in DOMAIN enqueued : enqueued[i] = enqueued[j] => i = j
  /\ \A c \in Clients :
       /\ result[c] = "queued" => Mine(c) \in Marshalled
       /\ result[c] \in Answers \ {"queued"} => Mine(c) \notin Marshalled

\* When a drain ends, the cached flag is what the game says, from the first refresh
\* on: the refresh is neither lost nor run more or less often than once a frame, so
\* the worker never answers from a flag older than one frame.
FlagIsOneFrameOld == phase = "drain" /\ remaining = 0 /\ ticked => cache = running

\* A reload that was queued is run by the game thread, behind a refresh that queues
\* itself again in every drain.
QueuedReloadRuns == \A e \in Exchange : e \in Marshalled ~> e \in ran

\* Every drain ends, although the refresh queues itself again during it.
DrainEnds == phase = "drain" ~> phase = "frame"

\* The client never hangs: every exchange ends, with or without a server.
ExchangeEnds == \A c \in Clients : pc[c] # "idle" ~> pc[c] = "idle"

\* One bad connection does not take the listener down: after every connection the
\* worker waits for the next one, until the server is disposed; then the worker ends.
ListenerComesBack == conn # None ~> worker = "listening" \/ (Cancelled /\ worker = "stopped")
=============================================================================
