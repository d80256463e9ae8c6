---------------------------- MODULE AgentServer ----------------------------
(***************************************************************************)
(* Network/AgentServer.cpp: the editor's TCP server for one agent at a     *)
(* time.  Three threads run it.  The accept thread takes connections and   *)
(* replaces a dead client; the client thread reads requests, queues those  *)
(* that need the editor and waits up to 30 seconds for each; the main      *)
(* thread drains the queue on every tick and Qt timer, and starts and      *)
(* stops the server.  An action is what one thread does between two points *)
(* at which another thread's step can matter.  A socket is a descriptor    *)
(* number, as in the code: once closed, the number may name another        *)
(* connection.  TLS, framing and the handlers' own work are left out.      *)
(***************************************************************************)
EXTENDS Integers, Sequences, FiniteSets

CONSTANTS Conn,            \* connections an agent can open
          Request,         \* requests an agent can send
          Fd,              \* descriptor numbers
          NoFd,            \* InvalidSocket
          NoConn, NoRequest,
          MaxNesting,      \* bound: drains on the main thread's stack
          CloseWakesRecv   \* does close() end a recv() another thread is in?

ASSUME NoValues == NoFd \notin Fd /\ NoConn \notin Conn /\ NoRequest \notin Request
ASSUME Bounds   == MaxNesting \in Nat \ {0} /\ CloseWakesRecv \in BOOLEAN

VARIABLES
  running,       \* m_running
  secureMode,    \* m_secureMode
  listening,     \* m_listenSocket is open
  clientSocket,  \* m_clientSocket
  queue,         \* m_pendingRequests
  promise,       \* responsePromise of each request
  mainPc,        \* where the main thread is: "free" or inside Stop
  frames,        \* its ProcessMainThreadQueue calls; each one's head is executing
  scriptOutput,  \* whose output the wrapper script's global _ac_buf holds
  output,        \* whose output a request's result carries
  acceptPc,      \* AcceptLoop
  incoming,      \* its clientSock
  existing,      \* its existingSocket
  clientPc,      \* ClientLoop
  clientFd,      \* its clientSocket parameter
  held,          \* the connection a recv() in progress keeps alive
  request,       \* the request ClientLoop is working on
  response,      \* its response
  fdConn,        \* the process's descriptor table
  peer,          \* the agent's end of each connection
  inbox,         \* requests sent and not yet read
  kind,          \* what each request asks for
  sentOn,        \* the connection each request was sent on
  serving,       \* history variable: the connection accepted as clientFd
  accepted,      \* history variable: requests that were queued
  runs,          \* history variable: how often each was carried out
  reply          \* history variable: what its sender received

socket  == <<listening, clientSocket, fdConn>>
main    == <<mainPc, frames, scriptOutput, output>>
acceptT == <<acceptPc, incoming, existing>>
clientT == <<clientPc, clientFd, held, request, response, serving>>
work    == <<queue, promise, accepted, runs>>
agent   == <<peer, inbox, kind, sentOn>>
vars    == <<running, secureMode, socket, main, acceptT, clientT, work, agent, reply>>

Kinds == {"unsent", "local", "native", "python"}

Init ==
    /\ running = FALSE /\ secureMode = FALSE /\ listening = FALSE /\ clientSocket = NoFd
    /\ queue = <<>> /\ promise = [r \in Request |-> "unset"]
    /\ mainPc = "free" /\ frames = <<>>
    /\ scriptOutput = NoRequest /\ output = [r \in Request |-> NoRequest]
    /\ acceptPc = "none" /\ incoming = NoFd /\ existing = NoFd
    /\ clientPc = "none" /\ clientFd = NoFd /\ held = NoConn
    /\ request = NoRequest /\ response = "none" /\ serving = NoConn
    /\ fdConn = [f \in Fd |-> NoConn]
    /\ peer = [c \in Conn |-> "absent"] /\ inbox = [c \in Conn |-> <<>>]
    /\ kind = [r \in Request |-> "unsent"] /\ sentOn = [r \in Request |-> NoConn]
    /\ accepted = {} /\ runs = [r \in Request |-> 0] /\ reply = [r \in Request |-> "none"]

-----------------------------------------------------------------------------
(* Sockets.                                                                *)

\* What f names now; nothing when it is closed.
ConnOf(f) == IF f = NoFd THEN NoConn ELSE fdConn[f]

\* CloseSocket closes a number, whatever the number names by then.
CloseSocket(f) == fdConn' = [g \in Fd |-> IF g = f THEN NoConn ELSE fdConn[g]]

\* Every request the agent sent on c was read, and no more will come.
AtEnd(c) == peer[c] = "closed" /\ inbox[c] = <<>>

-----------------------------------------------------------------------------
(* The main thread: the queue.                                             *)

\* Mutant of Execute: the globals are made once, by the first wrapper script.
StaleGlobals(r) ==
    /\ runs' = [runs EXCEPT ![r] = @ + 1]
    /\ scriptOutput' = IF kind[r] = "python" /\ scriptOutput = NoRequest THEN r ELSE scriptOutput

\* HandleRequest starts.  The wrapper script of execute_python begins with
\* fresh globals _ac_buf and _ac_error, shared by all wrapper scripts.
Execute(r) ==
    /\ runs' = [runs EXCEPT ![r] = @ + 1]
    /\ scriptOutput' = IF kind[r] = "python" THEN r ELSE scriptOutput

\* A drain runs inside another one when a script spins the event loop (a
\* modal dialog) and the Qt timer fires.
CanDrain == frames # <<>> => /\ Len(frames) < MaxNesting
                             /\ kind[Head(frames[Len(frames)])] = "python"

\* Mutant of TakeQueue: iterates over the queue without emptying it.
CopyQueue == UNCHANGED queue
TakeQueue == queue' = <<>>

ProcessMainThreadQueue ==
    /\ mainPc = "free" /\ CanDrain
    /\ queue # <<>>
    /\ TakeQueue
    /\ frames' = Append(frames, queue)
    /\ Execute(Head(queue))
    /\ UNCHANGED <<running, secureMode, socket, mainPc, output, acceptT, clientT, promise, accepted, agent, reply>>

\* HandleRequest returns; the loop goes on to the next request, or ends.
FinishRequest ==
    /\ mainPc = "free" /\ frames # <<>>
    /\ LET top   == Len(frames)
           done  == Head(frames[top])
           rest  == Tail(frames[top])
       IN /\ promise' = [promise EXCEPT ![done] = "result"]
          /\ output' = [output EXCEPT ![done] = IF kind[done] = "python" THEN scriptOutput ELSE done]
          /\ \/ rest # <<>> /\ frames' = [frames EXCEPT ![top] = rest] /\ Execute(Head(rest))
             \/ rest = <<>> /\ frames' = SubSeq(frames, 1, top - 1) /\ UNCHANGED <<runs, scriptOutput>>
    /\ UNCHANGED <<running, secureMode, socket, mainPc, acceptT, clientT, queue, accepted, agent, reply>>

SetSecureMode(enabled) ==
    /\ mainPc = "free" /\ secureMode # enabled
    /\ secureMode' = enabled
    /\ UNCHANGED <<running, socket, main, acceptT, clientT, work, agent, reply>>

-----------------------------------------------------------------------------
(* The main thread: Start and Stop.                                        *)

\* Without the port there is no server, but the secure mode is stored already.
Start(secure) ==
    /\ mainPc = "free" /\ frames = <<>>
    /\ ~running
    /\ secureMode' = secure
    /\ \/ running' = TRUE /\ listening' = TRUE /\ acceptPc' = "check"
       \/ UNCHANGED <<running, listening, acceptPc>>
    /\ UNCHANGED <<clientSocket, fdConn, main, incoming, existing, clientT, work, agent, reply>>

Stop ==
    /\ mainPc = "free" /\ frames = <<>>
    /\ running
    /\ running' = FALSE /\ mainPc' = "closeListen"
    /\ UNCHANGED <<secureMode, socket, frames, scriptOutput, output, acceptT, clientT, work, agent, reply>>

\* The kernel resets the connections nobody accepted.
ResetBacklog == peer' = [c \in Conn |-> IF peer[c] = "backlog" THEN "closed" ELSE peer[c]]

\* Mutant of StopListening: Stop leaves the listening socket open.
KeepListening == UNCHANGED <<listening, peer>>
StopListening == listening' = FALSE /\ ResetBacklog

StopClosesListenSocket ==
    /\ mainPc = "closeListen"
    /\ StopListening
    /\ mainPc' = "closeClient"
    /\ UNCHANGED <<running, secureMode, clientSocket, fdConn, frames, scriptOutput, output, acceptT, clientT, work,
                   inbox, kind, sentOn, reply>>

\* Mutant of ShutClient: Stop forgets the client's socket.
ForgetClient == UNCHANGED <<clientSocket, fdConn>>
ShutClient == clientSocket' = NoFd /\ CloseSocket(clientSocket)

StopClosesClientSocket ==
    /\ mainPc = "closeClient"
    /\ ShutClient
    /\ mainPc' = "joinAccept"
    /\ UNCHANGED <<running, secureMode, listening, frames, scriptOutput, output, acceptT, clientT, work, agent, reply>>

StopJoinsAcceptThread ==
    /\ mainPc = "joinAccept"
    /\ acceptPc = "done"
    /\ acceptPc' = "none" /\ mainPc' = "joinClient"
    /\ UNCHANGED <<running, secureMode, socket, frames, scriptOutput, output, incoming, existing, clientT, work,
                   agent, reply>>

ClientJoinable == clientPc \in {"none", "done"}
JoinClient == clientPc' = "none" /\ UNCHANGED <<clientFd, held, request, response, serving>>

\* Mutant of DropQueue: requests nobody took survive into the next Start.
KeepQueue == UNCHANGED <<queue, promise>>
DropQueue ==
    /\ queue' = <<>>
    /\ promise' = [r \in Request |-> IF \E i \in DOMAIN queue : queue[i] = r THEN "shutting_down" ELSE promise[r]]

StopJoinsClientThread ==
    /\ mainPc = "joinClient"
    /\ ClientJoinable /\ JoinClient
    /\ DropQueue
    /\ mainPc' = "free"
    /\ UNCHANGED <<running, secureMode, socket, frames, scriptOutput, output, acceptT, accepted, runs, agent, reply>>

-----------------------------------------------------------------------------
(* The accept thread.                                                      *)

AcceptChecksRunning ==
    /\ acceptPc = "check"
    /\ acceptPc' = IF running THEN "poll" ELSE "done"
    /\ UNCHANGED <<running, secureMode, socket, main, incoming, existing, clientT, work, agent, reply>>

Backlog == {c \in Conn : peer[c] = "backlog"}

PollTimesOut ==
    /\ acceptPc = "poll"
    /\ Backlog = {}
    /\ acceptPc' = "check"
    /\ UNCHANGED <<running, secureMode, socket, main, incoming, existing, clientT, work, agent, reply>>

AcceptConnection(c, f) ==
    /\ acceptPc = "poll" /\ listening
    /\ peer[c] = "backlog" /\ fdConn[f] = NoConn
    /\ peer' = [peer EXCEPT ![c] = "open"]
    /\ fdConn' = [fdConn EXCEPT ![f] = c]
    /\ incoming' = f
    /\ acceptPc' = "load"
    /\ UNCHANGED <<running, secureMode, listening, clientSocket, main, existing, clientT, work,
                   inbox, kind, sentOn, reply>>

\* existingSocket = m_clientSocket.load()
LoadExisting ==
    /\ acceptPc = "load"
    /\ existing' = clientSocket
    /\ acceptPc' = IF clientSocket = NoFd THEN "join" ELSE "probe"
    /\ UNCHANGED <<running, secureMode, socket, main, incoming, clientT, work, agent, reply>>

\* poll() reports an error for a closed number, and a peek of no bytes is the
\* peer's FIN; unread requests hide the FIN unless the peer reset the connection.
\* Mutant of LooksStale: no peek, a readable socket counts as closed.
StaleWhenReadable == LET c == ConnOf(existing) IN c # NoConn => peer[c] = "closed" \/ inbox[c] # <<>>
LooksStale == LET c == ConnOf(existing) IN c # NoConn => peer[c] = "closed"
LooksAlive == LET c == ConnOf(existing) IN c # NoConn /\ ~AtEnd(c)

RejectConnection ==
    /\ acceptPc = "probe" /\ LooksAlive
    /\ CloseSocket(incoming)
    /\ incoming' = NoFd /\ existing' = NoFd
    /\ acceptPc' = "check"
    /\ UNCHANGED <<running, secureMode, listening, clientSocket, main, clientT, work, agent, reply>>

CleanUpStale ==
    /\ acceptPc = "probe" /\ LooksStale
    /\ CloseSocket(existing)
    /\ clientSocket' = NoFd /\ existing' = NoFd
    /\ acceptPc' = "join"
    /\ UNCHANGED <<running, secureMode, listening, main, incoming, clientT, work, agent, reply>>

JoinPrevious ==
    /\ acceptPc = "join"
    /\ ClientJoinable /\ JoinClient
    /\ acceptPc' = "store"
    /\ UNCHANGED <<running, secureMode, socket, main, incoming, existing, work, agent, reply>>

StoreClientSocket ==
    /\ acceptPc = "store"
    /\ clientSocket' = incoming
    /\ acceptPc' = "spawn"
    /\ UNCHANGED <<running, secureMode, listening, fdConn, main, incoming, existing, clientT, work, agent, reply>>

SpawnClientThread ==
    /\ acceptPc = "spawn"
    /\ clientPc' = "check" /\ clientFd' = incoming /\ serving' = ConnOf(incoming)
    /\ incoming' = NoFd
    /\ acceptPc' = "check"
    /\ UNCHANGED <<running, secureMode, socket, main, existing, held, request, response, work, agent, reply>>

-----------------------------------------------------------------------------
(* The client thread.                                                      *)

ClientChecksRunning ==
    /\ clientPc = "check"
    /\ clientPc' = IF running THEN "recv" ELSE "close"
    /\ UNCHANGED <<running, secureMode, socket, main, acceptT, clientFd, held, request, response, serving,
                   work, agent, reply>>

\* ReadFramedMessage returns a message.
ReadRequest ==
    /\ clientPc \in {"recv", "blocked"}
    /\ LET c == ConnOf(clientFd) IN
         /\ c # NoConn /\ (clientPc = "blocked" => c = held)
         /\ inbox[c] # <<>>
         /\ request' = Head(inbox[c])
         /\ inbox' = [inbox EXCEPT ![c] = Tail(@)]
    /\ clientPc' = "dispatch" /\ held' = NoConn
    /\ UNCHANGED <<running, secureMode, socket, main, acceptT, clientFd, response, serving, work,
                   peer, kind, sentOn, reply>>

\* ... or waits in recv(), which keeps the connection alive ...
BlockInRecv ==
    /\ clientPc = "recv"
    /\ LET c == ConnOf(clientFd) IN
         /\ c # NoConn /\ inbox[c] = <<>> /\ peer[c] # "closed"
         /\ held' = c
    /\ clientPc' = "blocked"
    /\ UNCHANGED <<running, secureMode, socket, main, acceptT, clientFd, request, response, serving,
                   work, agent, reply>>

\* Mutant of AfterFailedRead: continue where the code says break.
ContinueAfterFailedRead == "check"
AfterFailedRead == "close"

\* ... or fails: the descriptor is closed, or the peer's end is.
ReadFails ==
    /\ \/ clientPc = "recv" /\ LET c == ConnOf(clientFd) IN c # NoConn => AtEnd(c)
       \/ /\ clientPc = "blocked"
          /\ \/ AtEnd(held)
             \/ ConnOf(clientFd) # held /\ (CloseWakesRecv \/ inbox[held] # <<>>)
    /\ clientPc' = AfterFailedRead /\ held' = NoConn
    /\ UNCHANGED <<running, secureMode, socket, main, acceptT, clientFd, request, response, serving,
                   work, agent, reply>>

\* ping, get_api_version, and malformed or unknown requests.
AnswerLocally ==
    /\ clientPc = "dispatch" /\ kind[request] = "local"
    /\ runs' = [runs EXCEPT ![request] = @ + 1]
    /\ response' = "result" /\ clientPc' = "send"
    /\ UNCHANGED <<running, secureMode, socket, main, acceptT, clientFd, held, request, serving,
                   queue, promise, accepted, agent, reply>>

Refused == kind[request] = "python" /\ secureMode

RefusePython ==
    /\ clientPc = "dispatch" /\ Refused
    /\ response' = "secure_mode" /\ clientPc' = "send"
    /\ UNCHANGED <<running, secureMode, socket, main, acceptT, clientFd, held, request, serving,
                   work, agent, reply>>

PassSecureCheck ==
    /\ clientPc = "dispatch" /\ kind[request] # "local" /\ ~Refused
    /\ clientPc' = "enqueue"
    /\ UNCHANGED <<running, secureMode, socket, main, acceptT, clientFd, held, request, response, serving,
                   work, agent, reply>>

Enqueue ==
    /\ clientPc = "enqueue"
    /\ queue' = Append(queue, request)
    /\ accepted' = accepted \cup {request}
    /\ clientPc' = "wait"
    /\ UNCHANGED <<running, secureMode, socket, main, acceptT, clientFd, held, request, response, serving,
                   promise, runs, agent, reply>>

GetResponse ==
    /\ clientPc = "wait"
    /\ promise[request] # "unset"
    /\ response' = promise[request] /\ clientPc' = "send"
    /\ UNCHANGED <<running, secureMode, socket, main, acceptT, clientFd, held, request, serving,
                   work, agent, reply>>

\* Mutant of Expired: a plain wait(), with no limit.
NeverExpires == FALSE
Expired == promise[request] = "unset"

\* wait_for gives up.  The request stays queued, or goes on executing.
WaitTimesOut ==
    /\ clientPc = "wait"
    /\ Expired
    /\ response' = "timeout" /\ clientPc' = "send"
    /\ UNCHANGED <<running, secureMode, socket, main, acceptT, clientFd, held, request, serving,
                   work, agent, reply>>

\* Both sends of a reply to a peer that is gone may still succeed.
SendResponse ==
    /\ clientPc = "send"
    /\ LET c == ConnOf(clientFd) IN
         /\ c # NoConn
         /\ IF peer[c] = "closed" THEN UNCHANGED reply
                                  ELSE reply' = [reply EXCEPT ![request] = response]
    /\ clientPc' = "check" /\ request' = NoRequest /\ response' = "none"
    /\ UNCHANGED <<running, secureMode, socket, main, acceptT, clientFd, held, serving, work, agent>>

\* After refusing a malformed message ClientLoop does not look at the outcome.
SendFails ==
    /\ clientPc = "send"
    /\ LET c == ConnOf(clientFd) IN c # NoConn => peer[c] = "closed"
    /\ \/ clientPc' = "close"
       \/ clientPc' = "check" /\ kind[request] = "local"
    /\ request' = NoRequest /\ response' = "none"
    /\ UNCHANGED <<running, secureMode, socket, main, acceptT, clientFd, held, serving, work, agent, reply>>

ClientClosesSocket ==
    /\ clientPc = "close"
    /\ CloseSocket(clientFd)
    /\ clientPc' = "forget"
    /\ UNCHANGED <<running, secureMode, listening, clientSocket, main, acceptT, clientFd, held, request, response,
                   serving, work, agent, reply>>

\* Mutant of ForgetsSocket: m_clientSocket keeps the dead descriptor.
KeepsSocket == UNCHANGED clientSocket
ForgetsSocket == clientSocket' = NoFd

ClientForgetsSocket ==
    /\ clientPc = "forget"
    /\ ForgetsSocket
    /\ clientPc' = "done" /\ clientFd' = NoFd /\ serving' = NoConn
    /\ UNCHANGED <<running, secureMode, listening, fdConn, main, acceptT, held, request, response,
                   work, agent, reply>>

-----------------------------------------------------------------------------
(* The agent: connects, sends, hangs up, at any time.                      *)

Connect(c) ==
    /\ listening /\ peer[c] = "absent"
    /\ peer' = [peer EXCEPT ![c] = "backlog"]
    /\ UNCHANGED <<running, secureMode, socket, main, acceptT, clientT, work, inbox, kind, sentOn, reply>>

Connected(c) == \/ peer[c] = "backlog"
                \/ peer[c] = "open" /\ (held = c \/ \E f \in Fd : fdConn[f] = c)

Send(c, r, k) ==
    /\ Connected(c) /\ kind[r] = "unsent"
    /\ kind' = [kind EXCEPT ![r] = k]
    /\ sentOn' = [sentOn EXCEPT ![r] = c]
    /\ inbox' = [inbox EXCEPT ![c] = Append(@, r)]
    /\ UNCHANGED <<running, secureMode, socket, main, acceptT, clientT, work, peer, reply>>

HangUp(c) ==
    /\ Connected(c)
    /\ peer' = [peer EXCEPT ![c] = "closed"]
    /\ UNCHANGED <<running, secureMode, socket, main, acceptT, clientT, work, inbox, kind, sentOn, reply>>

-----------------------------------------------------------------------------
MainThread == \/ ProcessMainThreadQueue \/ FinishRequest
              \/ StopClosesListenSocket \/ StopClosesClientSocket \/ StopJoinsAcceptThread \/ StopJoinsClientThread

AcceptThread == \/ AcceptChecksRunning \/ PollTimesOut
                \/ \E c \in Conn, f \in Fd : AcceptConnection(c, f)
                \/ LoadExisting \/ RejectConnection \/ CleanUpStale
                \/ JoinPrevious \/ StoreClientSocket \/ SpawnClientThread

ClientThread == \/ ClientChecksRunning \/ ReadRequest \/ BlockInRecv \/ ReadFails
                \/ AnswerLocally \/ RefusePython \/ PassSecureCheck \/ Enqueue
                \/ GetResponse \/ WaitTimesOut \/ SendResponse \/ SendFails
                \/ ClientClosesSocket \/ ClientForgetsSocket

Editor == Stop \/ \E enabled \in BOOLEAN : Start(enabled) \/ SetSecureMode(enabled)

Agent == \E c \in Conn : \/ Connect(c) \/ HangUp(c)
                         \/ \E r \in Request, k \in Kinds \ {"unsent"} : Send(c, r, k)

Next == MainThread \/ AcceptThread \/ ClientThread \/ Editor \/ Agent

Spec == Init /\ [][Next]_vars

\* The operating system runs every thread, a poll or wait with a timeout ends,
\* and a handler returns.  Nothing obliges the editor or the agent to act.
Fairness == WF_vars(MainThread) /\ WF_vars(AcceptThread) /\ WF_vars(ClientThread)

FairSpec == Spec /\ Fairness

-----------------------------------------------------------------------------
(* Properties.                                                             *)

Answers == {"none", "result", "timeout", "secure_mode", "shutting_down"}

TypeOK ==
    /\ running \in BOOLEAN /\ secureMode \in BOOLEAN /\ listening \in BOOLEAN
    /\ clientSocket \in Fd \cup {NoFd} /\ incoming \in Fd \cup {NoFd}
    /\ existing \in Fd \cup {NoFd} /\ clientFd \in Fd \cup {NoFd}
    /\ queue \in Seq(Request) /\ frames \in Seq(Seq(Request) \ {<<>>}) /\ Len(frames) <= MaxNesting
    /\ promise \in [Request -> {"unset", "result", "shutting_down"}]
    /\ scriptOutput \in Request \cup {NoRequest} /\ output \in [Request -> Request \cup {NoRequest}]
    /\ mainPc \in {"free", "closeListen", "closeClient", "joinAccept", "joinClient"}
    /\ acceptPc \in {"none", "check", "poll", "load", "probe", "join", "store", "spawn", "done"}
    /\ clientPc \in {"none", "check", "recv", "blocked", "dispatch", "enqueue", "wait", "send", "close", "forget", "done"}
    /\ held \in Conn \cup {NoConn} /\ serving \in Conn \cup {NoConn}
    /\ request \in Request \cup {NoRequest} /\ response \in Answers
    /\ fdConn \in [Fd -> Conn \cup {NoConn}]
    /\ peer \in [Conn -> {"absent", "backlog", "open", "closed"}] /\ inbox \in [Conn -> Seq(Request)]
    /\ kind \in [Request -> Kinds] /\ sentOn \in [Request -> Conn \cup {NoConn}]
    /\ accepted \in SUBSET Request /\ runs \in [Request -> {0, 1}] /\ reply \in [Request -> Answers]

\* Where a queued request is: in m_pendingRequests, or in the local queue of a
\* drain on the main thread's stack.
Places(r) == {<<0, i>> : i \in {j \in DOMAIN queue : queue[j] = r}} \cup
             UNION {{<<f, i>> : i \in {j \in DOMAIN frames[f] : frames[f][j] = r}} : f \in DOMAIN frames}

\* A request handed to the main thread is in exactly one place until its
\* promise is set, and nowhere after: it is neither lost nor answered twice,
\* through nested drains, timeouts, reconnects, Stop and Start.
RequestsAreOwned ==
    \A r \in Request : Cardinality(Places(r)) = IF r \in accepted /\ promise[r] = "unset" THEN 1 ELSE 0

\* After Stop has returned no thread is left, nothing is queued, and every
\* descriptor the server held is closed, so that Start begins from nothing.
StoppedIsQuiet ==
    ~running /\ mainPc = "free" =>
        /\ acceptPc = "none" /\ clientPc = "none" /\ ~listening
        /\ clientSocket = NoFd /\ queue = <<>>
        /\ \A f \in Fd : fdConn[f] = NoConn

\* A client thread serves an agent that has not hung up.
Live == /\ running /\ clientPc \notin {"none", "close", "forget", "done"}
        /\ serving # NoConn /\ peer[serving] # "closed"

\* While the server runs, the descriptor a client thread reads and writes
\* names the connection it was started for, unless that peer has hung up: no
\* other thread's close of a number it remembered hits a live connection.
LiveConnectionStaysOpen == Live => fdConn[clientFd] = serving

\* m_clientSocket, which HasConnectedClient, the single-client probe and Stop
\* go by, names the live client's descriptor and never a finished one's.
ClientSocketIsCurrent ==
    /\ Live => clientSocket = clientFd
    /\ clientSocket # NoFd => clientSocket = clientFd \/ (acceptPc = "spawn" /\ clientSocket = incoming)

\* A client thread that was started on a connection answers what came from
\* there, and there, though numbers are closed and reused while a request waits.
AnswersStayOnTheConnection ==
    [][\A r \in Request : reply'[r] # reply[r] /\ serving # NoConn
          => sentOn[r] = serving /\ ConnOf(clientFd) = serving]_vars

\* Any answer is sent on the connection its request came from, by a thread too
\* that was started on a number that was already closed.
AnswersReachTheirSender ==
    [][\A r \in Request : reply'[r] # reply[r] => sentOn[r] = ConnOf(clientFd)]_vars

\* Requests are carried out and answered as AtMostOnce promises.
Remote == INSTANCE AtMostOnce
RequestsRunAtMostOnce == Remote!Spec

\* Stop() returns, whatever the client and the main thread were doing.
StopReturns == (mainPc # "free") ~> (mainPc = "free")

\* The client thread does not wait for the main thread for ever, though the
\* main thread may itself be in Stop, waiting for the client thread.
WaitsEnd == (clientPc = "wait") ~> (clientPc # "wait")

\* While the server runs, a connection attempt is installed as the client or
\* turned away: neither the backlog nor the accept thread keeps it for ever,
\* however the previous client ended.
Pending(c) == running /\ (peer[c] = "backlog" \/ ConnOf(incoming) = c)
ConnectionsAreTakenUp == \A c \in Conn : Pending(c) ~> ~Pending(c)

\* A result that reaches its sender is the output of that sender's script,
\* though a drain inside a script replaces the globals of the script around it:
\* by the time another request can be drained there, the sender of the outer one
\* has been told that it timed out, and the mixed-up result is thrown away.
OutputIsOwn == \A r \in Request : reply[r] = "result" /\ kind[r] = "python" => output[r] = r
=============================================================================
