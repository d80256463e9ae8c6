------------------------- MODULE AgentServerProofs -------------------------
(***************************************************************************)
(* Proofs about AgentServer, for any number of connections, requests and   *)
(* descriptors.  About its threads: Stop leaves nothing behind, no thread  *)
(* closes the live client's descriptor, m_clientSocket names it, and a     *)
(* client thread answers on the connection it was started on.  About its   *)
(* requests: a request that was queued is in one place until its promise   *)
(* is set, the server implements AtMostOnce, and a result that reaches its *)
(* sender is that sender's.                                                *)
(***************************************************************************)
EXTENDS AgentServer, FiniteSetTheorems, TLAPS

-----------------------------------------------------------------------------
(* The inductive invariant: threads and descriptors.                       *)

Types ==
    /\ running \in BOOLEAN /\ listening \in BOOLEAN
    /\ mainPc \in {"free", "closeListen", "closeClient", "joinAccept", "joinClient"}
    /\ acceptPc \in {"none", "check", "poll", "load", "probe", "join", "store", "spawn", "done"}
    /\ clientPc \in {"none", "check", "recv", "blocked", "dispatch", "enqueue", "wait", "send", "close", "forget", "done"}
    /\ clientSocket \in Fd \cup {NoFd} /\ incoming \in Fd \cup {NoFd}
    /\ existing \in Fd \cup {NoFd} /\ clientFd \in Fd \cup {NoFd}
    /\ fdConn \in [Fd -> Conn \cup {NoConn}] /\ serving \in Conn \cup {NoConn}
    /\ peer \in [Conn -> {"absent", "backlog", "open", "closed"}]

\* Where the threads are, one by the other.
Threads ==
    /\ listening <=> running \/ mainPc = "closeListen"
    /\ mainPc = "free" => (running <=> acceptPc # "none") /\ acceptPc # "done"
    /\ mainPc # "free" => ~running /\ (mainPc = "joinClient" <=> acceptPc = "none")
    /\ ~running /\ mainPc = "free" => clientPc = "none" /\ queue = <<>>
    /\ acceptPc \in {"store", "spawn"} => clientPc = "none"

\* The numbers a thread remembers, and those that are open.
Numbers ==
    /\ incoming # NoFd <=> acceptPc \in {"load", "probe", "join", "store", "spawn"}
    /\ existing # NoFd <=> acceptPc = "probe"
    /\ clientFd # NoFd <=> clientPc \notin {"none", "done"}
    /\ \A f \in Fd : fdConn[f] # NoConn => f = incoming \/ (f = clientFd /\ clientPc # "forget")
    /\ clientSocket # NoFd => clientSocket = clientFd \/ (acceptPc = "spawn" /\ clientSocket = incoming)

\* A client thread that was started on a connection and may still use it.
Busy == clientPc \notin {"none", "close", "forget", "done"} /\ serving # NoConn

\* Its number names that connection or nothing, and nothing else will come
\* under that number before the thread ends.
NumberIsKept ==
    Busy => /\ fdConn[clientFd] \in {serving, NoConn}
            /\ fdConn[clientFd] = NoConn => acceptPc = "join" \/ ~listening
            /\ incoming # clientFd

\* While its peer is there, everybody goes by its number.
LiveIsKnown ==
    /\ Live => /\ fdConn[clientFd] = serving /\ clientSocket = clientFd
               /\ acceptPc = "probe" => existing = clientFd
    /\ running /\ acceptPc = "spawn" => clientSocket = incoming

-----------------------------------------------------------------------------
(* The inductive invariant: requests.                                      *)

RequestTypes ==
    /\ inbox \in [Conn -> Seq(Request)] /\ kind \in [Request -> Kinds]
    /\ sentOn \in [Request -> Conn \cup {NoConn}]
    /\ request \in Request \cup {NoRequest} /\ response \in Answers
    /\ queue \in Seq(Request) /\ frames \in Seq(Seq(Request))
    /\ \A f \in DOMAIN frames : frames[f] # <<>>
    /\ promise \in [Request -> {"unset", "result", "shutting_down"}]
    /\ accepted \in SUBSET Request /\ runs \in [Request -> {0, 1}] /\ reply \in [Request -> Answers]

Working == clientPc \in {"dispatch", "enqueue", "wait", "send"}

\* Nobody has done anything about r.
Fresh(r) == r \notin accepted /\ runs[r] = 0 /\ reply[r] = "none"

\* Requests wait once, where they were sent.
Unread ==
    /\ \A r \in Request : kind[r] = "unsent" => Fresh(r)
    /\ \A c \in Conn : \A i \in DOMAIN inbox[c] :
          /\ kind[inbox[c][i]] # "unsent" /\ sentOn[inbox[c][i]] = c /\ Fresh(inbox[c][i])
          /\ \A j \in DOMAIN inbox[c] : inbox[c][i] = inbox[c][j] => i = j
          /\ Working => inbox[c][i] # request

\* The request ClientLoop works on, and the answer it has for it.
InHand ==
    Working =>
        /\ request \in Request /\ kind[request] # "unsent" /\ reply[request] = "none"
        /\ serving # NoConn => sentOn[request] = serving
        /\ clientPc \in {"dispatch", "enqueue"} => Fresh(request)
        /\ clientPc = "wait" => request \in accepted
        /\ clientPc = "send" =>
              /\ response # "none"
              /\ response = "result" => runs[request] = 1 /\ (request \in accepted => promise[request] = "result")
              /\ response = "secure_mode" => Fresh(request)
              /\ response = "shutting_down" => promise[request] = "shutting_down"

\* A request that was queued and is in the queue, or in a drain's, where only
\* the first is being carried out.
Undone(r) == r \in accepted /\ promise[r] = "unset" /\ reply[r] \in {"none", "timeout"}

Queued ==
    /\ \A i \in DOMAIN queue :
          /\ Undone(queue[i]) /\ runs[queue[i]] = 0
          /\ \A j \in DOMAIN queue : queue[i] = queue[j] => i = j
    /\ \A f \in DOMAIN frames : \A i \in DOMAIN frames[f] :
          /\ Undone(frames[f][i]) /\ runs[frames[f][i]] = IF i = 1 THEN 1 ELSE 0
          /\ \A j \in DOMAIN queue : frames[f][i] # queue[j]
          /\ \A g \in DOMAIN frames : \A j \in DOMAIN frames[g] : frames[f][i] = frames[g][j] => f = g /\ i = j

\* ... and one that is in neither is done with.
Promises ==
    \A r \in Request :
        /\ r \notin accepted => promise[r] = "unset"
        /\ promise[r] = "result" => runs[r] = 1
        /\ promise[r] = "shutting_down" => runs[r] = 0
        /\ r \in accepted /\ promise[r] = "unset" =>
              \/ \E i \in DOMAIN queue : queue[i] = r
              \/ \E f \in DOMAIN frames : \E i \in DOMAIN frames[f] : frames[f][i] = r

IInv == /\ Types /\ Threads /\ Numbers /\ NumberIsKept /\ LiveIsKnown
        /\ RequestTypes /\ Unread /\ InHand /\ Queued /\ Promises

LEMMA ThreadsStep ==
    ASSUME IInv, Next
    PROVE  (Types /\ Threads /\ Numbers /\ NumberIsKept /\ LiveIsKnown)'
<1> USE NoValues DEF IInv, Types, Threads, Numbers, NumberIsKept, LiveIsKnown, Busy, Live,
                     socket, main, acceptT, clientT, work, agent
<1>1. CASE ProcessMainThreadQueue
  BY <1>1 DEF ProcessMainThreadQueue, TakeQueue, Execute
<1>2. CASE FinishRequest
  BY <1>2 DEF FinishRequest, Execute
<1>3. CASE StopClosesListenSocket
  <2>1. /\ mainPc = "closeListen" /\ mainPc' = "closeClient" /\ listening' = FALSE
        /\ peer' = [c \in Conn |-> IF peer[c] = "backlog" THEN "closed" ELSE peer[c]]
        /\ UNCHANGED <<running, clientSocket, fdConn, acceptT, clientT, queue>>
    BY <1>3 DEF StopClosesListenSocket, StopListening, ResetBacklog
  <2>2. peer' \in [Conn -> {"absent", "backlog", "open", "closed"}]
    BY <2>1
  <2>3. Types' /\ Threads'
    BY <2>1, <2>2
  <2>4. Numbers' /\ NumberIsKept' /\ LiveIsKnown'
    BY <2>1
  <2>5. QED BY <2>3, <2>4
<1>4. CASE StopClosesClientSocket
  BY <1>4 DEF StopClosesClientSocket, ShutClient, CloseSocket
<1>5. CASE StopJoinsAcceptThread
  BY <1>5 DEF StopJoinsAcceptThread
<1>6. CASE StopJoinsClientThread
  BY <1>6 DEF StopJoinsClientThread, ClientJoinable, JoinClient, DropQueue
<1>7. CASE AcceptChecksRunning
  BY <1>7 DEF AcceptChecksRunning
<1>8. CASE PollTimesOut
  BY <1>8 DEF PollTimesOut
<1>9. CASE \E c \in Conn, f \in Fd : AcceptConnection(c, f)
  BY <1>9 DEF AcceptConnection
<1>10. CASE LoadExisting
  BY <1>10 DEF LoadExisting
<1>11. CASE RejectConnection
  BY <1>11 DEF RejectConnection, CloseSocket
<1>12. CASE CleanUpStale
  BY <1>12 DEF CleanUpStale, CloseSocket, LooksStale, ConnOf
<1>13. CASE JoinPrevious
  BY <1>13 DEF JoinPrevious, ClientJoinable, JoinClient
<1>14. CASE StoreClientSocket
  BY <1>14 DEF StoreClientSocket
<1>15. CASE SpawnClientThread
  BY <1>15 DEF SpawnClientThread, ConnOf
<1>16. CASE ClientChecksRunning
  BY <1>16 DEF ClientChecksRunning
<1>17. CASE ReadRequest
  BY <1>17 DEF ReadRequest, ConnOf
<1>18. CASE BlockInRecv
  BY <1>18 DEF BlockInRecv
<1>19. CASE ReadFails
  BY <1>19 DEF ReadFails, AfterFailedRead
<1>20. CASE AnswerLocally
  BY <1>20 DEF AnswerLocally
<1>21. CASE RefusePython
  BY <1>21 DEF RefusePython
<1>22. CASE PassSecureCheck
  BY <1>22 DEF PassSecureCheck
<1>23. CASE Enqueue
  BY <1>23 DEF Enqueue
<1>24. CASE GetResponse
  BY <1>24 DEF GetResponse
<1>25. CASE WaitTimesOut
  BY <1>25 DEF WaitTimesOut
<1>26. CASE SendResponse
  BY <1>26 DEF SendResponse
<1>27. CASE SendFails
  BY <1>27 DEF SendFails
<1>28. CASE ClientClosesSocket
  BY <1>28 DEF ClientClosesSocket, CloseSocket
<1>29. CASE ClientForgetsSocket
  BY <1>29 DEF ClientForgetsSocket, ForgetsSocket
<1>30. CASE Stop
  <2>1. /\ mainPc = "free" /\ running /\ mainPc' = "closeListen" /\ running' = FALSE
        /\ UNCHANGED <<socket, acceptT, clientT, queue, peer>>
    BY <1>30 DEF Stop
  <2>2. Types' /\ Threads'
    BY <2>1
  <2>3. QED BY <2>1, <2>2
<1>31. CASE \E secure \in BOOLEAN : Start(secure)
  <2>1. /\ mainPc = "free" /\ ~running
        /\ UNCHANGED <<mainPc, clientSocket, fdConn, incoming, existing, clientPc, clientFd, serving, queue, peer>>
        /\ \/ running' = TRUE /\ listening' = TRUE /\ acceptPc' = "check"
           \/ UNCHANGED <<running, listening, acceptPc>>
    BY <1>31 DEF Start
  <2>2. acceptPc = "none" /\ clientPc = "none" /\ clientSocket = NoFd
    BY <2>1
  <2>3. Types'
    BY <2>1
  <2>4. Threads'
    BY <2>1, <2>2
  <2>5. Numbers' /\ NumberIsKept' /\ LiveIsKnown'
    BY <2>1, <2>2
  <2>6. QED BY <2>3, <2>4, <2>5
<1>32. CASE \E enabled \in BOOLEAN : SetSecureMode(enabled)
  BY <1>32 DEF SetSecureMode
<1>33. CASE \E c \in Conn : Connect(c)
  BY <1>33 DEF Connect
<1>34. CASE \E c \in Conn : HangUp(c)
  BY <1>34 DEF HangUp
<1>35. CASE \E c \in Conn, r \in Request, k \in Kinds \ {"unsent"} : Send(c, r, k)
  BY <1>35 DEF Send
<1>36. QED
  BY <1>1, <1>2, <1>3, <1>4, <1>5, <1>6, <1>7, <1>8, <1>9, <1>10, <1>11, <1>12, <1>13, <1>14, <1>15, <1>16,
     <1>17, <1>18, <1>19, <1>20, <1>21, <1>22, <1>23, <1>24, <1>25, <1>26, <1>27, <1>28, <1>29, <1>30,
     <1>31, <1>32, <1>33, <1>34, <1>35
     DEF Next, MainThread, AcceptThread, ClientThread, Editor, Agent

\* Steps that hand no request on.
LEMMA RequestsStay ==
    ASSUME IInv,
           UNCHANGED <<inbox, kind, sentOn, request, response, queue, frames, promise, accepted, runs, reply>>,
           Working' => clientPc' = clientPc /\ serving' = serving
    PROVE  (RequestTypes /\ Unread /\ InHand /\ Queued /\ Promises)'
<1> USE DEF IInv
<1>1. RequestTypes'
  BY DEF RequestTypes, Kinds, Answers
<1>2. Working' => Working
  BY DEF Working
<1>3. Unread'
  BY <1>2 DEF Unread, Fresh
<1>4. InHand'
  BY <1>2 DEF InHand, Fresh
<1>5. Queued'
  BY DEF Queued, Undone
<1>6. Promises'
  BY DEF Promises
<1>7. QED BY <1>1, <1>3, <1>4, <1>5, <1>6

LEMMA RequestsStep ==
    ASSUME IInv, Next
    PROVE  (RequestTypes /\ Unread /\ InHand /\ Queued /\ Promises)'
<1> USE NoValues DEF IInv, socket, main, acceptT, clientT, work, agent
<1>1. CASE ProcessMainThreadQueue
  <2>1. /\ queue # <<>> /\ queue' = <<>> /\ frames' = Append(frames, queue)
        /\ runs' = [runs EXCEPT ![Head(queue)] = @ + 1]
        /\ UNCHANGED <<clientT, promise, accepted, agent, reply>>
    BY <1>1 DEF ProcessMainThreadQueue, TakeQueue, Execute
  <2>2. Head(queue) = queue[1] /\ 1 \in DOMAIN queue /\ Head(queue) \in Request
    BY <2>1 DEF RequestTypes
  <2>3. RequestTypes'
    BY <2>1, <2>2 DEF RequestTypes, Queued, Kinds, Answers
  <2>4. Unread' /\ InHand'
    BY <2>1, <2>2 DEF RequestTypes, Unread, InHand, Queued, Promises, Working, Fresh, Undone
  <2>5. Queued'
    BY <2>1, <2>2 DEF RequestTypes, Queued, Undone
  <2>6. Promises'
    <3>1. ASSUME NEW f \in DOMAIN frames PROVE f \in DOMAIN frames' /\ frames'[f] = frames[f]
      BY <2>1 DEF RequestTypes
    <3>2. Len(frames') \in DOMAIN frames' /\ frames'[Len(frames')] = queue
      BY <2>1 DEF RequestTypes
    <3>3. \A r \in Request : r \in accepted /\ promise[r] = "unset" =>
             \E f \in DOMAIN frames' : \E i \in DOMAIN frames'[f] : frames'[f][i] = r
      BY <3>1, <3>2 DEF Promises
    <3>4. \A r \in Request : promise[r] # "unset" => runs'[r] = runs[r]
      BY <2>1, <2>2 DEF RequestTypes, Queued, Undone
    <3>5. QED BY <2>1, <3>3, <3>4 DEF Promises
  <2>7. QED BY <2>3, <2>4, <2>5, <2>6
<1>2. CASE FinishRequest
  <2> DEFINE top  == Len(frames)
             done == Head(frames[top])
             rest == Tail(frames[top])
  <2>1. /\ frames # <<>> /\ promise' = [promise EXCEPT ![done] = "result"]
        /\ UNCHANGED <<clientPc, request, response, serving, queue, accepted, inbox, kind, sentOn, reply>>
    BY <1>2 DEF FinishRequest
  <2>2. \/ /\ rest # <<>> /\ frames' = [frames EXCEPT ![top] = rest]
           /\ runs' = [runs EXCEPT ![Head(rest)] = @ + 1]
        \/ rest = <<>> /\ frames' = SubSeq(frames, 1, top - 1) /\ runs' = runs
    BY <1>2 DEF FinishRequest, Execute
  <2>3. /\ frames \in Seq(Seq(Request)) /\ DOMAIN frames = 1..top /\ top \in DOMAIN frames
        /\ frames[top] \in Seq(Request) /\ frames[top] # <<>>
    BY <2>1 DEF RequestTypes
  <2>4. 1 \in DOMAIN frames[top] /\ done = frames[top][1] /\ done \in Request
    BY <2>3
  <2>5. rest \in Seq(Request) /\ \A i \in DOMAIN rest :
           i \in Nat \ {0} /\ i + 1 \in DOMAIN frames[top] /\ rest[i] = frames[top][i + 1]
    BY <2>3
  <2>6. \A i \in DOMAIN frames[top] : i # 1 => i - 1 \in DOMAIN rest /\ rest[i - 1] = frames[top][i]
    BY <2>3
  <2>7. rest # <<>> => /\ Head(rest) = rest[1] /\ 1 \in DOMAIN rest
                       /\ Head(rest) = frames[top][2] /\ 2 \in DOMAIN frames[top]
    BY <2>3
  <2>8. DOMAIN rest # {} => rest # <<>>
    BY <2>3
  <2> HIDE DEF rest, done
  \* The new frames, by the old ones.
  <2>9. /\ frames' \in Seq(Seq(Request))
        /\ DOMAIN frames' = IF rest # <<>> THEN DOMAIN frames ELSE DOMAIN frames \ {top}
        /\ \A f \in DOMAIN frames' : frames'[f] = IF f = top THEN rest ELSE frames[f]
    <3>1. CASE rest # <<>>
      <4>1. frames' = [frames EXCEPT ![top] = rest]
        BY <2>2, <3>1
      <4>2. QED BY <4>1, <2>3, <2>5, <3>1
    <3>2. CASE rest = <<>>
      <4>1. frames' = SubSeq(frames, 1, top - 1)
        BY <2>2, <3>2
      <4>2. /\ frames' \in Seq(Seq(Request)) /\ DOMAIN frames' = 1..(top - 1)
            /\ \A f \in 1..(top - 1) : frames'[f] = frames[f]
        BY <4>1, <2>3
      <4>3. top \in Nat
        BY <2>3
      <4>4. QED BY <4>2, <4>3, <2>3, <3>2
    <3>3. QED BY <3>1, <3>2
  <2> HIDE DEF top
  <2>a. ASSUME NEW f \in DOMAIN frames', f = top PROVE rest # <<>> /\ frames'[f] = rest
    BY <2>9, <2>a
  <2>b. ASSUME NEW f \in DOMAIN frames', f # top PROVE f \in DOMAIN frames /\ frames'[f] = frames[f]
    BY <2>9, <2>b
  <2>c. ASSUME NEW f \in DOMAIN frames, f # top \/ rest # <<>> PROVE f \in DOMAIN frames'
    BY <2>9, <2>c
  \* Where the requests of the new frames were.
  <2>10. \A f \in DOMAIN frames' : \A i \in DOMAIN frames'[f] :
           /\ f \in DOMAIN frames
           /\ f = top => i \in Nat \ {0} /\ i + 1 \in DOMAIN frames[f] /\ frames'[f][i] = frames[f][i + 1] /\ rest # <<>>
           /\ f # top => i \in DOMAIN frames[f] /\ frames'[f][i] = frames[f][i]
    <3>1. ASSUME NEW f \in DOMAIN frames', f = top, NEW i \in DOMAIN frames'[f]
          PROVE  i \in Nat \ {0} /\ i + 1 \in DOMAIN frames[f] /\ frames'[f][i] = frames[f][i + 1] /\ rest # <<>>
      <4>1. frames'[f] = rest /\ rest # <<>>
        BY <2>a, <3>1
      <4>2. i \in DOMAIN rest
        BY <3>1, <4>1
      <4>3. i \in Nat \ {0} /\ i + 1 \in DOMAIN frames[top] /\ rest[i] = frames[top][i + 1]
        BY <2>5, <4>2
      <4>4. QED BY <3>1, <4>1, <4>3
    <3>2. ASSUME NEW f \in DOMAIN frames', f # top, NEW i \in DOMAIN frames'[f]
          PROVE  i \in DOMAIN frames[f] /\ frames'[f][i] = frames[f][i]
      <4>1. frames'[f] = frames[f]
        BY <2>b, <3>2
      <4>2. QED BY <3>2, <4>1
    <3>3. QED BY <2>3, <2>b, <3>1, <3>2
  <2>11. \A f \in DOMAIN frames : \A i \in DOMAIN frames[f] :
           frames[f][i] # done => \E g \in DOMAIN frames' : \E j \in DOMAIN frames'[g] : frames'[g][j] = frames[f][i]
    <3>1. ASSUME NEW i \in DOMAIN frames[top], frames[top][i] # done
          PROVE  \E j \in DOMAIN frames'[top] : top \in DOMAIN frames' /\ frames'[top][j] = frames[top][i]
      <4>1. i - 1 \in DOMAIN rest /\ rest[i - 1] = frames[top][i]
        BY <2>4, <2>6, <3>1
      <4>2. top \in DOMAIN frames' /\ frames'[top] = rest
        <5>1. rest # <<>>
          BY <2>8, <4>1
        <5>2. QED BY <2>3, <2>a, <2>c, <5>1
      <4>3. QED BY <4>1, <4>2
    <3>2. ASSUME NEW f \in DOMAIN frames, f # top
          PROVE  f \in DOMAIN frames' /\ frames'[f] = frames[f]
      BY <2>b, <2>c, <3>2
    <3>3. SUFFICES ASSUME NEW f \in DOMAIN frames, NEW i \in DOMAIN frames[f], frames[f][i] # done
                   PROVE  \E g \in DOMAIN frames' : \E j \in DOMAIN frames'[g] : frames'[g][j] = frames[f][i]
      OBVIOUS
    <3>4. CASE f = top
      <4>1. PICK j \in DOMAIN frames'[top] : top \in DOMAIN frames' /\ frames'[top][j] = frames[top][i]
        BY <3>1, <3>3, <3>4
      <4>2. QED BY <3>4, <4>1
    <3>5. CASE f # top
      BY <3>2, <3>3, <3>5
    <3>6. QED BY <3>4, <3>5
  <2>12. done \in accepted /\ promise[done] = "unset" /\ runs[done] = 1
    BY <2>3, <2>4 DEF Queued, Undone
  <2>13. /\ \A i \in DOMAIN queue : queue[i] \in Request
         /\ \A f \in DOMAIN frames : \A i \in DOMAIN frames[f] : frames[f][i] \in Request
         /\ promise \in [Request -> {"unset", "result", "shutting_down"}] /\ runs \in [Request -> {0, 1}]
    BY DEF RequestTypes
  <2>14. rest # <<>> => /\ Head(rest) \in accepted /\ runs[Head(rest)] = 0 /\ promise[Head(rest)] = "unset"
                        /\ Head(rest) \in Request /\ Head(rest) # done
    BY <2>3, <2>4, <2>7, <2>13 DEF Queued, Undone
  \* Only the next request's count changes.
  <2>15. /\ runs' \in [Request -> {0, 1}]
         /\ \A r \in Request : runs'[r] = IF rest # <<>> /\ r = Head(rest) THEN 1 ELSE runs[r]
    <3>1. CASE rest # <<>>
      <4>1. runs' = [runs EXCEPT ![Head(rest)] = @ + 1]
        BY <2>2, <3>1
      <4>2. QED BY <4>1, <2>13, <2>14, <3>1
    <3>2. CASE rest = <<>>
      BY <2>2, <2>13, <3>2
    <3>3. QED BY <3>1, <3>2
  <2>16. /\ promise' \in [Request -> {"unset", "result", "shutting_down"}]
         /\ \A r \in Request : promise'[r] = IF r = done THEN "result" ELSE promise[r]
    BY <2>1, <2>4, <2>13
  <2>17. RequestTypes'
    <3>1. \A f \in DOMAIN frames' : frames'[f] # <<>>
      <4>1. \A f \in DOMAIN frames : frames[f] # <<>>
        BY DEF RequestTypes
      <4>2. ASSUME NEW f \in DOMAIN frames' PROVE frames'[f] # <<>>
        <5>1. CASE f = top
          BY <2>a, <5>1
        <5>2. CASE f # top
          BY <2>b, <4>1, <5>2
        <5>3. QED BY <5>1, <5>2
      <4>3. QED BY <4>2
    <3>2. QED BY <2>1, <2>9, <2>15, <2>16, <3>1 DEF RequestTypes, Kinds, Answers
  <2>18. Unread'
    <3>1. \A r \in Request : Fresh(r) => Fresh(r)'
      BY <2>1, <2>14, <2>15 DEF Fresh
    <3>2. inbox \in [Conn -> Seq(Request)] /\ \A c \in Conn : \A i \in DOMAIN inbox[c] : inbox[c][i] \in Request
      BY DEF RequestTypes
    <3>3. QED BY <2>1, <3>1, <3>2 DEF Unread, Working
  <2>19. InHand'
    BY <2>1, <2>4, <2>12, <2>14, <2>15, <2>16 DEF InHand, Working, Fresh
  <2>20. Queued'
    <3>1. ASSUME NEW i \in DOMAIN queue
          PROVE  /\ Undone(queue[i])' /\ runs'[queue[i]] = 0
                 /\ \A j \in DOMAIN queue : queue[i] = queue[j] => i = j
      <4>1. queue[i] # done /\ queue[i] \in Request /\ (rest # <<>> => queue[i] # Head(rest))
        BY <2>3, <2>4, <2>7, <2>13 DEF Queued
      <4>2. Undone(queue[i]) /\ runs[queue[i]] = 0 /\ \A j \in DOMAIN queue : queue[i] = queue[j] => i = j
        BY DEF Queued
      <4>3. runs'[queue[i]] = 0
        BY <2>15, <4>1, <4>2
      <4>4. QED BY <2>1, <2>16, <4>1, <4>2, <4>3 DEF Undone
    <3>2. ASSUME NEW f \in DOMAIN frames', NEW i \in DOMAIN frames'[f]
          PROVE  /\ frames'[f][i] \in accepted /\ promise'[frames'[f][i]] = "unset"
                 /\ reply[frames'[f][i]] \in {"none", "timeout"}
                 /\ runs'[frames'[f][i]] = IF i = 1 THEN 1 ELSE 0
                 /\ \A j \in DOMAIN queue : frames'[f][i] # queue[j]
      <4>1. CASE f = top
        <5>1. /\ i \in Nat \ {0} /\ i + 1 \in DOMAIN frames[top] /\ frames'[f][i] = frames[top][i + 1] /\ rest # <<>>
              /\ top \in DOMAIN frames
          BY <2>10, <4>1
        <5>2. /\ Undone(frames[top][i + 1]) /\ runs[frames[top][i + 1]] = 0
              /\ \A j \in DOMAIN queue : frames[top][i + 1] # queue[j]
          BY <5>1 DEF Queued
        <5>3. frames[top][i + 1] # done /\ frames[top][i + 1] \in Request /\ (frames[top][i + 1] = Head(rest) <=> i = 1)
          BY <2>4, <2>7, <2>13, <5>1 DEF Queued
        <5>4. QED BY <2>15, <2>16, <5>1, <5>2, <5>3 DEF Undone
      <4>2. CASE f # top
        <5>1. f \in DOMAIN frames /\ i \in DOMAIN frames[f] /\ frames'[f][i] = frames[f][i]
          BY <2>10, <4>2
        <5>2. /\ Undone(frames[f][i]) /\ runs[frames[f][i]] = IF i = 1 THEN 1 ELSE 0
              /\ \A j \in DOMAIN queue : frames[f][i] # queue[j]
          BY <5>1 DEF Queued
        <5>3. frames[f][i] # done /\ frames[f][i] \in Request /\ (rest # <<>> => frames[f][i] # Head(rest))
          BY <2>3, <2>4, <2>7, <2>13, <4>2, <5>1 DEF Queued
        <5>4. QED BY <2>15, <2>16, <5>1, <5>2, <5>3 DEF Undone
      <4>3. QED BY <4>1, <4>2
    <3>3. ASSUME NEW f \in DOMAIN frames', NEW i \in DOMAIN frames'[f],
                 NEW g \in DOMAIN frames', NEW j \in DOMAIN frames'[g], frames'[f][i] = frames'[g][j]
          PROVE  f = g /\ i = j
      <4>1. /\ f \in DOMAIN frames /\ g \in DOMAIN frames
            /\ f = top => i \in Nat \ {0} /\ i + 1 \in DOMAIN frames[f] /\ frames'[f][i] = frames[f][i + 1]
            /\ f # top => i \in DOMAIN frames[f] /\ frames'[f][i] = frames[f][i]
            /\ g = top => j \in Nat \ {0} /\ j + 1 \in DOMAIN frames[g] /\ frames'[g][j] = frames[g][j + 1]
            /\ g # top => j \in DOMAIN frames[g] /\ frames'[g][j] = frames[g][j]
        BY <2>10
      <4>2. \A a, b \in DOMAIN frames : \A k \in DOMAIN frames[a], l \in DOMAIN frames[b] :
               frames[a][k] = frames[b][l] => a = b /\ k = l
        BY DEF Queued
      <4>3. f = g
        BY <3>3, <4>1, <4>2
      <4>4. QED BY <3>3, <4>1, <4>2, <4>3
    <3>4. QED BY <2>1, <3>1, <3>2, <3>3 DEF Queued, Undone
  <2>21. Promises'
    <3>1. ASSUME NEW r \in Request, r \in accepted, promise'[r] = "unset"
          PROVE  \/ \E i \in DOMAIN queue : queue[i] = r
                 \/ \E f \in DOMAIN frames' : \E i \in DOMAIN frames'[f] : frames'[f][i] = r
      BY <2>11, <2>16, <3>1 DEF Promises
    <3>2. ASSUME NEW r \in Request
          PROVE  /\ r \notin accepted => promise'[r] = "unset"
                 /\ promise'[r] = "result" => runs'[r] = 1
                 /\ promise'[r] = "shutting_down" => runs'[r] = 0
      BY <2>12, <2>14, <2>15, <2>16 DEF Promises
    <3>3. QED BY <2>1, <3>1, <3>2 DEF Promises
  <2>22. QED BY <2>17, <2>18, <2>19, <2>20, <2>21
<1>3. CASE StopClosesListenSocket
  BY <1>3, RequestsStay DEF StopClosesListenSocket, StopListening, ResetBacklog, Working
<1>4. CASE StopClosesClientSocket
  BY <1>4, RequestsStay DEF StopClosesClientSocket, ShutClient, CloseSocket, Working
<1>5. CASE StopJoinsAcceptThread
  BY <1>5, RequestsStay DEF StopJoinsAcceptThread, Working
<1>6. CASE StopJoinsClientThread
  <2>1. /\ clientPc' = "none" /\ queue' = <<>>
        /\ promise' = [r \in Request |-> IF \E i \in DOMAIN queue : queue[i] = r THEN "shutting_down" ELSE promise[r]]
        /\ UNCHANGED <<frames, request, response, serving, accepted, runs, agent, reply>>
    BY <1>6 DEF StopJoinsClientThread, JoinClient, DropQueue
  <2>2. RequestTypes'
    BY <2>1 DEF RequestTypes, Kinds, Answers
  <2>3. Unread' /\ InHand'
    BY <2>1 DEF Unread, InHand, Working, Fresh
  <2>4. Queued'
    BY <2>1 DEF RequestTypes, Queued, Undone
  <2>5. Promises'
    <3>1. \A i \in DOMAIN queue : queue[i] \in accepted /\ runs[queue[i]] = 0
      BY DEF Queued, Undone
    <3>2. ASSUME NEW r \in Request
          PROVE  promise'[r] = IF \E i \in DOMAIN queue : queue[i] = r THEN "shutting_down" ELSE promise[r]
      BY <2>1
    <3>3. ASSUME NEW r \in Request
          PROVE  /\ r \notin accepted => promise'[r] = "unset"
                 /\ promise'[r] = "result" => runs[r] = 1
                 /\ promise'[r] = "shutting_down" => runs[r] = 0
                 /\ r \in accepted /\ promise'[r] = "unset" =>
                      \E f \in DOMAIN frames : \E i \in DOMAIN frames[f] : frames[f][i] = r
      BY <3>1, <3>2 DEF Promises
    <3>4. QED BY <2>1, <3>3 DEF Promises
  <2>6. QED BY <2>2, <2>3, <2>4, <2>5
<1>7. CASE AcceptChecksRunning
  BY <1>7, RequestsStay DEF AcceptChecksRunning, Working
<1>8. CASE PollTimesOut
  BY <1>8, RequestsStay DEF PollTimesOut, Working
<1>9. CASE \E c \in Conn, f \in Fd : AcceptConnection(c, f)
  BY <1>9, RequestsStay DEF AcceptConnection, Working
<1>10. CASE LoadExisting
  BY <1>10, RequestsStay DEF LoadExisting, Working
<1>11. CASE RejectConnection
  BY <1>11, RequestsStay DEF RejectConnection, Working
<1>12. CASE CleanUpStale
  BY <1>12, RequestsStay DEF CleanUpStale, Working
<1>13. CASE JoinPrevious
  BY <1>13, RequestsStay DEF JoinPrevious, ClientJoinable, JoinClient, Working
<1>14. CASE StoreClientSocket
  BY <1>14, RequestsStay DEF StoreClientSocket, Working
<1>15. CASE SpawnClientThread
  BY <1>15, RequestsStay DEF SpawnClientThread, Working, Types, Threads
<1>16. CASE ClientChecksRunning
  BY <1>16, RequestsStay DEF ClientChecksRunning, Working
<1>17. CASE ReadRequest
  BY <1>17 DEF ReadRequest, ConnOf, Types, RequestTypes, Unread, InHand, Queued, Promises, Working, Fresh, Undone,
               Answers, Kinds, Numbers, NumberIsKept, Busy
<1>18. CASE BlockInRecv
  BY <1>18, RequestsStay DEF BlockInRecv, Working
<1>19. CASE ReadFails
  BY <1>19, RequestsStay DEF ReadFails, AfterFailedRead, Working
<1>20. CASE AnswerLocally
  <2>1. /\ clientPc = "dispatch" /\ clientPc' = "send" /\ response' = "result"
        /\ runs' = [runs EXCEPT ![request] = @ + 1]
        /\ UNCHANGED <<request, serving, queue, frames, promise, accepted, agent, reply>>
    BY <1>20 DEF AnswerLocally
  <2>2. request \in Request /\ Fresh(request) /\ Working /\ Working'
    BY <2>1 DEF InHand, Working
  <2>3. RequestTypes'
    BY <2>1, <2>2 DEF RequestTypes, Fresh, Kinds, Answers
  <2>4. Unread'
    BY <2>1, <2>2 DEF RequestTypes, Unread, InHand, Fresh
  <2>5. InHand'
    BY <2>1, <2>2 DEF RequestTypes, InHand, Fresh
  <2>6. \A r \in accepted : runs'[r] = runs[r]
    BY <2>1, <2>2 DEF RequestTypes, Fresh
  <2>7. Queued'
    BY <2>1, <2>6 DEF Queued, Undone
  <2>8. Promises'
    BY <2>1, <2>6 DEF Promises
  <2>9. QED BY <2>3, <2>4, <2>5, <2>7, <2>8
<1>21. CASE RefusePython
  BY <1>21 DEF RefusePython, Types, RequestTypes, Unread, InHand, Queued, Promises, Working, Fresh, Undone,
               Answers, Kinds
<1>22. CASE PassSecureCheck
  BY <1>22 DEF PassSecureCheck, Types, RequestTypes, Unread, InHand, Queued, Promises, Working, Fresh, Undone,
               Answers, Kinds
<1>23. CASE Enqueue
  <2>1. /\ clientPc = "enqueue" /\ clientPc' = "wait"
        /\ queue' = Append(queue, request) /\ accepted' = accepted \cup {request}
        /\ UNCHANGED <<request, response, serving, frames, promise, runs, agent, reply>>
    BY <1>23 DEF Enqueue
  <2>2. request \in Request /\ Fresh(request) /\ Working /\ Working'
    BY <2>1 DEF InHand, Working
  <2>3. RequestTypes' /\ Unread' /\ InHand'
    BY <2>1, <2>2 DEF RequestTypes, Unread, InHand, Fresh, Kinds, Answers
  <2>4. promise[request] = "unset"
    BY <2>2 DEF Fresh, Promises
  <2>5. \A i \in DOMAIN queue' :
           IF i \in DOMAIN queue THEN queue'[i] = queue[i] ELSE i = Len(queue) + 1 /\ queue'[i] = request
    BY <2>1, <2>2 DEF RequestTypes
  <2>6. Queued'
    BY <2>1, <2>2, <2>4, <2>5 DEF RequestTypes, Queued, Undone, Fresh
  <2>7. \A i \in DOMAIN queue : i \in DOMAIN queue' /\ queue'[i] = queue[i]
    BY <2>1, <2>2 DEF RequestTypes
  <2>8. Len(queue) + 1 \in DOMAIN queue' /\ queue'[Len(queue) + 1] = request
    BY <2>1, <2>2 DEF RequestTypes
  <2>9. Promises'
    BY <2>1, <2>2, <2>4, <2>7, <2>8 DEF Promises
  <2>10. QED BY <2>3, <2>6, <2>9
<1>24. CASE GetResponse
  BY <1>24 DEF GetResponse, Types, RequestTypes, Unread, InHand, Queued, Promises, Working, Fresh, Undone, Answers,
               Kinds
<1>25. CASE WaitTimesOut
  BY <1>25 DEF WaitTimesOut, Types, RequestTypes, Unread, InHand, Queued, Promises, Working, Fresh, Undone,
               Answers, Kinds
<1>26. CASE SendResponse
  <2>1. /\ clientPc = "send" /\ clientPc' = "check" /\ request' = NoRequest /\ response' = "none"
        /\ reply' = reply \/ reply' = [reply EXCEPT ![request] = response]
        /\ UNCHANGED <<serving, queue, frames, promise, accepted, runs, agent>>
    BY <1>26 DEF SendResponse
  <2>2. /\ Working /\ ~Working' /\ request \in Request /\ kind[request] # "unsent"
        /\ Undone(request) => response = "timeout"
    BY <2>1 DEF InHand, Working, RequestTypes, Answers, Fresh, Undone, Promises
  <2>3. reply' \in [Request -> Answers]
    BY <2>1, <2>2 DEF RequestTypes
  <2>4. RequestTypes'
    BY <2>1, <2>3 DEF RequestTypes, Kinds, Answers
  <2>5. Unread' /\ InHand'
    BY <2>1, <2>2 DEF RequestTypes, Unread, InHand, Fresh
  <2>6. \A r \in Request : Undone(r) => Undone(r)'
    BY <2>1, <2>2 DEF RequestTypes, Undone
  <2>7. Queued'
    <3>1. /\ \A i \in DOMAIN queue : queue[i] \in Request
          /\ \A f \in DOMAIN frames : \A i \in DOMAIN frames[f] : frames[f][i] \in Request
      BY DEF RequestTypes
    <3>2. QED BY <2>1, <2>6, <3>1 DEF Queued
  <2>8. Promises'
    BY <2>1 DEF Promises
  <2>9. QED BY <2>4, <2>5, <2>7, <2>8
<1>27. CASE SendFails
  BY <1>27 DEF SendFails, Types, RequestTypes, Unread, InHand, Queued, Promises, Working, Fresh, Undone, Answers,
               Kinds
<1>28. CASE ClientClosesSocket
  BY <1>28, RequestsStay DEF ClientClosesSocket, Working
<1>29. CASE ClientForgetsSocket
  BY <1>29, RequestsStay DEF ClientForgetsSocket, Working
<1>30. CASE Stop
  BY <1>30, RequestsStay DEF Stop, Working
<1>31. CASE \E secure \in BOOLEAN : Start(secure)
  BY <1>31, RequestsStay DEF Start, Working
<1>32. CASE \E enabled \in BOOLEAN : SetSecureMode(enabled)
  BY <1>32, RequestsStay DEF SetSecureMode, Working
<1>33. CASE \E c \in Conn : Connect(c)
  BY <1>33, RequestsStay DEF Connect, Working
<1>34. CASE \E c \in Conn : HangUp(c)
  BY <1>34, RequestsStay DEF HangUp, Working
<1>35. CASE \E c \in Conn, r \in Request, k \in Kinds \ {"unsent"} : Send(c, r, k)
  BY <1>35 DEF Send, Types, RequestTypes, Unread, InHand, Queued, Promises, Working, Fresh, Undone, Answers, Kinds
<1>36. QED
  BY <1>1, <1>2, <1>3, <1>4, <1>5, <1>6, <1>7, <1>8, <1>9, <1>10, <1>11, <1>12, <1>13, <1>14, <1>15, <1>16,
     <1>17, <1>18, <1>19, <1>20, <1>21, <1>22, <1>23, <1>24, <1>25, <1>26, <1>27, <1>28, <1>29, <1>30,
     <1>31, <1>32, <1>33, <1>34, <1>35
     DEF Next, MainThread, AcceptThread, ClientThread, Editor, Agent

-----------------------------------------------------------------------------
(* The invariant holds in every state.                                     *)

LEMMA InitEstablishes ==
    ASSUME Init
    PROVE  IInv
<1> USE NoValues DEF Init
<1>1. Types
  BY DEF Types
<1>2. Threads
  BY DEF Threads
<1>3. Numbers /\ NumberIsKept /\ LiveIsKnown
  BY DEF Numbers, NumberIsKept, LiveIsKnown, Busy, Live
<1>4. queue \in Seq(Request) /\ frames \in Seq(Seq(Request))
  <2>1. <<>> \in Seq(Request) /\ <<>> \in Seq(Seq(Request))
    OBVIOUS
  <2>2. QED BY <2>1
<1>5. inbox \in [Conn -> Seq(Request)]
  <2>1. <<>> \in Seq(Request)
    OBVIOUS
  <2>2. QED BY <2>1
<1>6. RequestTypes
  BY <1>4, <1>5 DEF RequestTypes, Kinds, Answers
<1>7. Unread /\ InHand
  BY DEF Unread, InHand, Fresh, Working
<1>8. Queued /\ Promises
  BY DEF Queued, Promises
<1>9. QED BY <1>1, <1>2, <1>3, <1>6, <1>7, <1>8 DEF IInv

LEMMA StutterKeeps ==
    ASSUME IInv, UNCHANGED vars
    PROVE  IInv'
<1> USE DEF vars, socket, main, acceptT, clientT, work, agent
<1>1. Types' /\ Threads' /\ Numbers' /\ NumberIsKept' /\ LiveIsKnown'
  BY DEF IInv, Types, Threads, Numbers, NumberIsKept, LiveIsKnown, Busy, Live
<1>2. (RequestTypes /\ Unread /\ InHand /\ Queued /\ Promises)'
  BY RequestsStay
<1>3. QED BY <1>1, <1>2 DEF IInv

LEMMA InductiveInvariant == Spec => []IInv
<1>1. Init => IInv
  BY InitEstablishes
<1>2. IInv /\ [Next]_vars => IInv'
  BY ThreadsStep, RequestsStep, StutterKeeps DEF IInv
<1>3. QED BY <1>1, <1>2, PTL DEF Spec

-----------------------------------------------------------------------------
(* Theorems about threads and sockets.                                     *)

\* Once Stop has returned, no thread of the server is left, nothing is queued
\* and every descriptor it held is closed.
THEOREM StopLeavesNothing == Spec => []StoppedIsQuiet
<1>1. IInv => StoppedIsQuiet
  BY NoValues DEF IInv, Types, Threads, Numbers, StoppedIsQuiet
<1>2. QED BY <1>1, InductiveInvariant, PTL

\* While the server runs, the number a client thread uses names the connection
\* it was started for, unless that peer has hung up.
THEOREM LiveConnectionIsKept == Spec => []LiveConnectionStaysOpen
<1>1. IInv => LiveConnectionStaysOpen
  BY DEF IInv, LiveIsKnown, LiveConnectionStaysOpen
<1>2. QED BY <1>1, InductiveInvariant, PTL

\* m_clientSocket names the live client's descriptor, and never a number that
\* no thread of the server goes by.
THEOREM ClientSocketIsKnown == Spec => []ClientSocketIsCurrent
<1>1. IInv => ClientSocketIsCurrent
  BY DEF IInv, Numbers, LiveIsKnown, ClientSocketIsCurrent
<1>2. QED BY <1>1, InductiveInvariant, PTL

-----------------------------------------------------------------------------
(* Theorems about requests and answers.                                    *)

\* Only SendResponse gives anybody an answer, and it gives request's sender
\* the response.
LEMMA OnlySendResponseAnswers ==
    ASSUME IInv, Next, UNCHANGED reply => FALSE
    PROVE  SendResponse /\ reply' = [reply EXCEPT ![request] = response]
<1>1. ~UNCHANGED reply
  OBVIOUS
<1>2. SendResponse
  BY <1>1 DEF Next, MainThread, AcceptThread, ClientThread, Editor, Agent,
                 ProcessMainThreadQueue, FinishRequest, StopClosesListenSocket, StopClosesClientSocket,
                 StopJoinsAcceptThread, StopJoinsClientThread, AcceptChecksRunning, PollTimesOut,
                 AcceptConnection, LoadExisting, RejectConnection, CleanUpStale, JoinPrevious, StoreClientSocket,
                 SpawnClientThread, ClientChecksRunning, ReadRequest, BlockInRecv, ReadFails, AnswerLocally,
                 RefusePython, PassSecureCheck, Enqueue, GetResponse, WaitTimesOut, SendFails,
                 ClientClosesSocket, ClientForgetsSocket, Stop, Start, SetSecureMode, Connect, HangUp, Send,
                 main, work, agent
<1>3. QED BY <1>1, <1>2 DEF SendResponse

\* A step that carries a request out, carries one out that nobody did before.
LEMMA CountsOnce ==
    ASSUME IInv, Next, UNCHANGED runs => FALSE
    PROVE  \E r \in Request : /\ runs[r] = 0 /\ reply[r] \in {"none", "timeout"}
                              /\ runs' = [runs EXCEPT ![r] = @ + 1]
<1>1. ~UNCHANGED runs
  OBVIOUS
<1>2. ProcessMainThreadQueue \/ FinishRequest \/ AnswerLocally
  BY <1>1 DEF Next, MainThread, AcceptThread, ClientThread, Editor, Agent,
                 StopClosesListenSocket, StopClosesClientSocket, StopJoinsAcceptThread, StopJoinsClientThread,
                 AcceptChecksRunning, PollTimesOut, AcceptConnection, LoadExisting, RejectConnection,
                 CleanUpStale, JoinPrevious, StoreClientSocket, SpawnClientThread, ClientChecksRunning,
                 ReadRequest, BlockInRecv, ReadFails, RefusePython, PassSecureCheck, Enqueue, GetResponse,
                 WaitTimesOut, SendResponse, SendFails, ClientClosesSocket, ClientForgetsSocket, Stop, Start,
                 SetSecureMode, Connect, HangUp, Send, main, work, agent
<1>3. CASE ProcessMainThreadQueue
  <2>1. queue # <<>> /\ runs' = [runs EXCEPT ![Head(queue)] = @ + 1]
    BY <1>3 DEF ProcessMainThreadQueue, Execute
  <2>2. Head(queue) = queue[1] /\ 1 \in DOMAIN queue /\ Head(queue) \in Request
    BY <2>1 DEF IInv, RequestTypes
  <2>3. runs[Head(queue)] = 0 /\ reply[Head(queue)] \in {"none", "timeout"}
    BY <2>2 DEF IInv, Queued, Undone
  <2>4. QED BY <2>1, <2>2, <2>3
<1>4. CASE FinishRequest
  <2> DEFINE top  == Len(frames)
             rest == Tail(frames[top])
  <2>1. frames # <<>> /\ rest # <<>> /\ runs' = [runs EXCEPT ![Head(rest)] = @ + 1]
    BY <1>1, <1>4 DEF FinishRequest, Execute
  <2>2. top \in DOMAIN frames /\ frames[top] \in Seq(Request) /\ frames[top] # <<>>
    BY <2>1 DEF IInv, RequestTypes
  <2>3. Head(rest) = frames[top][2] /\ 2 \in DOMAIN frames[top] /\ Head(rest) \in Request
    BY <2>1, <2>2
  <2> HIDE DEF top, rest
  <2>4. runs[Head(rest)] = 0 /\ reply[Head(rest)] \in {"none", "timeout"}
    BY <2>2, <2>3 DEF IInv, Queued, Undone
  <2>5. QED BY <2>1, <2>3, <2>4
<1>5. CASE AnswerLocally
  <2>1. clientPc = "dispatch" /\ runs' = [runs EXCEPT ![request] = @ + 1]
    BY <1>5 DEF AnswerLocally
  <2>2. QED BY <2>1 DEF IInv, InHand, Working, Fresh
<1>6. QED BY <1>2, <1>3, <1>4, <1>5

\* An answer goes out on the connection that the client thread was started on
\* and that its request came from.
THEOREM AnswersStay == Spec => AnswersStayOnTheConnection
<1> DEFINE A == \A r \in Request : reply'[r] # reply[r] /\ serving # NoConn
                  => sentOn[r] = serving /\ ConnOf(clientFd) = serving
<1>1. IInv /\ [Next]_vars => A
  <2> SUFFICES ASSUME IInv, [Next]_vars, NEW r \in Request, reply'[r] # reply[r], serving # NoConn
               PROVE  sentOn[r] = serving /\ ConnOf(clientFd) = serving
    OBVIOUS
  <2>1. ~UNCHANGED reply
    OBVIOUS
  <2>2. SendResponse /\ reply' = [reply EXCEPT ![request] = response]
    BY <2>1, OnlySendResponseAnswers DEF vars
  <2>3. clientPc = "send" /\ ConnOf(clientFd) # NoConn
    BY <2>2 DEF SendResponse
  <2>4. r = request
    BY <2>2 DEF IInv, RequestTypes
  <2>5. sentOn[r] = serving
    BY <2>3, <2>4 DEF IInv, InHand, Working
  <2>6. ConnOf(clientFd) = serving
    BY <2>3 DEF IInv, NumberIsKept, Busy, ConnOf
  <2>7. QED BY <2>5, <2>6
<1>2. IInv /\ [Next]_vars => (A \/ UNCHANGED vars)
  BY <1>1
<1>3. QED BY <1>2, InductiveInvariant, PTL DEF Spec, AnswersStayOnTheConnection

\* The server implements AtMostOnce: what it does to a request's count and its
\* sender's answer is nothing, Perform or Answer.
THEOREM AtMostOnceHolds == Spec => RequestsRunAtMostOnce
<1>1. Init => Remote!Init
  BY DEF Init, Remote!Init
<1>2. IInv /\ [Next]_vars => [Remote!Next]_(Remote!vars)
  <2> SUFFICES ASSUME IInv, [Next]_vars, ~UNCHANGED <<runs, reply>>
               PROVE  Remote!Next
    BY DEF Remote!vars
  <2>1. Next
    BY DEF vars, work
  <2>2. CASE ~UNCHANGED reply
    <3>1. SendResponse /\ reply' = [reply EXCEPT ![request] = response]
      BY <2>1, <2>2, OnlySendResponseAnswers
    <3>2. clientPc = "send" /\ runs' = runs
      BY <3>1 DEF SendResponse, work
    <3>3. /\ request \in Request /\ reply[request] = "none" /\ response \in Answers \ {"none"}
          /\ response = "result" => runs[request] = 1
          /\ response \in {"secure_mode", "shutting_down"} => runs[request] = 0
      BY <3>2 DEF IInv, RequestTypes, InHand, Working, Fresh, Promises
    <3>4. Remote!Answer(request, response)
      BY <3>1, <3>2, <3>3 DEF Remote!Answer
    <3>5. QED BY <3>3, <3>4 DEF Remote!Next, Answers
  <2>3. CASE UNCHANGED reply
    <3>1. PICK r : /\ r \in Request /\ runs[r] = 0 /\ reply[r] \in {"none", "timeout"}
                   /\ runs' = [runs EXCEPT ![r] = @ + 1]
      BY <2>1, <2>3, CountsOnce
    <3>2. Remote!Perform(r)
      BY <2>3, <3>1 DEF Remote!Perform
    <3>3. QED BY <3>1, <3>2 DEF Remote!Next
  <2>4. QED BY <2>2, <2>3
<1>3. QED BY <1>1, <1>2, InductiveInvariant, PTL DEF Spec, RequestsRunAtMostOnce, Remote!Spec

\* A request handed to the main thread is in one place until its promise is
\* set, and in none before and after: none is lost, none is answered twice.
THEOREM RequestsStayOwned == Spec => []RequestsAreOwned
<1>1. IInv => RequestsAreOwned
  <2> SUFFICES ASSUME IInv, NEW r \in Request
               PROVE  Cardinality(Places(r)) = IF r \in accepted /\ promise[r] = "unset" THEN 1 ELSE 0
    BY DEF RequestsAreOwned
  <2>1. \A p : p \in Places(r) <=>
               \/ \E i \in DOMAIN queue : queue[i] = r /\ p = <<0, i>>
               \/ \E f \in DOMAIN frames : \E i \in DOMAIN frames[f] : frames[f][i] = r /\ p = <<f, i>>
    BY DEF Places
  <2>2. Cardinality({}) = 0 /\ \A p : Cardinality({p}) = 1
    BY FS_EmptySet, FS_Singleton
  <2>3. CASE ~(r \in accepted /\ promise[r] = "unset")
    <3>1. \A p : p \notin Places(r)
      BY <2>1, <2>3 DEF IInv, Queued, Undone
    <3>2. Places(r) = {}
      BY <3>1
    <3>3. QED BY <2>2, <2>3, <3>2
  <2>4. CASE r \in accepted /\ promise[r] = "unset"
    <3>1. ASSUME NEW i \in DOMAIN queue, queue[i] = r PROVE Places(r) = {<<0, i>>}
      <4>1. \A j \in DOMAIN queue : queue[j] = r => j = i
        BY <3>1 DEF IInv, Queued
      <4>2. \A f \in DOMAIN frames : \A j \in DOMAIN frames[f] : frames[f][j] # r
        BY <3>1 DEF IInv, Queued
      <4>3. \A p : p \in Places(r) <=> p = <<0, i>>
        BY <2>1, <3>1, <4>1, <4>2
      <4>4. QED BY <4>3
    <3>2. ASSUME NEW f \in DOMAIN frames, NEW i \in DOMAIN frames[f], frames[f][i] = r PROVE Places(r) = {<<f, i>>}
      <4>1. \A j \in DOMAIN queue : queue[j] # r
        BY <3>2 DEF IInv, Queued
      <4>2. \A g \in DOMAIN frames : \A j \in DOMAIN frames[g] : frames[g][j] = r => g = f /\ j = i
        BY <3>2 DEF IInv, Queued
      <4>3. \A p : p \in Places(r) <=> p = <<f, i>>
        BY <2>1, <3>2, <4>1, <4>2
      <4>4. QED BY <4>3
    <3>3. \E p : Places(r) = {p}
      BY <2>4, <3>1, <3>2 DEF IInv, Promises
    <3>4. QED BY <2>2, <2>4, <3>3
  <2>5. QED BY <2>3, <2>4
<1>2. QED BY <1>1, InductiveInvariant, PTL

-----------------------------------------------------------------------------
(* Type correctness: what the invariant above leaves out.                  *)

OtherTypes ==
    /\ secureMode \in BOOLEAN /\ held \in Conn \cup {NoConn} /\ Len(frames) <= MaxNesting
    /\ scriptOutput \in Request \cup {NoRequest} /\ output \in [Request -> Request \cup {NoRequest}]

LEMMA OtherTypesStep ==
    ASSUME IInv, OtherTypes, [Next]_vars
    PROVE  OtherTypes'
<1> USE Bounds DEF OtherTypes, main, clientT
<1>1. CASE ProcessMainThreadQueue
  <2>1. queue # <<>> /\ CanDrain /\ frames' = Append(frames, queue)
        /\ scriptOutput' \in {Head(queue), scriptOutput} /\ UNCHANGED <<secureMode, held, output>>
    BY <1>1 DEF ProcessMainThreadQueue, Execute
  <2>2. Head(queue) \in Request
    BY <2>1 DEF IInv, RequestTypes
  <2>3. Len(frames') <= MaxNesting
    <3>1. frames \in Seq(Seq(Request)) /\ queue \in Seq(Request)
      BY DEF IInv, RequestTypes
    <3>2. Len(frames') = Len(frames) + 1 /\ Len(frames) \in Nat
      BY <2>1, <3>1
    <3>3. CASE frames = <<>>
      BY <3>2, <3>3
    <3>4. CASE frames # <<>>
      BY <2>1, <3>2, <3>4 DEF CanDrain
    <3>5. QED BY <3>3, <3>4
  <2>4. QED BY <2>1, <2>2, <2>3
<1>2. CASE FinishRequest
  <2> DEFINE top  == Len(frames)
             done == Head(frames[top])
             rest == Tail(frames[top])
  <2>1. /\ frames # <<>> /\ output' = [output EXCEPT ![done] = IF kind[done] = "python" THEN scriptOutput ELSE done]
        /\ \/ rest # <<>> /\ frames' = [frames EXCEPT ![top] = rest] /\ scriptOutput' \in {Head(rest), scriptOutput}
           \/ frames' = SubSeq(frames, 1, top - 1) /\ scriptOutput' = scriptOutput
        /\ UNCHANGED <<secureMode, held>>
    BY <1>2 DEF FinishRequest, Execute
  <2>2. /\ frames \in Seq(Seq(Request)) /\ top \in Nat /\ top \in DOMAIN frames
        /\ frames[top] \in Seq(Request) /\ frames[top] # <<>>
    BY <2>1 DEF IInv, RequestTypes
  <2>3. done \in Request /\ rest \in Seq(Request) /\ (rest # <<>> => Head(rest) \in Request)
    BY <2>2
  <2> HIDE DEF done, rest
  <2>4. Len(frames') <= top
    BY <2>1, <2>2, <2>3
  <2>5. output' \in [Request -> Request \cup {NoRequest}]
    BY <2>1, <2>3
  <2>6. scriptOutput' \in Request \cup {NoRequest}
    BY <2>1, <2>3
  <2> HIDE DEF top
  <2>7. top <= MaxNesting /\ Len(frames') \in Nat
    <3>1. frames' \in Seq(Seq(Request))
      BY ThreadsStep, RequestsStep, <1>2 DEF Next, MainThread, RequestTypes
    <3>2. QED BY <3>1 DEF top
  <2>8. QED BY <2>1, <2>2, <2>4, <2>5, <2>6, <2>7
<1>3. CASE BlockInRecv
  <2>1. held' = ConnOf(clientFd) /\ ConnOf(clientFd) # NoConn /\ UNCHANGED <<secureMode, main>>
    BY <1>3 DEF BlockInRecv
  <2>2. ConnOf(clientFd) \in Conn \cup {NoConn}
    BY NoValues DEF ConnOf, IInv, Types
  <2>3. QED BY <2>1, <2>2
<1>4. CASE Editor
  BY <1>4 DEF Editor, Stop, Start, SetSecureMode
<1>5. CASE ~(ProcessMainThreadQueue \/ FinishRequest \/ BlockInRecv \/ Editor)
  BY <1>5 DEF Next, vars, MainThread, AcceptThread, ClientThread, Agent,
                StopClosesListenSocket, StopClosesClientSocket, StopJoinsAcceptThread,
                StopJoinsClientThread, AcceptChecksRunning, PollTimesOut, AcceptConnection, LoadExisting,
                RejectConnection, CleanUpStale, JoinPrevious, StoreClientSocket, SpawnClientThread,
                ClientChecksRunning, ReadRequest, ReadFails, AnswerLocally, RefusePython, PassSecureCheck,
                Enqueue, GetResponse, WaitTimesOut, SendResponse, SendFails, ClientClosesSocket,
                ClientForgetsSocket, Connect, HangUp, Send, JoinClient, agent, work
<1>6. QED BY <1>1, <1>2, <1>3, <1>4, <1>5

LEMMA InitHasOtherTypes == Init => OtherTypes
<1> SUFFICES ASSUME Init PROVE OtherTypes
  OBVIOUS
<1>1. Len(frames) = 0
  BY DEF Init
<1>2. Len(frames) <= MaxNesting
  BY <1>1, Bounds
<1>3. QED BY <1>2 DEF Init, OtherTypes

\* The variables keep their types, the lists of the main thread's drains are
\* never empty, and there are at most MaxNesting of them.
THEOREM TypeCorrect == Spec => []TypeOK
<1>1. Init => OtherTypes
  BY InitHasOtherTypes
<1>2. IInv /\ OtherTypes /\ [Next]_vars => OtherTypes'
  BY OtherTypesStep
<1>3. IInv /\ OtherTypes => TypeOK
  <2> SUFFICES ASSUME IInv, OtherTypes PROVE TypeOK
    OBVIOUS
  <2>1. frames \in Seq(Seq(Request) \ {<<>>})
    BY DEF IInv, RequestTypes
  <2>2. QED BY <2>1 DEF IInv, Types, RequestTypes, OtherTypes, TypeOK
<1>4. QED BY <1>1, <1>2, <1>3, InductiveInvariant, PTL DEF Spec

-----------------------------------------------------------------------------
(* Whose output a result carries.                                          *)

\* The request of a client thread that waits is the last one that was queued,
\* so nothing that is drained comes between its execution and its result.
Waiting == clientPc = "wait" /\ promise[request] = "unset"

NewestWaits == Waiting => IF queue # <<>> THEN queue[Len(queue)] = request
                          ELSE /\ frames # <<>>
                               /\ frames[Len(frames)][Len(frames[Len(frames)])] = request

GlobalsAreIts == Waiting /\ queue = <<>> /\ frames # <<>> /\ frames[Len(frames)][1] = request
                    /\ kind[request] = "python" => scriptOutput = request

\* A result that was sent, or is on its way to its sender.
Delivered(r) == \/ clientPc = "wait" /\ request = r /\ promise[r] = "result"
                \/ clientPc = "send" /\ request = r /\ response = "result"
                \/ reply[r] = "result"

DeliveredIsOwn == \A r \in Request : Delivered(r) /\ kind[r] = "python" => promise[r] = "result" /\ output[r] = r

OutputInv == OtherTypes /\ NewestWaits /\ GlobalsAreIts /\ DeliveredIsOwn

\* Steps of threads that hand no request or result on.
LEMMA OutputStays ==
    ASSUME IInv, OutputInv,
           UNCHANGED <<queue, promise, frames, scriptOutput, output, reply>>,
           \A r \in Request : kind[r] # "unsent" => kind'[r] = kind[r],
           \A r \in Request : kind[r] = "unsent" => reply[r] = "none",
           \/ clientPc' \notin {"wait", "send"}
           \/ UNCHANGED <<clientPc, request, response>>
           \/ clientPc' = "send" /\ request' = request /\ response' # "result"
    PROVE  NewestWaits' /\ GlobalsAreIts' /\ DeliveredIsOwn'
<1>2. clientPc' = "wait" => clientPc = "wait" /\ request' = request /\ kind[request] # "unsent" /\ request \in Request
  BY DEF IInv, InHand, Working
<1>3. Waiting' => Waiting /\ request' = request /\ kind'[request] = kind[request]
  BY <1>2 DEF Waiting
<1>4. NewestWaits'
  BY <1>3 DEF OutputInv, NewestWaits
<1>5. GlobalsAreIts'
  BY <1>3 DEF OutputInv, GlobalsAreIts
<1>6. DeliveredIsOwn'
  <2> SUFFICES ASSUME NEW r \in Request, Delivered(r)', kind'[r] = "python"
               PROVE  promise[r] = "result" /\ output[r] = r
    BY DEF DeliveredIsOwn
  <2>1. Delivered(r)
    BY DEF Delivered
  <2>2. kind[r] # "unsent"
    BY <2>1 DEF Delivered, IInv, InHand, Working
  <2>3. kind[r] = "python"
    BY <2>2
  <2>4. QED BY <2>1, <2>3 DEF OutputInv, DeliveredIsOwn
<1>7. QED BY <1>4, <1>5, <1>6

LEMMA ProcessMainThreadQueueKeeps ==
    ASSUME IInv, OutputInv, ProcessMainThreadQueue
    PROVE  NewestWaits' /\ GlobalsAreIts' /\ DeliveredIsOwn'
<1>1. /\ queue # <<>> /\ queue' = <<>> /\ frames' = Append(frames, queue)
      /\ scriptOutput' = IF kind[queue[1]] = "python" THEN queue[1] ELSE scriptOutput
      /\ UNCHANGED <<clientPc, request, response, promise, kind, output, reply>>
  <2>1. queue # <<>> => Head(queue) = queue[1]
    BY DEF IInv, RequestTypes
  <2>2. QED BY <2>1 DEF ProcessMainThreadQueue, TakeQueue, Execute, clientT, agent
<1>2. frames \in Seq(Seq(Request)) /\ queue \in Seq(Request)
  BY DEF IInv, RequestTypes
<1>3. Len(frames') = Len(frames) + 1 /\ frames'[Len(frames')] = queue /\ frames' # <<>>
  <2>1. Len(frames) \in Nat
    BY <1>2
  <2>2. Len(frames') = Len(frames) + 1 /\ frames'[Len(frames) + 1] = queue
    BY <1>1, <1>2
  <2>3. QED BY <2>1, <2>2
<1>4. Waiting' <=> Waiting
  BY <1>1 DEF Waiting
<1>5. Waiting => queue[Len(queue)] = request
  BY <1>1 DEF OutputInv, NewestWaits
<1>6. NewestWaits'
  BY <1>1, <1>3, <1>4, <1>5 DEF NewestWaits
<1>7. GlobalsAreIts'
  BY <1>1, <1>3 DEF GlobalsAreIts
<1>8. DeliveredIsOwn'
  BY <1>1 DEF OutputInv, DeliveredIsOwn, Delivered
<1>9. QED BY <1>6, <1>7, <1>8

LEMMA FinishRequestKeeps ==
    ASSUME IInv, OutputInv, FinishRequest
    PROVE  NewestWaits' /\ GlobalsAreIts' /\ DeliveredIsOwn'
<1> DEFINE top  == Len(frames)
           done == Head(frames[top])
           rest == Tail(frames[top])
<1>1. /\ frames # <<>> /\ promise' = [promise EXCEPT ![done] = "result"]
      /\ output' = [output EXCEPT ![done] = IF kind[done] = "python" THEN scriptOutput ELSE done]
      /\ rest # <<>> => /\ frames' = [frames EXCEPT ![top] = rest]
                        /\ scriptOutput' = IF kind[Head(rest)] = "python" THEN Head(rest) ELSE scriptOutput
      /\ UNCHANGED <<clientPc, request, response, queue, kind, reply>>
  BY DEF FinishRequest, Execute, clientT, agent
<1>2. /\ frames \in Seq(Seq(Request)) /\ top \in Nat /\ top \in DOMAIN frames
      /\ frames[top] \in Seq(Request) /\ frames[top] # <<>>
  BY <1>1 DEF IInv, RequestTypes
<1>3. done \in Request /\ done = frames[top][1] /\ 1 \in DOMAIN frames[top] /\ rest \in Seq(Request)
  BY <1>2
<1>4. promise[done] = "unset" /\ \A j \in DOMAIN queue : queue[j] # done
  BY <1>2, <1>3 DEF IInv, Queued, Undone
<1>5. /\ promise \in [Request -> {"unset", "result", "shutting_down"}] /\ queue \in Seq(Request)
      /\ output \in [Request -> Request \cup {NoRequest}]
  BY DEF IInv, RequestTypes, OutputInv, OtherTypes
<1>6. clientPc = "wait" => request \in Request
  BY DEF IInv, InHand, Working
\* The request that is done is the one somebody waits for, or nobody does.
<1>7. clientPc = "wait" /\ request = done => queue = <<>> /\ (kind[done] = "python" => scriptOutput = done)
  <2> SUFFICES ASSUME clientPc = "wait", request = done
               PROVE  queue = <<>> /\ (kind[done] = "python" => scriptOutput = done)
    OBVIOUS
  <2>1. Waiting
    BY <1>4 DEF Waiting
  <2>2. queue = <<>>
    <3>1. SUFFICES ASSUME queue # <<>> PROVE FALSE
      OBVIOUS
    <3>2. queue[Len(queue)] = done /\ Len(queue) \in DOMAIN queue
      BY <1>5, <2>1, <3>1 DEF OutputInv, NewestWaits
    <3>3. QED BY <1>4, <3>2
  <2>3. QED BY <1>1, <1>3, <2>1, <2>2 DEF OutputInv, GlobalsAreIts
<1>8. Waiting' => Waiting /\ request # done
  BY <1>1, <1>3, <1>5, <1>6 DEF Waiting
<1>9. Waiting' /\ queue = <<>> => /\ rest # <<>> /\ frames' # <<>> /\ Len(frames') = top /\ frames'[top] = rest
                                  /\ rest[Len(rest)] = request /\ rest[1] = Head(rest)
  <2> SUFFICES ASSUME Waiting', queue = <<>>
               PROVE  /\ rest # <<>> /\ frames' # <<>> /\ Len(frames') = top /\ frames'[top] = rest
                      /\ rest[Len(rest)] = request /\ rest[1] = Head(rest)
    OBVIOUS
  <2>1. frames[top][Len(frames[top])] = request /\ request # done
    BY <1>8 DEF OutputInv, NewestWaits
  <2>2. Len(frames[top]) # 1 /\ Len(frames[top]) \in Nat \ {0}
    BY <1>2, <1>3, <2>1
  <2>3. Len(rest) = Len(frames[top]) - 1 /\ rest # <<>>
    <3>1. Len(rest) = Len(frames[top]) - 1
      BY <1>2
    <3>2. Len(rest) # 0
      BY <2>2, <3>1
    <3>3. rest # <<>>
      <4>1. Len(<<>>) = 0
        OBVIOUS
      <4> HIDE DEF rest
      <4>2. QED BY <3>2, <4>1
    <3>4. QED BY <3>1, <3>3
  <2>4. rest[Len(rest)] = frames[top][Len(frames[top])] /\ rest[1] = Head(rest)
    BY <1>2, <2>2, <2>3
  <2> HIDE DEF rest, done
  <2>5. frames' = [frames EXCEPT ![top] = rest]
    BY <1>1, <2>3
  <2>6. frames' # <<>> /\ Len(frames') = top /\ frames'[top] = rest
    BY <1>2, <1>3, <2>5
  <2>7. QED BY <2>1, <2>3, <2>4, <2>6
<1> HIDE DEF top, rest, done
<1>10. NewestWaits'
  BY <1>1, <1>8, <1>9 DEF OutputInv, NewestWaits
<1>11. GlobalsAreIts'
  BY <1>1, <1>9 DEF GlobalsAreIts, Waiting
<1>12. DeliveredIsOwn'
  <2> SUFFICES ASSUME NEW r \in Request, Delivered(r)', kind[r] = "python"
               PROVE  promise'[r] = "result" /\ output'[r] = r
    BY <1>1 DEF DeliveredIsOwn
  <2>1. CASE r = done
    <3>1. promise'[r] = "result" /\ output'[r] = scriptOutput
      BY <1>1, <1>3, <1>5, <2>1
    <3>2. ~Delivered(r)
      BY <1>4, <2>1 DEF OutputInv, DeliveredIsOwn
    <3>3. clientPc = "wait" /\ request = done
      BY <1>1, <2>1, <3>2 DEF Delivered
    <3>4. QED BY <1>7, <2>1, <3>1, <3>3
  <2>2. CASE r # done
    <3>1. promise'[r] = promise[r] /\ output'[r] = output[r]
      BY <1>1, <1>5, <2>2
    <3>2. Delivered(r)
      BY <1>1, <3>1 DEF Delivered
    <3>3. QED BY <3>1, <3>2 DEF OutputInv, DeliveredIsOwn
  <2>3. QED BY <2>1, <2>2
<1>13. QED BY <1>10, <1>11, <1>12

LEMMA EnqueueKeeps ==
    ASSUME IInv, OutputInv, Enqueue
    PROVE  NewestWaits' /\ GlobalsAreIts' /\ DeliveredIsOwn'
<1>1. /\ clientPc = "enqueue" /\ clientPc' = "wait" /\ queue' = Append(queue, request)
      /\ UNCHANGED <<request, response, promise, frames, scriptOutput, output, kind, reply>>
  BY DEF Enqueue, main, agent
<1>2. request \in Request /\ queue \in Seq(Request)
  BY <1>1 DEF IInv, InHand, Working, RequestTypes
<1>3. queue' # <<>> /\ queue'[Len(queue')] = request
  <2>1. Len(queue) \in Nat
    BY <1>2
  <2>2. Len(queue') = Len(queue) + 1 /\ queue'[Len(queue) + 1] = request
    BY <1>1, <1>2
  <2>3. QED BY <2>1, <2>2
<1>4. promise[request] = "unset"
  BY <1>1, <1>2 DEF IInv, InHand, Working, Fresh, Promises
<1>5. NewestWaits' /\ GlobalsAreIts'
  BY <1>1, <1>3 DEF NewestWaits, GlobalsAreIts
<1>6. \A r \in Request : Delivered(r)' => Delivered(r)
  BY <1>1, <1>4 DEF Delivered
<1>7. DeliveredIsOwn'
  BY <1>1, <1>6 DEF OutputInv, DeliveredIsOwn
<1>8. QED BY <1>5, <1>7

LEMMA StopJoinsClientThreadKeeps ==
    ASSUME IInv, OutputInv, StopJoinsClientThread
    PROVE  NewestWaits' /\ GlobalsAreIts' /\ DeliveredIsOwn'
<1>1. /\ clientPc' = "none" /\ UNCHANGED <<kind, output, reply>>
      /\ promise' = [r \in Request |-> IF \E i \in DOMAIN queue : queue[i] = r THEN "shutting_down" ELSE promise[r]]
  BY DEF StopJoinsClientThread, JoinClient, DropQueue, agent
<1>2. NewestWaits' /\ GlobalsAreIts'
  BY <1>1 DEF NewestWaits, GlobalsAreIts, Waiting
<1>3. DeliveredIsOwn'
  <2> SUFFICES ASSUME NEW r \in Request, Delivered(r)', kind[r] = "python"
               PROVE  promise'[r] = "result" /\ output[r] = r
    BY <1>1 DEF DeliveredIsOwn
  <2>1. Delivered(r)
    BY <1>1 DEF Delivered
  <2>2. promise[r] = "result" /\ output[r] = r
    BY <2>1 DEF OutputInv, DeliveredIsOwn
  <2>3. \A i \in DOMAIN queue : queue[i] # r
    BY <2>2 DEF IInv, Queued, Undone
  <2>4. QED BY <1>1, <2>2, <2>3
<1>4. QED BY <1>2, <1>3

\* The client thread's last steps with a request: what it has for an answer,
\* and sending it.
LEMMA AnswersKeep ==
    ASSUME IInv, OutputInv, AnswerLocally \/ GetResponse \/ SendResponse
    PROVE  NewestWaits' /\ GlobalsAreIts' /\ DeliveredIsOwn'
<1>1. clientPc' # "wait" /\ UNCHANGED <<promise, output, kind>>
  BY DEF AnswerLocally, GetResponse, SendResponse, main, work, agent
<1>2. NewestWaits' /\ GlobalsAreIts'
  BY <1>1 DEF NewestWaits, GlobalsAreIts, Waiting
<1>3. request \in Request
  BY DEF AnswerLocally, GetResponse, SendResponse, IInv, InHand, Working
<1>4. ASSUME NEW r \in Request, Delivered(r)', kind[r] = "python" PROVE Delivered(r)
  <2>1. CASE AnswerLocally
    BY <1>4, <2>1 DEF AnswerLocally, Delivered
  <2>2. CASE GetResponse
    BY <1>4, <2>2 DEF GetResponse, Delivered
  <2>3. CASE SendResponse
    <3>1. clientPc = "send" /\ clientPc' = "check" /\ reply' \in {reply, [reply EXCEPT ![request] = response]}
      BY <2>3 DEF SendResponse
    <3>2. QED BY <1>3, <1>4, <3>1 DEF Delivered, IInv, RequestTypes
  <2>4. QED BY <2>1, <2>2, <2>3
<1>5. DeliveredIsOwn'
  BY <1>1, <1>4 DEF OutputInv, DeliveredIsOwn
<1>6. QED BY <1>2, <1>5

LEMMA OutputStep ==
    ASSUME IInv, OutputInv, [Next]_vars
    PROVE  OutputInv'
<1>1. OtherTypes'
  BY OtherTypesStep DEF OutputInv
<1>2. CASE ProcessMainThreadQueue
  BY <1>1, <1>2, ProcessMainThreadQueueKeeps DEF OutputInv
<1>3. CASE FinishRequest
  BY <1>1, <1>3, FinishRequestKeeps DEF OutputInv
<1>4. CASE Enqueue
  BY <1>1, <1>4, EnqueueKeeps DEF OutputInv
<1>5. CASE StopJoinsClientThread
  BY <1>1, <1>5, StopJoinsClientThreadKeeps DEF OutputInv
<1>6. CASE AnswerLocally \/ GetResponse \/ SendResponse
  BY <1>1, <1>6, AnswersKeep DEF OutputInv
<1>7. CASE ~(ProcessMainThreadQueue \/ FinishRequest \/ Enqueue \/ StopJoinsClientThread
             \/ AnswerLocally \/ GetResponse \/ SendResponse)
  <2>1. UNCHANGED <<queue, promise, frames, scriptOutput, output, reply>>
    BY <1>7 DEF Next, vars, MainThread, AcceptThread, ClientThread, Editor, Agent,
                StopClosesListenSocket, StopClosesClientSocket, StopJoinsAcceptThread, AcceptChecksRunning,
                PollTimesOut, AcceptConnection, LoadExisting, RejectConnection, CleanUpStale, JoinPrevious,
                StoreClientSocket, SpawnClientThread, ClientChecksRunning, ReadRequest, BlockInRecv, ReadFails,
                RefusePython, PassSecureCheck, WaitTimesOut, SendFails, ClientClosesSocket, ClientForgetsSocket,
                Stop, Start, SetSecureMode, Connect, HangUp, Send, main, work
  <2>2. \A r \in Request : kind[r] # "unsent" => kind'[r] = kind[r]
    <3>1. CASE \E c \in Conn, r \in Request, k \in Kinds \ {"unsent"} : Send(c, r, k)
      BY <3>1 DEF Send, IInv, RequestTypes
    <3>2. CASE ~\E c \in Conn, r \in Request, k \in Kinds \ {"unsent"} : Send(c, r, k)
      <4>1. UNCHANGED kind
        BY <1>7, <3>2 DEF Next, vars, MainThread, AcceptThread, ClientThread, Editor, Agent,
                StopClosesListenSocket, StopClosesClientSocket, StopJoinsAcceptThread, AcceptChecksRunning,
                PollTimesOut, AcceptConnection, LoadExisting, RejectConnection, CleanUpStale, JoinPrevious,
                StoreClientSocket, SpawnClientThread, ClientChecksRunning, ReadRequest, BlockInRecv, ReadFails,
                RefusePython, PassSecureCheck, WaitTimesOut, SendFails, ClientClosesSocket, ClientForgetsSocket,
                Stop, Start, SetSecureMode, Connect, HangUp, agent
      <4>2. QED BY <4>1
    <3>3. QED BY <3>1, <3>2
  <2>3. \A r \in Request : kind[r] = "unsent" => reply[r] = "none"
    BY DEF IInv, Unread, Fresh
  <2>4. \/ clientPc' \notin {"wait", "send"}
        \/ UNCHANGED <<clientPc, request, response>>
        \/ clientPc' = "send" /\ request' = request /\ response' # "result"
    BY <1>7 DEF Next, vars, MainThread, AcceptThread, ClientThread, Editor, Agent,
                StopClosesListenSocket, StopClosesClientSocket, StopJoinsAcceptThread, AcceptChecksRunning,
                PollTimesOut, AcceptConnection, LoadExisting, RejectConnection, CleanUpStale, JoinPrevious, JoinClient,
                StoreClientSocket, SpawnClientThread, ClientChecksRunning, ReadRequest, BlockInRecv, ReadFails,
                AfterFailedRead, RefusePython, PassSecureCheck, WaitTimesOut, SendFails, ClientClosesSocket,
                ClientForgetsSocket, Stop, Start, SetSecureMode, Connect, HangUp, Send, clientT
  <2>5. QED BY <1>1, <2>1, <2>2, <2>3, <2>4, OutputStays DEF OutputInv
<1>8. QED BY <1>2, <1>3, <1>4, <1>5, <1>6, <1>7

\* A result that reaches its sender is the output of its own script, for any
\* number of requests and depth of drains inside drains: while a sender still
\* waits, its request is the newest, so nothing is drained on top of it.
THEOREM OutputsAreOwn == Spec => []OutputIsOwn
<1>1. Init => OutputInv
  <2> SUFFICES ASSUME Init PROVE OutputInv
    OBVIOUS
  <2>1. OtherTypes
    BY InitHasOtherTypes
  <2>2. NewestWaits /\ GlobalsAreIts /\ DeliveredIsOwn
    BY DEF Init, NewestWaits, GlobalsAreIts, Waiting, DeliveredIsOwn, Delivered
  <2>3. QED BY <2>1, <2>2 DEF OutputInv
<1>2. IInv /\ OutputInv /\ [Next]_vars => OutputInv'
  BY OutputStep
<1>3. OutputInv => OutputIsOwn
  BY DEF OutputInv, DeliveredIsOwn, Delivered, OutputIsOwn
<1>4. QED BY <1>1, <1>2, <1>3, InductiveInvariant, PTL DEF Spec

=============================================================================
