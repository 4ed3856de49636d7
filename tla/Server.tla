------------------------------- MODULE Server -------------------------------
(* One Server object (Server.h, Server.cpp) with every thread that touches it:
   its own thread in Server::Run, a receiver thread per client in
   client_handler, and the manager's thread, which creates the server, hands it
   clients (AddClient), publishes states, joins its thread and deletes it.

   clientList is the vector of clients: the value-initialised elements
   Server.h:43 puts there, owned by Nobody, then one for each client added. The
   threads keep pointers and iterators into it. A push_back beyond its capacity
   moves the elements and leaves these dangling; their next use, and the
   destruction of a joinable thread, stop the model in fault. *)
EXTENDS Messages, Sequences, FiniteSets

CONSTANTS
    Clients,       \* the connections whose login was answered with success
    Nobody,        \* the owner of a value-initialised element of clientList
    HandedId,      \* HandedId[c] = GetId() of the ClientInfo handed to AddClient
    Placeholders,  \* DEFAULT_VECTOR_SIZE: elements clientList starts with
    Sent,          \* the texts the clients send
    Orders,        \* the states an administrator gives the manager
    MaxTexts,      \* bound: MaxTexts[c] texts are received from client c
    MaxStored      \* bound: unsent messages the database returns for a client

\* ServerState, ServerConnections.h:16-19.
ServerStates ==
    {"OFF", "RUNNING", "NOT_ACCEPTING_CONNECTIONS", "RESET", "START_UP"}

ASSUME ClientsAssumption == Nobody \notin Clients
ASSUME IdAssumption == HandedId \in [Clients -> Nat]
ASSUME PlaceholdersAssumption == Placeholders \in Nat \ {0}
ASSUME SentAssumption == Sent \subseteq Texts
ASSUME OrdersAssumption == Orders \subseteq ServerStates
ASSUME BoundsAssumption == MaxTexts \in [Clients -> Nat] /\ MaxStored \in Nat
\* The manager makes a second server at 64 elements (ServerManager.cpp:218):
\* below that, the one server modelled here takes every client.
ASSUME OneServerAssumption ==
    IsFiniteSet(Clients) /\ Placeholders + Cardinality(Clients) < 64

VARIABLES
    state,      \* m_state's object
    stateLock,  \* m_state's mutex between steps: "free", or "held" by a RESET
    clientList, \* m_clientList: the owners of its elements
    capacity,   \* m_clientList.capacity()
    dangling,   \* clients whose thread points into a freed clientList buffer
    inc, out,   \* the IncMsgQueue and OutMsgQueue of each owner
    hpc, conn,  \* receiver threads: where they are; is the connection open
    spc, sst,   \* server thread: where it is; Run's local state
    it,         \* Run's iterator, as an index
    itDangling, \* was the buffer it points into freed?
    mpc, asked, \* manager thread: where it is; ServerManager::Run's curState
    handed, inHand, \* clients handed to this server; the one being handed
    masterList, \* the ids in ServerManager's m_masterList
    fault,      \* undefined behaviour or std::terminate was reached
    taken,      \* history: how many texts were received from each client
    dealt,      \* history: the messages of each client Run dealt with, in order
    replied,    \* history: the requests of each client a reply was queued for
    answered    \* history: the requests of each client whose reply was sent

stateVars   == <<state, stateLock>>
listVars    == <<clientList, capacity, dangling>>
queueVars   == <<inc, out>>
handlerVars == <<hpc, conn>>
serverVars  == <<spc, sst, it, itDangling>>
managerVars == <<mpc, asked, handed, inHand, masterList>>
history     == <<taken, dealt, replied, answered>>
vars == <<stateVars, listVars, queueVars, handlerVars, serverVars, managerVars,
          history, fault>>

\* What a step leaves alone that belongs to the other threads.
ManagerStep == UNCHANGED <<stateLock, serverVars, history, fault>>
HandlerStep == UNCHANGED <<stateVars, listVars, serverVars, managerVars, fault>>
RunStep     == UNCHANGED <<capacity, conn, managerVars, taken, answered, fault>>
RunMove     == RunStep /\ UNCHANGED <<clientList, dangling, hpc, stateLock>>
Faulty(kind) ==
    /\ fault' = kind
    /\ UNCHANGED <<stateVars, listVars, queueVars, handlerVars, serverVars,
                   managerVars, history>>

Owners == Clients \cup {Nobody}
Empty  == [o \in Owners |-> <<>>]
NoHistory == [c \in Clients |-> <<>>]
Fresh  == [i \in 1 .. Placeholders |-> Nobody]

\* Every element of clientList was value-initialised or went through ClientInfo's
\* move constructor, which does not set m_id: GetId() is 0 for all of them.
StoredId == 0

\* MessageToUser::ToId(): m_toId{} is never assigned.
ToId == 0

\* Does ProcessMessageToUser find a recipient? It is then the first element.
HasRecipient == ToId \in masterList /\ ToId = StoredId /\ clientList # <<>>

\* m_msgDbMutex, held by SearchForMessages and ProcessMessageToUser.
MsgDbMutexFree == mpc # "searching" /\ spc # "recording"

\* The receiver threads that were started and not joined.
Joinable == {c \in Clients : hpc[c] # "idle"}

Init ==
    /\ state = "OFF" /\ stateLock = "free"
    /\ clientList = Fresh /\ capacity = Placeholders /\ dangling = {}
    /\ inc = Empty /\ out = Empty
    /\ hpc = [c \in Clients |-> "idle"] /\ conn = [c \in Clients |-> "closed"]
    /\ spc = "none" /\ sst = "OFF" /\ it = 1 /\ itDangling = FALSE
    /\ mpc = "loop" /\ asked = "RUNNING" /\ handed = {} /\ inHand = Nobody
    /\ masterList = {} /\ fault = "none"
    /\ taken = [c \in Clients |-> 0] /\ dealt = NoHistory
    /\ replied = NoHistory /\ answered = NoHistory

-----------------------------------------------------------------------------
(* The manager's thread. *)

\* The client was SENT SUCCESSFUL_LOGIN_MSG; a server and its thread are made if
\* there is none.
Dispatch(c) ==
    /\ mpc = "loop" /\ asked = "RUNNING" /\ c \notin handed
    /\ handed' = handed \cup {c} /\ inHand' = c /\ mpc' = "adding"
    /\ IF spc = "none" THEN spc' = "start" /\ sst' = asked
                       ELSE UNCHANGED <<spc, sst>>
    /\ UNCHANGED <<stateVars, listVars, queueVars, handlerVars, history, fault,
                   it, itDangling, asked, masterList>>

\* Mutant: no id is ever found.
NeverLoggedIn(id) == FALSE
\* AddClient's search of the master list.
AlreadyLoggedIn(id) == id \in masterList

\* AddClient refuses the client, and its caller ignores that.
AddClientRefused ==
    /\ mpc = "adding" /\ AlreadyLoggedIn(HandedId[inHand])
    /\ mpc' = "enlisting"
    /\ ManagerStep
    /\ UNCHANGED <<state, listVars, queueVars, handlerVars, asked, handed,
                   inHand, masterList>>

\* Mutant: AddClient reserves room for the one element it adds.
GrownByOne(elements) == elements + 1
\* The next capacity of a full vector: half as much again, one more at least.
Grown(elements) == IF elements < 2 THEN elements + 1 ELSE elements + (elements \div 2)

\* AddClient's m_clientList.push_back. When a full vector grows, every pointer and
\* iterator into it dangles.
AddClientAppend ==
    /\ mpc = "adding" /\ ~AlreadyLoggedIn(HandedId[inHand])
    /\ clientList' = Append(clientList, inHand)
    /\ IF Len(clientList) = capacity
         THEN /\ capacity' = Grown(capacity)
              /\ dangling' = Joinable /\ itDangling' = TRUE
         ELSE UNCHANGED <<capacity, dangling, itDangling>>
    /\ mpc' = "search"
    /\ UNCHANGED <<stateVars, queueVars, handlerVars, history, fault, spc, sst,
                   it, asked, handed, inHand, masterList>>

\* SearchForMessages takes m_msgDbMutex...
SearchForMessages ==
    /\ mpc = "search" /\ MsgDbMutexFree
    /\ mpc' = "searching"
    /\ ManagerStep
    /\ UNCHANGED <<state, listVars, queueVars, handlerVars, asked, handed,
                   inHand, masterList>>

\* ... and queues the messages it finds; AddClient starts the receiver thread.
AddClientSpawn ==
    /\ mpc = "searching"
    /\ \E n \in 0 .. MaxStored : \E rows \in [1 .. n -> Sent] :
         out' = [out EXCEPT ![inHand] =
                   @ \o [i \in 1 .. n |-> [type |-> GetMessageType(rows[i]),
                                           req |-> 0, freed |-> FALSE]]]
    /\ hpc' = [hpc EXCEPT ![inHand] = "read"]
    /\ conn' = [conn EXCEPT ![inHand] = "open"]
    /\ mpc' = "enlisting"
    /\ ManagerStep
    /\ UNCHANGED <<state, listVars, inc, asked, handed, inHand, masterList>>

\* m_masterList.push_back, whatever AddClient returned.
Enlist ==
    /\ mpc = "enlisting"
    /\ masterList' = masterList \cup {HandedId[inHand]}
    /\ mpc' = "publish"
    /\ ManagerStep
    /\ UNCHANGED <<state, listVars, queueVars, handlerVars, asked, handed, inHand>>

\* The end of an iteration: curState = GetState(), SetServersStates(curState).
\* OFF ends Run, and so may START_UP, when the port cannot be opened; Shutdown
\* follows. RESET makes the next iteration call Reset, that is Shutdown.
Publish(s) ==
    /\ mpc \in {"loop", "publish"} /\ stateLock = "free"
    /\ asked' = s /\ inHand' = Nobody
    /\ state' = IF spc = "none" THEN state ELSE s
    /\ mpc' \in (IF s \in {"OFF", "RESET"} THEN {} ELSE {"loop"})
                 \cup (IF s \in {"OFF", "RESET", "START_UP"} THEN {"shutdown"} ELSE {})
    /\ ManagerStep
    /\ UNCHANGED <<listVars, queueVars, handlerVars, handed, masterList>>

\* Shutdown, from Reset or from the destructor: the servers are set OFF.
Stop ==
    /\ mpc = "shutdown" /\ stateLock = "free"
    /\ state' = IF spc = "none" THEN state ELSE "OFF"
    /\ mpc' = "joining"
    /\ ManagerStep
    /\ UNCHANGED <<listVars, queueVars, handlerVars, asked, handed, inHand,
                   masterList>>

\* Shutdown joined the server's thread and deletes the server; the master list
\* is cleared. The variables take the values of the next server. A Reset that
\* cannot open the port ends Run.
DeleteServer ==
    /\ mpc = "joining" /\ spc \in {"none", "done"} /\ Joinable = {}
    /\ state' = "OFF"
    /\ clientList' = Fresh /\ capacity' = Placeholders /\ dangling' = {}
    /\ inc' = Empty /\ out' = Empty
    /\ conn' = [c \in Clients |-> "closed"]
    /\ spc' = "none" /\ sst' = "OFF" /\ it' = 1 /\ itDangling' = FALSE
    /\ handed' = {} /\ masterList' = {}
    /\ mpc' \in {"returned"} \cup (IF asked = "RESET" THEN {"publish"} ELSE {})
    /\ taken' = [c \in Clients |-> 0] /\ dealt' = NoHistory
    /\ replied' = NoHistory /\ answered' = NoHistory
    /\ UNCHANGED <<stateLock, hpc, asked, inHand, fault>>

\* A receiver thread that nobody joined is joinable, even when it has ended:
\* deleting the server calls std::terminate.
DeleteTerminates ==
    mpc = "joining" /\ spc = "done" /\ Joinable # {} /\ Faulty("terminate")

-----------------------------------------------------------------------------
(* The receiver thread of client c: client_handler. *)

\* ts_state->RetrieveObject() waits for the mutex...
HandlerWait(c) ==
    /\ hpc[c] = "read" /\ stateLock = "free"
    /\ hpc' = [hpc EXCEPT ![c] = "load"]
    /\ HandlerStep /\ UNCHANGED <<queueVars, conn, history>>

\* ... and returns a reference that is read after the mutex is released. The loop
\* ends, and the connection is closed, if it is closed or by OFF or RESET.
HandlerLoad(c) ==
    /\ hpc[c] = "load" /\ c \notin dangling
    /\ IF conn[c] = "open" /\ state \notin {"OFF", "RESET"}
         THEN hpc' = [hpc EXCEPT ![c] = "receive"] /\ UNCHANGED conn
         ELSE /\ hpc' = [hpc EXCEPT ![c] = "done"]
              /\ conn' = [conn EXCEPT ![c] = "closed"]
    /\ HandlerStep /\ UNCHANGED <<queueVars, history>>

\* ReceiveMsg returned RECEIVED: the text is parsed and queued.
HandlerReceive(c) ==
    /\ hpc[c] = "receive" /\ c \notin dangling /\ taken[c] < MaxTexts[c]
    /\ \E text \in Sent : \E m \in ParsedAs(GetMessageType(text)) :
         inc' = [inc EXCEPT ![c] = Append(@, [n |-> taken[c] + 1,
                                              code |-> m.code, valid |-> m.valid])]
    /\ taken' = [taken EXCEPT ![c] = @ + 1]
    /\ hpc' = [hpc EXCEPT ![c] = "send"]
    /\ HandlerStep /\ UNCHANGED <<out, conn, dealt, replied, answered>>

\* ReceiveMsg returned NO_DATA_PRESENT or WANT_READ, or it found the connection
\* shut down or broken, which closes it.
HandlerNothing(c) ==
    /\ hpc[c] = "receive" /\ c \notin dangling
    /\ \E after \in {"open", "closed"} : conn' = [conn EXCEPT ![c] = after]
    /\ hpc' = [hpc EXCEPT ![c] = "send"]
    /\ HandlerStep /\ UNCHANGED <<queueVars, history>>

\* What SendMsg can return to the handler.
SendResults == {"SENT", "NOT_SENT", "NOT_FULLY_SENT", "SHUTDOWN", "ERR"}
\* Mutant: a message sent in part is removed too.
RemovedEarly(result) == result \in {"SENT", "NOT_FULLY_SENT"}
\* The results after which the handler pops and deletes the message.
Removed(result) == result = "SENT"

\* Does a message of the OutMsgQueue answer a request of its client?
IsReply(m) == m.req > 0 /\ m.type # "MESSAGE_TO_USER"

\* The front of the OutMsgQueue is sent. What is not removed stays queued.
HandlerSend(c) ==
    /\ hpc[c] = "send" /\ c \notin dangling /\ out[c] # <<>> /\ conn[c] = "open"
    /\ \E result \in SendResults :
         /\ out' = [out EXCEPT ![c] = IF Removed(result) THEN Tail(@) ELSE @]
         /\ answered' = [answered EXCEPT ![c] =
                           IF result = "SENT" /\ IsReply(Head(out[c]))
                             THEN Append(@, Head(out[c]).req) ELSE @]
         /\ conn' = [conn EXCEPT ![c] =
                       IF result \in {"SHUTDOWN", "ERR"} THEN "closed" ELSE @]
    /\ hpc' = [hpc EXCEPT ![c] = "read"]
    /\ HandlerStep /\ UNCHANGED <<inc, taken, dealt, replied>>

\* There is nothing to send, or no connection any more (NOT_INITIATED).
HandlerIdle(c) ==
    /\ hpc[c] = "send" /\ c \notin dangling /\ (out[c] = <<>> \/ conn[c] = "closed")
    /\ hpc' = [hpc EXCEPT ![c] = "read"]
    /\ HandlerStep /\ UNCHANGED <<queueVars, conn, history>>

\* The thread uses ci, inc or out after the vector moved its elements.
HandlerDangles(c) ==
    hpc[c] \in {"load", "receive", "send"} /\ c \in dangling /\ Faulty("handler")

-----------------------------------------------------------------------------
(* The server's thread: Server::Run. *)

\* Run begins with SetState(its argument), maybe after a later state was set.
RunStart ==
    /\ spc = "start" /\ stateLock = "free"
    /\ spc' = "top" /\ state' = sst
    /\ RunMove /\ UNCHANGED <<queueVars, dealt, replied, sst, it, itDangling>>

\* The loop's condition, and a state the switch has no case for.
RunTop ==
    /\ spc = "top" /\ sst \in {"OFF", "NOT_ACCEPTING_CONNECTIONS"}
    /\ spc' = IF sst = "OFF" THEN "done" ELSE "read"
    /\ RunMove /\ UNCHANGED <<state, queueVars, dealt, replied, sst, it, itDangling>>

\* START_UP: the reserve calls find that capacity there already.
RunStartUp ==
    /\ spc = "top" /\ sst = "START_UP" /\ stateLock = "free"
    /\ spc' = "read" /\ state' = "RUNNING"
    /\ RunMove /\ UNCHANGED <<queueVars, dealt, replied, sst, it, itDangling>>

\* Mutant: the iteration begins before the first element.
BeforeBegin == 0
\* m_clientList.begin().
Begin == 1

\* RUNNING: the iteration over m_clientList begins.
RunRunning ==
    /\ spc = "top" /\ sst = "RUNNING"
    /\ spc' = "scan" /\ it' = Begin /\ itDangling' = FALSE
    /\ RunMove /\ UNCHANGED <<state, queueVars, dealt, replied, sst>>

\* Mutant: ChangeObject in place of LockChange.
ChangeObject == stateLock' = "free" /\ state' = "RESET"
\* m_state.LockChange(RESET).
LockChange == stateLock = "free" /\ stateLock' = "held" /\ state' = "RESET"

\* RESET: the state is set and its mutex kept.
RunReset ==
    /\ spc = "top" /\ sst = "RESET"
    /\ LockChange
    /\ spc' = "reset"
    /\ RunStep
    /\ UNCHANGED <<clientList, dangling, hpc, queueVars, dealt, replied, sst, it,
                   itDangling>>

\* Mutant: the threads are not joined.
NotJoined == TRUE
\* Every thread of m_receiverThreads that was joinable has ended.
Joined == \A c \in Joinable : hpc[c] = "done"

\* Both vectors are cleared (a vector keeps its capacity), the mutex is released.
RunJoined ==
    /\ spc = "reset" /\ Joined
    /\ clientList' = <<>> /\ dangling' = {} /\ inc' = Empty /\ out' = Empty
    /\ hpc' = [c \in Clients |-> IF hpc[c] = "done" THEN "idle" ELSE hpc[c]]
    /\ stateLock' = "free" /\ spc' = "restart"
    /\ RunStep /\ UNCHANGED <<state, dealt, replied, sst, it, itDangling>>

\* SetState(START_UP), after the mutex was released.
RunRestart ==
    /\ spc = "restart" /\ stateLock = "free"
    /\ spc' = "read" /\ state' = "START_UP"
    /\ RunMove /\ UNCHANGED <<queueVars, dealt, replied, sst, it, itDangling>>

\* Mutant: the state is not read again.
KeptState == sst
\* GetState().
GetState == state

\* state = GetState(), at the end of an iteration.
RunRead ==
    /\ spc = "read" /\ stateLock = "free"
    /\ spc' = "top" /\ sst' = GetState
    /\ RunMove /\ UNCHANGED <<state, queueVars, dealt, replied, it, itDangling>>

\* Mutant: the last element counts as the end.
LastIsEnd == it >= Len(clientList)
\* it == m_clientList.end().
AtEnd == it > Len(clientList)

\* The client at the iterator, the message in front of its inc queue.
Current == clientList[it]
Message == Head(inc[Current])

\* The for loop ends, or steps over a client whose inc queue is empty.
RunScan ==
    /\ spc = "scan" /\ ~itDangling
    /\ \/ AtEnd /\ spc' = "read" /\ UNCHANGED it
       \/ ~AtEnd /\ inc[Current] = <<>> /\ it' = it + 1 /\ UNCHANGED spc
    /\ RunMove /\ UNCHANGED <<state, queueVars, dealt, replied, sst, itDangling>>

DealtWith == dealt' = [dealt EXCEPT ![Current] = Append(@, Message.n)]

\* The switch on Code(). A code it has no case for is ignored; the LOGOUT case is
\* left out, since no queued message has that code.
RunMessage ==
    /\ spc = "scan" /\ ~itDangling /\ ~AtEnd /\ inc[Current] # <<>>
    /\ \/ Message.code = "MESSAGE_TO_USER" /\ spc' = "route" /\ UNCHANGED dealt
       \/ Message.code \in Requests /\ spc' = "find" /\ UNCHANGED dealt
       \/ Message.code = "INVALID" /\ spc' = "pop" /\ DealtWith
    /\ RunMove /\ UNCHANGED <<state, queueVars, replied, sst, it, itDangling>>

\* ProcessMessageToUser queues the message for the recipient and deletes it.
ProcessMessageToUser ==
    /\ spc = "route" /\ ~itDangling /\ HasRecipient
    /\ out' = [out EXCEPT ![clientList[1]] =
                 Append(@, [type |-> "MESSAGE_TO_USER", req |-> Message.n,
                            freed |-> TRUE])]
    /\ DealtWith
    /\ spc' = "pop"
    /\ RunMove /\ UNCHANGED <<state, inc, replied, sst, it, itDangling>>

\* Without a recipient it takes m_msgDbMutex...
RecordMessage ==
    /\ spc = "route" /\ ~itDangling /\ ~HasRecipient /\ MsgDbMutexFree
    /\ spc' = "recording"
    /\ RunMove /\ UNCHANGED <<state, queueVars, dealt, replied, sst, it, itDangling>>

\* ... and writes the message to the database before it is deleted.
MessageRecorded ==
    /\ spc = "recording" /\ ~itDangling
    /\ DealtWith
    /\ spc' = "pop"
    /\ RunMove /\ UNCHANGED <<state, queueVars, replied, sst, it, itDangling>>

\* FindConversationList and FindConversation queue a reply; FindFile and
\* FindUserInformation do not; all four return at once if the request is invalid.
Find ==
    /\ spc = "find" /\ ~itDangling
    /\ IF Message.valid /\ Message.code \in DOMAIN ReplyTo
         THEN /\ out' = [out EXCEPT ![Current] =
                           Append(@, [type |-> ReplyTo[Message.code],
                                      req |-> Message.n, freed |-> FALSE])]
              /\ replied' = [replied EXCEPT ![Current] = Append(@, Message.n)]
         ELSE UNCHANGED <<out, replied>>
    /\ DealtWith
    /\ spc' = "pop"
    /\ RunMove /\ UNCHANGED <<state, inc, sst, it, itDangling>>

\* Mutant: the message stays in the queue.
Unpopped(queue) == queue
\* pop().
Popped(queue) == Tail(queue)

\* inc.pop(), once the message was dealt with.
RunPop ==
    /\ spc = "pop" /\ ~itDangling
    /\ inc' = [inc EXCEPT ![Current] = Popped(@)]
    /\ spc' = "scan"
    /\ RunMove /\ UNCHANGED <<state, out, dealt, replied, sst, it, itDangling>>

\* The loop uses its iterator after the vector moved its elements.
RunDangles ==
    /\ spc \in {"scan", "route", "recording", "find", "pop"} /\ itDangling
    /\ Faulty("iterator")

-----------------------------------------------------------------------------
Manager == AddClientRefused \/ AddClientAppend \/ SearchForMessages
             \/ AddClientSpawn \/ Enlist \/ Stop \/ DeleteServer \/ DeleteTerminates

Handler(c) ==
    HandlerWait(c) \/ HandlerLoad(c) \/ HandlerReceive(c) \/ HandlerNothing(c)
      \/ HandlerSend(c) \/ HandlerIdle(c) \/ HandlerDangles(c)

Run == RunStart \/ RunTop \/ RunStartUp \/ RunRunning \/ RunReset \/ RunJoined
         \/ RunRestart \/ RunRead \/ RunScan \/ RunMessage \/ ProcessMessageToUser
         \/ RecordMessage \/ MessageRecorded \/ Find \/ RunPop \/ RunDangles

\* The process is gone, or the manager has nothing left to do.
Ended == (fault # "none" \/ mpc = "returned") /\ UNCHANGED vars

Next ==
    \/ /\ fault = "none"
       /\ \/ \E c \in Clients : Dispatch(c) \/ Handler(c)
          \/ Manager \/ Run
          \/ \E s \in Orders : Publish(s)
    \/ Ended

\* Each thread keeps running. When a client logs in, and what the administrator
\* asks for, is nobody's obligation.
Fairness ==
    /\ WF_vars(fault = "none" /\ Manager)
    /\ WF_vars(fault = "none" /\ Run)
    /\ \A c \in Clients : WF_vars(fault = "none" /\ Handler(c))

Spec == Init /\ [][Next]_vars
FairSpec == Spec /\ Fairness

-----------------------------------------------------------------------------
HandlerPlaces == {"idle", "read", "load", "receive", "send", "done"}
RunPlaces == {"none", "start", "top", "scan", "route", "recording", "find",
              "pop", "reset", "restart", "read", "done"}
ManagerPlaces == {"loop", "adding", "search", "searching", "enlisting",
                  "publish", "shutdown", "joining", "returned"}
Faults == {"none", "handler", "iterator", "terminate"}

IncMessages == [n : Nat, code : MessageTypes, valid : BOOLEAN]
OutMessages == [type : MessageTypes, req : Nat, freed : BOOLEAN]

StateType == state \in ServerStates /\ stateLock \in {"free", "held"}
ListType ==
    clientList \in Seq(Owners) /\ capacity \in Nat /\ dangling \subseteq Clients
QueueType ==
    inc \in [Owners -> Seq(IncMessages)] /\ out \in [Owners -> Seq(OutMessages)]
HandlerType ==
    hpc \in [Clients -> HandlerPlaces] /\ conn \in [Clients -> {"open", "closed"}]
ServerType ==
    /\ spc \in RunPlaces /\ sst \in ServerStates
    /\ it \in Nat \ {0} /\ itDangling \in BOOLEAN
ManagerType ==
    /\ mpc \in ManagerPlaces /\ asked \in ServerStates
    /\ handed \subseteq Clients /\ inHand \in Owners /\ masterList \subseteq Nat
HistoryType ==
    /\ taken \in [Clients -> Nat] /\ dealt \in [Clients -> Seq(Nat)]
    /\ replied \in [Clients -> Seq(Nat)] /\ answered \in [Clients -> Seq(Nat)]

\* Every variable has its type.
TypeOK ==
    /\ StateType /\ ListType /\ QueueType /\ HandlerType /\ ServerType
    /\ ManagerType /\ HistoryType /\ fault \in Faults

\* "We need to make sure that the state stays at RESET until this process is
\* finished" (Server.cpp:251): from LockChange to Unlock no other thread's
\* SetState takes effect, and the mutex is never left locked behind.
ResetStable ==
    /\ spc = "reset" => state = "RESET"
    /\ stateLock = "held" <=> spc = "reset"

\* A user is served once: no two elements of clientList belong to clients that
\* were handed over with the same id (Server.cpp:130-135), and none twice.
UniqueLogin ==
    \A i, j \in 1 .. Len(clientList) :
       /\ clientList[i] \in Clients /\ clientList[j] \in Clients
       /\ HandedId[clientList[i]] = HandedId[clientList[j]]
       => i = j

\* As long as the receiver thread of a client is not joined, the element of
\* clientList that its pointers were taken from is in the list.
HandlerEntry ==
    \A c \in Joinable : \E i \in 1 .. Len(clientList) : clientList[i] = c

\* The message in front of c's queue was dealt with and is about to be popped.
Popping(c) == spc = "pop" /\ ~AtEnd /\ Current = c

DealtInOrder(c) == \A i \in 1 .. Len(dealt[c]) : dealt[c][i] = i
QueuedInOrder(c) ==
    \A i \in 1 .. Len(inc[c]) : inc[c][i].n = taken[c] - Len(inc[c]) + i
FrontIsNext(c) ==
    inc[c] # <<>> =>
       Len(dealt[c]) = IF Popping(c) THEN inc[c][1].n ELSE inc[c][1].n - 1

\* Each message of a client is dealt with once and in the order received, while
\* its thread pushes and the server's loop pops: those dealt with are the first
\* ones, those queued the last ones, and the front is the next to deal with.
InOrder == \A c \in Clients : DealtInOrder(c) /\ QueuedInOrder(c) /\ FrontIsNext(c)

\* "These represent the different queues a connection will use to store and
\* retrieve messages" (Server.h:26): the pointers a receiver thread works with
\* are those of its client's queues, as no push_back has moved them.
QueuePointersValid == dangling = {}

Ascending(s) == \A i, j \in 1 .. Len(s) : i < j => s[i] < s[j]

\* How many of the first n messages of a queue are replies.
RepliesIn(queue, n) == Cardinality({i \in 1 .. n : IsReply(queue[i])})

\* The requests are those whose replies were sent, then those of the replies in the
\* queue, each in its place.
SentThenQueued(requests, sent, queue) ==
    /\ Len(requests) = Len(sent) + RepliesIn(queue, Len(queue))
    /\ \A i \in 1 .. Len(sent) : sent[i] = requests[i]
    /\ \A i \in 1 .. Len(queue) :
          IsReply(queue[i]) => queue[i].req = requests[Len(sent) + RepliesIn(queue, i)]

\* Replies are queued in the order of their requests, at most one for each, and
\* none is lost or sent twice: each one was sent or still waits, in that order.
ReplyOrder ==
    \A c \in Clients :
       /\ Ascending(replied[c])
       /\ c \in Joinable => SentThenQueued(replied[c], answered[c], out[c])

\* A message received while the server is RUNNING is dealt with, unless the server is
\* told to do something else or undefined behaviour comes first, provided that the
\* other clients' queues are empty from some time on: Run empties one queue before it
\* looks at the next (Server.cpp:178), and a client that sends faster than it is dealt
\* with keeps it there.
QueueServed ==
    \A c \in Clients :
       <>[](\A d \in Clients \ {c} : inc[d] = <<>>) =>
          \A k \in 1 .. MaxTexts[c] :
             (\E i \in 1 .. Len(inc[c]) : inc[c][i].n = k)
               ~> \/ \A i \in 1 .. Len(inc[c]) : inc[c][i].n # k
                  \/ state # "RUNNING" \/ fault # "none"

\* OFF set by Shutdown while the server's loop is serving clients ends the loop,
\* so that the join in Shutdown returns.
StopCompletes ==
    (/\ mpc = "joining" /\ state = "OFF" /\ sst = "RUNNING"
     /\ spc \in {"top", "scan", "route", "recording", "find", "pop", "read"})
      ~> (spc \in {"done", "none"} \/ fault # "none")

-----------------------------------------------------------------------------
(* What comments of the source say, and the code does not do. *)

\* "We are waiting until every thread gets the message and joins"
\* (Server.cpp:254): the RESET section ends.
ResetCompletes == (spc = "reset") ~> (spc # "reset")

\* "True if inc was erased so is invalid. This will break the while loop so that
\* !inc.empty() isn't evaluated again." (Server.cpp:173): while Run is inside its for
\* loop, its iterator, and inc with it, is one into the list as it is.
IteratorValid ==
    spc \in {"scan", "route", "recording", "find", "pop"} => ~itDangling
=============================================================================
