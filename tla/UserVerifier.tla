---------------------------- MODULE UserVerifier ----------------------------
(* The login pipeline: the four queues of UserVerifier (UserVerifier.h), the
   manager's thread that fills and empties them in ServerManager::Run, and the
   verifier's thread in UserVerifier::Run. That thread is started by whoever owns
   the verifier: m_uvThread is never given one.

   The queues are ThreadSafeDEQueues: each call is atomic, and a Pop... method is
   two calls, Front and PopFront, with a move from the front element after the
   first. Two threads that pop the same queue can overlap in between. Front and
   PopFront of an empty deque are undefined: the program stops (fault) or goes on
   with an element that holds no connection. *)
EXTENDS Naturals, Sequences

CONSTANTS
    Conns,   \* the connections clients open
    Gone,    \* an element that was moved from, or a hand that holds nothing
    Orders   \* the states an administrator gives the manager

ServerStates ==
    {"OFF", "RUNNING", "NOT_ACCEPTING_CONNECTIONS", "RESET", "START_UP"}

ASSUME GoneAssumption == Gone \notin Conns
ASSUME OrdersAssumption == Orders \subseteq ServerStates

VARIABLES
    queue,      \* the four queues
    socket,     \* each connection: in the listener's backlog, open or closed
    vstate,     \* UserVerifier's m_state
    mpc, asked, \* manager: where it is; Run's curState
    mq, mhand,  \* manager: the queue it looks at; the connection it took
    vpc, vsst,  \* verifier: where it is; Run's local state
    vq, vhand,  \* verifier: the queue it drains; the connection it took
    verdict,    \* history: what the verifier made of each connection
    served,     \* history: the connections handed to a server
    drained,    \* history: the verifier has begun to drain its queues
    fault       \* undefined behaviour stopped the program

managerVars  == <<mpc, asked, mq, mhand>>
verifierVars == <<vpc, vsst, vq, vhand>>
history      == <<verdict, served, drained>>
vars == <<queue, socket, vstate, managerVars, verifierVars, history, fault>>

Queues  == {"pending", "verified", "rejected", "invalid"}
Holders == Conns \cup {Gone}

Init ==
    /\ queue = [q \in Queues |-> <<>>]
    /\ socket = [c \in Conns |-> "backlog"]
    /\ vstate = "OFF"
    /\ mpc = "accept" /\ asked = "RUNNING" /\ mq = "verified" /\ mhand = Gone
    /\ vpc = "start" /\ vsst = "OFF" /\ vq = "pending" /\ vhand = Gone
    /\ verdict = [c \in Conns |-> "none"] /\ served = {}
    /\ drained = FALSE /\ fault = FALSE

\* Mutant: HasVerifiedConnections lacks the "!" too.
HasSwapped(q) ==
    IF q \in {"invalid", "verified"} THEN queue[q] = <<>> ELSE queue[q] # <<>>
\* HasVerifiedConnections and its siblings. HasInvalidConnections lacks the "!".
Has(q) == IF q = "invalid" THEN queue[q] = <<>> ELSE queue[q] # <<>>

\* PushBack.
Push(q, c) == queue' = [queue EXCEPT ![q] = Append(@, c)]

\* Front, and the move from it, before (cleared) or after the other thread looks.
\* h is what the caller gets.
Front(q, h) ==
    \/ /\ queue[q] # <<>> /\ h = Head(queue[q])
       /\ \E cleared \in BOOLEAN :
            queue' = IF cleared THEN [queue EXCEPT ![q][1] = Gone] ELSE queue
       /\ UNCHANGED fault
    \/ /\ queue[q] = <<>> /\ h = Gone
       /\ fault' \in BOOLEAN /\ UNCHANGED queue

\* Mutant: the front element stays.
Unpopped(s) == s
\* What pop_front leaves of a deque.
Rest(s) == Tail(s)

\* PopFront.
PopFront(q) ==
    \/ /\ queue[q] # <<>>
       /\ queue' = [queue EXCEPT ![q] = Rest(@)] /\ UNCHANGED fault
    \/ /\ queue[q] = <<>>
       /\ fault' \in BOOLEAN /\ UNCHANGED queue

\* Shutdown of a connection; on an element that holds none it does nothing.
Closed(c) == [d \in Conns |-> IF d = c THEN "closed" ELSE socket[d]]

-----------------------------------------------------------------------------
(* The manager's thread: ServerManager::Run. *)

\* A connection is accepted and put on the pending queue.
Accept(c) ==
    /\ mpc = "accept" /\ socket[c] = "backlog"
    /\ socket' = [socket EXCEPT ![c] = "open"]
    /\ Push("pending", c)
    /\ UNCHANGED <<vstate, managerVars, verifierVars, history, fault>>

\* No more incoming connections.
AcceptedAll ==
    /\ mpc = "accept"
    /\ mpc' = "check" /\ mq' = "verified"
    /\ UNCHANGED <<queue, socket, vstate, asked, mhand, verifierVars, history, fault>>

\* Mutant: the manager answers connections whose login is still pending.
AfterQueuePending == [q \in {"verified", "rejected", "invalid"} |->
                        IF q = "verified" THEN "pending" ELSE "invalid"]
\* The manager looks at the verified, the rejected and the invalid queue.
AfterQueue == [q \in {"verified", "rejected", "invalid"} |->
                 IF q = "verified" THEN "rejected" ELSE "invalid"]
ToNextQueue ==
    IF mq = "invalid" THEN mpc' = "end" /\ mq' = mq
                      ELSE mpc' = "check" /\ mq' = AfterQueue[mq]

\* Has...Connections().
Check ==
    /\ mpc = "check"
    /\ IF Has(mq) THEN mpc' = "front" /\ mq' = mq ELSE ToNextQueue
    /\ UNCHANGED <<queue, socket, vstate, asked, mhand, verifierVars, history, fault>>

\* Pop...Connection(), first call...
TakeFront ==
    /\ mpc = "front"
    /\ \E h \in Holders : Front(mq, h) /\ mhand' = h
    /\ mpc' = "pop"
    /\ UNCHANGED <<socket, vstate, asked, mq, verifierVars, history>>

\* ... and second call.
TakePop ==
    /\ mpc = "pop"
    /\ PopFront(mq)
    /\ mpc' = "send"
    /\ UNCHANGED <<socket, vstate, asked, mq, mhand, verifierVars, history>>

\* The answer was sent: a verified connection goes to a server, another is closed.
Answered ==
    /\ mpc = "send" /\ mhand # Gone
    /\ IF mq = "verified"
         THEN served' = served \cup {mhand} /\ UNCHANGED socket
         ELSE socket' = Closed(mhand) /\ UNCHANGED served
    /\ mhand' = Gone
    /\ ToNextQueue
    /\ UNCHANGED <<queue, vstate, asked, verifierVars, verdict, drained, fault>>

\* Mutant: a connection whose answer was not sent is forgotten.
Forgotten(q, c) == UNCHANGED queue
\* NOT_SENT and its like: the connection goes back to its queue.
Readd(q, c) == Push(q, c)

\* The answer was not sent, or the connection turned out to be broken, or there
\* was none in the element (NOT_INITIATED).
Unanswered ==
    /\ mpc = "send"
    /\ \/ mhand # Gone /\ Readd(mq, mhand) /\ UNCHANGED socket
       \/ socket' = Closed(mhand) /\ UNCHANGED queue
    /\ mhand' = Gone
    /\ ToNextQueue
    /\ UNCHANGED <<vstate, asked, verifierVars, history, fault>>

\* curState = GetState(); the verifier is given the same state. Only RUNNING has
\* work with the queues; RESET and OFF lead to Shutdown, and so does a START_UP
\* that cannot open the port.
EndOfIteration(s) ==
    /\ mpc = "end"
    /\ asked' = s /\ vstate' = s
    /\ mpc' \in CASE s = "RUNNING" -> {"accept"}
                  [] s \in {"RESET", "OFF"} -> {"shutdown"}
                  [] s = "START_UP" -> {"end", "shutdown"}
                  [] OTHER -> {"end"}
    /\ UNCHANGED <<queue, socket, mq, mhand, verifierVars, history, fault>>

\* Shutdown, from Reset or after Run: the verifier is set OFF. m_uvThread is not
\* joinable, so nothing waits for the verifier's thread. A Reset that cannot open
\* the port ends Run.
Shutdown ==
    /\ mpc = "shutdown"
    /\ vstate' = "OFF"
    /\ mpc' \in {"returned"} \cup (IF asked = "RESET" THEN {"end"} ELSE {})
    /\ UNCHANGED <<queue, socket, asked, mq, mhand, verifierVars, history, fault>>

-----------------------------------------------------------------------------
(* The verifier's thread: UserVerifier::Run. *)

\* Run sets the state it was called with.
RunStart ==
    /\ vpc = "start"
    /\ vstate' = "RUNNING" /\ vsst' = "RUNNING" /\ vpc' = "top"
    /\ UNCHANGED <<queue, socket, managerVars, vq, vhand, history, fault>>

\* The loop's condition and its switch.
RunTop ==
    /\ vpc = "top"
    /\ vpc' = CASE vsst = "OFF" -> "done"
                [] vsst = "RUNNING" -> IF Has("pending") THEN "take" ELSE "read"
                [] vsst = "RESET" -> "drain"
                [] OTHER -> "read"
    /\ vq' = "pending"
    /\ drained' = (drained \/ vsst = "RESET")
    /\ UNCHANGED <<queue, socket, vstate, managerVars, vsst, vhand>>
    /\ UNCHANGED <<verdict, served, fault>>

\* PopPendingConnection: no other thread pops this queue.
TakePending ==
    /\ vpc = "take"
    /\ vhand' = Head(queue["pending"])
    /\ queue' = [queue EXCEPT !["pending"] = Rest(@)]
    /\ vpc' = "receive"
    /\ UNCHANGED <<socket, vstate, managerVars, vsst, vq, history, fault>>

\* Nothing to read yet: back to the pending queue.
NoData ==
    /\ vpc = "receive"
    /\ Push("pending", vhand)
    /\ vhand' = Gone /\ vpc' = "read"
    /\ UNCHANGED <<socket, vstate, managerVars, vsst, vq, history, fault>>

\* ERR, or SHUTDOWN by the client.
Broken ==
    /\ vpc = "receive"
    /\ socket' = Closed(vhand)
    /\ vhand' = Gone /\ vpc' = "read"
    /\ UNCHANGED <<queue, vstate, managerVars, vsst, vq, history, fault>>

\* What ExecuteStatement can return: SQLITE_ROW, SQLITE_DONE, an error.
QueryResults == {100, 101, 1}

\* VerifyLoginInformation takes any result but 0 for success.
VerifyLoginInformation(result) == result # 0

\* RECEIVED: the verdict. Whether the parsed message is valid is the parser's.
Judge ==
    /\ vpc = "receive"
    /\ \E valid \in BOOLEAN, result \in QueryResults :
         LET v == CASE ~valid -> "invalid"
                    [] valid /\ VerifyLoginInformation(result) -> "verified"
                    [] OTHER -> "rejected"
         IN Push(v, vhand) /\ verdict' = [verdict EXCEPT ![vhand] = v]
    /\ vhand' = Gone /\ vpc' = "read"
    /\ UNCHANGED <<socket, vstate, managerVars, vsst, vq, served, drained, fault>>

\* RESET: while (Has...) Pop...().Shutdown(), one queue after the other.
Drained == [q \in Queues |-> CASE q = "pending" -> "verified"
                               [] q = "verified" -> "rejected"
                               [] OTHER -> "invalid"]
DrainCheck ==
    /\ vpc = "drain"
    /\ IF Has(vq) THEN vpc' = "drainFront" /\ vq' = vq
       ELSE IF vq = "invalid" THEN vpc' = "drained" /\ vq' = vq
                              ELSE vpc' = "drain" /\ vq' = Drained[vq]
    /\ UNCHANGED <<queue, socket, vstate, managerVars, vsst, vhand, history, fault>>

DrainFront ==
    /\ vpc = "drainFront"
    /\ \E h \in Holders : Front(vq, h) /\ vhand' = h
    /\ vpc' = "drainPop"
    /\ UNCHANGED <<socket, vstate, managerVars, vsst, vq, history>>

DrainPop ==
    /\ vpc = "drainPop"
    /\ PopFront(vq)
    /\ socket' = Closed(vhand)
    /\ vhand' = Gone /\ vpc' = "drain"
    /\ UNCHANGED <<vstate, managerVars, vsst, vq, history>>

\* The drain ends with SetState(RUNNING), whatever was set meanwhile.
DrainEnd ==
    /\ vpc = "drained"
    /\ vstate' = "RUNNING" /\ vpc' = "read"
    /\ UNCHANGED <<queue, socket, managerVars, vsst, vq, vhand, history, fault>>

\* state = GetState().
RunRead ==
    /\ vpc = "read"
    /\ vsst' = vstate /\ vpc' = "top"
    /\ UNCHANGED <<queue, socket, vstate, managerVars, vq, vhand, history, fault>>

-----------------------------------------------------------------------------
Manager == (\E c \in Conns : Accept(c)) \/ AcceptedAll \/ Check \/ TakeFront
             \/ TakePop \/ Answered \/ Unanswered \/ Shutdown
Verifier == RunStart \/ RunTop \/ TakePending \/ NoData \/ Broken \/ Judge
              \/ DrainCheck \/ DrainFront \/ DrainPop \/ DrainEnd \/ RunRead

\* The program stopped, or both threads have returned.
Ended ==
    (fault \/ (mpc = "returned" /\ vpc = "done")) /\ UNCHANGED vars

Next ==
    \/ ~fault /\ (Manager \/ Verifier \/ \E s \in Orders : EndOfIteration(s))
    \/ Ended

\* Both threads keep running; a client that stays connected takes an answer that
\* is offered again and again.
Fairness ==
    /\ WF_vars(~fault /\ (Manager \/ \E s \in Orders : EndOfIteration(s)))
    /\ WF_vars(~fault /\ Verifier)
    /\ \A c \in Conns : SF_vars(~fault /\ mhand = c /\ Answered)

Spec == Init /\ [][Next]_vars
FairSpec == Spec /\ Fairness

-----------------------------------------------------------------------------
ManagerPlaces == {"accept", "check", "front", "pop", "send", "end", "shutdown",
                  "returned"}
VerifierPlaces == {"start", "top", "take", "receive", "drain", "drainFront",
                   "drainPop", "drained", "read", "done"}

\* Every variable has its type.
TypeOK ==
    /\ queue \in [Queues -> Seq(Holders)]
    /\ socket \in [Conns -> {"backlog", "open", "closed"}]
    /\ vstate \in ServerStates
    /\ mpc \in ManagerPlaces /\ asked \in ServerStates
    /\ mq \in {"verified", "rejected", "invalid"} /\ mhand \in Holders
    /\ vpc \in VerifierPlaces /\ vsst \in ServerStates
    /\ vq \in Queues /\ vhand \in Holders
    /\ verdict \in [Conns -> {"none", "verified", "rejected", "invalid"}]
    /\ served \subseteq Conns /\ drained \in BOOLEAN /\ fault \in BOOLEAN

\* The front of queue q, which a thread took already and pops next, is its own.
HalfPopped(q, c) ==
    \/ q = mq /\ mpc = "pop" /\ mhand = c
    \/ q = vq /\ vpc = "drainPop" /\ vhand = c

\* The positions of the queues that hold c.
At(c) ==
    UNION {{<<q, i>> : i \in {j \in 1 .. Len(queue[q]) :
                               /\ queue[q][j] = c
                               /\ ~(j = 1 /\ HalfPopped(q, c))}} : q \in Queues}

\* A connection in the pipeline has one holder: while both threads push and pop,
\* it is in one queue at one position, or in one thread's hand, or with a server
\* (UserVerifier.cpp:141-157, ServerManager.cpp:202-273). The drain of a RESET
\* (104-118) breaks this: see VerifiedKept.
SingleHolder ==
    ~drained => \A c \in Conns :
       /\ \A x, y \in At(c) : x = y
       /\ At(c) # {} => mhand # c /\ vhand # c /\ c \notin served
       /\ c \in served => mhand # c /\ vhand # c
       /\ mhand = c => vhand # c

\* A connection that waits for its login message is with the verifier alone, and
\* nothing was decided about it, even while a RESET drains the queues.
PendingExclusive ==
    \A c \in Conns : \A x \in At(c) :
       x[1] = "pending" =>
          /\ verdict[c] = "none" /\ c \notin served
          /\ mhand # c /\ vhand # c /\ At(c) = {x}

Held(c) == At(c) # {} \/ mhand = c \/ vhand = c

\* Where the pipeline stands with each connection, in the terms of LoginDesk.
StatusOf(c) ==
    CASE socket[c] = "backlog" -> "new"
      [] socket[c] # "backlog" /\ c \in served -> "served"
      [] socket[c] = "closed" /\ c \notin served -> "closed"
      [] socket[c] = "open" /\ c \notin served ->
           CASE ~Held(c) -> "dropped"
             [] Held(c) /\ verdict[c] = "none" -> "pending"
             [] Held(c) /\ verdict[c] # "none" -> verdict[c]

Desk == INSTANCE LoginDesk WITH status <- [c \in Conns |-> StatusOf(c)],
                                reset <- drained

\* The pipeline does what LoginDesk promises: one verdict for each connection,
\* service only for a verified one, and none lost but those judged invalid; and
\* while a RESET drains the queues, whatever becomes of the judged connections, one
\* that still waits for its login message is judged or closed, as before.
ImplementsDesk == Desk!Spec

\* A verified client is told so and handed to a server, or found disconnected,
\* unless the manager is asked to do something else than run or a RESET drains.
VerifiedServed ==
    \A c \in Conns :
       (verdict[c] = "verified") ~> \/ c \in served \/ socket[c] = "closed"
                                    \/ fault \/ drained \/ asked # "RUNNING"

-----------------------------------------------------------------------------
(* What comments of the source say, and the code does not do. *)

\* "Remove all connections and clients" (UserVerifier.cpp:103): a verified
\* connection that leaves the queues is closed or with a server.
VerifiedKept ==
    \A c \in Conns :
       verdict[c] = "verified" /\ socket[c] = "open" => c \in served \/ Held(c)
=============================================================================
