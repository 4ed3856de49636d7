----------------------------- MODULE Connection -----------------------------
(* One connection from Accept to its end (ServerConnections.cpp): the ConnectionInfo
   with its socket and SSL object, the verifier that receives the login message,
   the receiver thread in client_handler, and the byte stream in both directions.

   The peer, the network, Winsock and OpenSSL are external: a call returns any of
   the results the code tells apart. What is received is any piece of the stream,
   what is sent goes out whole, in part or not at all. The server's thread
   appends to the outgoing queue, sets the state and, in a RESET, keeps the state's
   mutex until the receiver thread has ended; the answer to the login and the objects'
   moves from queue to queue are in UserVerifier. *)
EXTENDS MessageText

CONSTANTS
    Streams,     \* what the peer may send: texts, each with a null character after it
    MaxReceived, \* bound: pieces received
    MaxReplies   \* bound: messages appended to the outgoing queue

ASSUME StreamsAssumption == Streams \subseteq Seq(Chars)
ASSUME BoundsAssumption == MaxReceived \in Nat /\ MaxReplies \in Nat

VARIABLES
    pc,       \* where the connection's thread is
    conn,     \* m_ssl and m_socket
    order,    \* the server's state: go on; OFF or RESET; RESET with its mutex kept
    sent,     \* the characters the peer sends; what has arrived is the network's choice
    read,     \* how many of them were received
    msg,      \* client_handler's string: what it holds
    received, \* how many pieces were received
    parsed,   \* the last message object made: does it have its fields, and which
    queued,   \* the messages put on the outgoing queue, in order
    popped,   \* how many of them were removed
    wire,     \* what the peer gets, piece by piece; the same text sent in part over
              \* and over is in it once
    fault     \* a freed object or a closed socket was used

inVars   == <<read, received, parsed>>
outVars  == <<popped, wire>>
vars == <<pc, conn, order, sent, inVars, msg, queued, outVars, fault>>

\* The outgoing messages client_handler makes a text of; for the others its
\* switch leaves msg alone.
WithText == {"MESSAGE_TO_USER", "LOGIN", "LOGOUT"}

\* What is put on the queue: routed and stored messages, and replies.
Replies == {"MESSAGE_TO_USER", "CONVERSATION_LIST"}

\* What a string holds: nothing, the text of the n-th message of the outgoing
\* queue, or the n-th piece received.
NoText == [of |-> "nothing", n |-> 0]
Strings == {NoText} \cup [of : {"queue"}, n : 1 .. MaxReplies]
                    \cup [of : {"peer"}, n : 1 .. MaxReceived]

\* A pointer that is null or points to a live object or to a freed one; a socket
\* that is INVALID_SOCKET, or open, or closed already.
Released == [ssl |-> "null", socket |-> "invalid"]
Dangling(c) == c.ssl = "freed" \/ c.socket = "closed"
IsValid(c) == c.ssl # "null" \/ c.socket # "invalid"

\* Is there a receiver thread that has not ended?
ThreadExists == pc \notin {"accept", "login", "unserved", "done"}

Init ==
    /\ pc = "accept" /\ conn = Released /\ order = "RUNNING"
    /\ sent \in Streams /\ read = 0
    /\ msg = NoText /\ received = 0 /\ parsed = NotParsed
    /\ queued = <<>> /\ popped = 0 /\ wire = <<>> /\ fault = FALSE

-----------------------------------------------------------------------------
(* Operators the actions are built from. *)

\* Mutant: Shutdown leaves the pointer and the socket as they are.
PointersKept(c) == [ssl    |-> IF c.ssl = "null" THEN "null" ELSE "freed",
                    socket |-> IF c.socket = "invalid" THEN "invalid" ELSE "closed"]
\* Shutdown: SSL_free and closesocket.
Shutdown(c) == Released

\* What a heap buffer can hold behind the bytes that were read into it: nothing,
\* or the end of an earlier text.
Leftovers == {<<>>, <<";">> \o Spelt("{e}")}

\* The C string in a buffer: up to the null character. ReceiveSocket writes one
\* behind the bytes it read, ReceiveSSL does not.
CString(piece, leftover) ==
    LET null == Find(piece, "null", 1)
    IN IF null # 0 THEN SubSeq(piece, 1, null - 1) ELSE piece \o leftover

\* Does ReceiveSSL read on behind its buffer's end?
Overread(piece) == conn.ssl # "null" /\ Find(piece, "null", 1) = 0

\* RECEIVED: a piece arrives and is parsed.
Received(login) ==
    /\ received < MaxReceived /\ received' = received + 1
    /\ read' \in read + 1 .. Len(sent)
    /\ LET piece == SubSeq(sent, read + 1, read')
       IN \E leftover \in (IF Overread(piece) THEN Leftovers ELSE {<<>>}) :
            LET text == CString(piece, leftover)
            IN parsed' = IF login THEN Parse("300", text) ELSE ParseRequest(text)

\* The calls of Send and Receive and of Shutdown look at the pointers first.
Use == fault' = (fault \/ Dangling(conn))

Goto(place) == pc' = place

-----------------------------------------------------------------------------
(* The manager's and the verifier's thread. *)

\* Accept: no socket, a plain one if there is no SSL context, or one with SSL; if
\* the handshake fails both are released.
Accept ==
    /\ pc = "accept"
    /\ \/ conn' = [ssl |-> "null", socket |-> "open"] /\ Goto("login")
       \/ conn' = [ssl |-> "live", socket |-> "open"] /\ Goto("login")
       \/ conn' = Released /\ Goto("done")
    /\ UNCHANGED <<order, sent, inVars, msg, queued, outVars, fault>>

\* The login message arrives: the client is verified, or it is closed after the
\* answer. A verified client AddClient refuses is neither served nor closed.
LoginReceived ==
    /\ pc = "login" /\ Received(TRUE) /\ Use
    /\ pc' \in {"top", "unserved", "close"}
    /\ UNCHANGED <<conn, order, sent, msg, queued, outVars>>

\* SHUTDOWN by the peer, or ERR, or a RESET that drains the queues.
LoginLost ==
    /\ pc = "login" /\ Use
    /\ Goto("close")
    /\ UNCHANGED <<conn, order, sent, inVars, msg, queued, outVars>>

-----------------------------------------------------------------------------
(* The receiver thread: client_handler. *)

\* Mutant: the string is declared before the loop.
StringKept == msg
\* string msg, declared in the loop.
NewString == NoText

\* Mutant: the thread returns without closing.
ThreadReturns == "done"
\* Where the thread goes when the loop ends.
LoopEnd == "close"

\* RetrieveObject waits for the state's mutex; then the loop's condition.
Top ==
    /\ pc = "top" /\ order # "LOCKED"
    /\ IF IsValid(conn) /\ order = "RUNNING"
         THEN Goto("receive") /\ msg' = NewString
         ELSE Goto(LoopEnd) /\ msg' = NoText
    /\ UNCHANGED <<conn, order, sent, inVars, queued, outVars, fault>>

\* RECEIVED: the text is parsed and goes on the incoming queue.
HandlerReceived ==
    /\ pc = "receive" /\ Received(FALSE) /\ Use
    /\ msg' = [of |-> "peer", n |-> received']
    /\ Goto("send")
    /\ UNCHANGED <<conn, order, sent, queued, outVars>>

\* Mutant: continue instead of break.
ContinueLoop == "top"
\* The switch on Receive's result is left, and the same iteration sends.
LeaveSwitch == "send"

\* NO_DATA_PRESENT, WANT_READ.
NothingReceived ==
    /\ pc = "receive" /\ Use
    /\ Goto(LeaveSwitch)
    /\ UNCHANGED <<conn, order, sent, inVars, msg, queued, outVars>>

\* SHUTDOWN: Receive has shut the connection down, since SSL_read found it closed, or
\* recv with a length of 0 returned 0, which it may also while data is there.
PeerClosed ==
    /\ pc = "receive" /\ Use
    /\ conn' = Shutdown(conn)
    /\ Goto("closeReceived")
    /\ UNCHANGED <<order, sent, inVars, msg, queued, outVars>>

\* ERR of Receive or of Send.
Failed ==
    /\ \/ pc = "receive" /\ Goto("closeReceived")
       \/ pc = "write" /\ IsValid(conn) /\ Goto("closeSent")
    /\ Use
    /\ UNCHANGED <<conn, order, sent, inVars, msg, queued, outVars>>

\* CloseConnection, and where the thread goes on: also after a SHUTDOWN that has
\* released everything, and into the same iteration's Send.
AfterClose == [place \in {"closeReceived", "closeSent", "close"} |->
                 CASE place = "closeReceived" -> "send"
                   [] place = "closeSent" -> "top"
                   [] place = "close" -> "done"]
CloseConnection ==
    /\ pc \in DOMAIN AfterClose /\ Use
    /\ conn' = Shutdown(conn)
    /\ Goto(AfterClose[pc])
    /\ UNCHANGED <<order, sent, inVars, msg, queued, outVars>>

\* Mutant: the text is made of the message behind the front.
SecondIndex == popped + 2
\* The front of the outgoing queue.
FrontIndex == popped + 1

\* The text of the front of the outgoing queue, if the queue is not empty.
MakeText ==
    /\ pc = "send"
    /\ IF popped = Len(queued)
         THEN Goto("top") /\ UNCHANGED msg
         ELSE /\ Goto("write")
              /\ msg' = IF queued[popped + 1] \in WithText
                          THEN [of |-> "queue", n |-> FrontIndex] ELSE msg
    /\ UNCHANGED <<conn, order, sent, inVars, queued, outVars, fault>>

\* SENT.
Sent ==
    /\ pc = "write" /\ IsValid(conn) /\ Use
    /\ wire' = Append(wire, [text |-> msg, whole |-> TRUE])
    /\ Goto("pop")
    /\ UNCHANGED <<conn, order, sent, inVars, msg, queued, popped>>

\* Mutant: what was sent in part counts as sent.
PartialDone == "pop"
\* client_handler's default case: the message stays in front.
AfterPartial == "top"

\* NOT_FULLY_SENT, however often. The null character alone is not sent in part.
NotFullySent ==
    /\ pc = "write" /\ IsValid(conn) /\ Use
    /\ msg # NoText
    /\ LET piece == [text |-> msg, whole |-> FALSE]
       IN wire' = IF msg.of = "queue" /\ wire # <<>> /\ Last(wire) = piece
                    THEN wire ELSE Append(wire, piece)
    /\ Goto(AfterPartial)
    /\ UNCHANGED <<conn, order, sent, inVars, msg, queued, popped>>

\* NOT_SENT and WANT_WRITE; NOT_INITIATED if the connection was closed.
NotSent ==
    /\ pc = "write" /\ Use
    /\ Goto("top")
    /\ UNCHANGED <<conn, order, sent, inVars, msg, queued, outVars>>

\* SHUTDOWN: SSL_write returned 0, and SendSSL has shut the connection down.
SendShutdown ==
    /\ pc = "write" /\ conn.ssl # "null" /\ Use
    /\ conn' = Shutdown(conn)
    /\ Goto("closeSent")
    /\ UNCHANGED <<order, sent, inVars, msg, queued, outVars>>

\* out->pop() and the deletion of the message.
Pop ==
    /\ pc = "pop"
    /\ popped' = popped + 1
    /\ Goto("top")
    /\ UNCHANGED <<conn, order, sent, inVars, msg, queued, wire, fault>>

-----------------------------------------------------------------------------
(* The server's thread and the manager. *)

\* A message for the client, from the receiver thread's start to its end.
Push(code) ==
    /\ ThreadExists /\ Len(queued) < MaxReplies
    /\ queued' = Append(queued, code)
    /\ UNCHANGED <<pc, conn, order, sent, inVars, msg, outVars, fault>>

\* SetState of the manager: OFF or RESET.
Stop ==
    /\ order = "RUNNING" /\ order' = "STOP"
    /\ UNCHANGED <<pc, conn, sent, inVars, msg, queued, outVars, fault>>

\* Run's SetState of the state it was started with, and START_UP's SetState(RUNNING),
\* over an order that came since.
Overwritten ==
    /\ order = "STOP" /\ order' = "RUNNING"
    /\ UNCHANGED <<pc, conn, sent, inVars, msg, queued, outVars, fault>>

\* The RESET case: LockChange keeps the mutex...
LockChange ==
    /\ order = "STOP" /\ order' = "LOCKED"
    /\ UNCHANGED <<pc, conn, sent, inVars, msg, queued, outVars, fault>>

\* ... until the thread is joined; the next state is START_UP.
Unlock ==
    /\ order = "LOCKED" /\ ~ThreadExists
    /\ order' = "RUNNING"
    /\ UNCHANGED <<pc, conn, sent, inVars, msg, queued, outVars, fault>>

-----------------------------------------------------------------------------
Handler ==
    \/ Top \/ HandlerReceived \/ NothingReceived \/ PeerClosed \/ Failed
    \/ CloseConnection \/ MakeText \/ Sent \/ NotFullySent \/ NotSent
    \/ SendShutdown \/ Pop

Environment ==
    Stop \/ Overwritten \/ LockChange \/ Unlock \/ \E code \in Replies : Push(code)

\* There is no thread any more, or it waits for the mutex that is kept until it ends.
Ended ==
    /\ pc \in {"unserved", "done"} \/ (pc = "top" /\ order = "LOCKED")
    /\ UNCHANGED vars

Next == Accept \/ LoginReceived \/ LoginLost \/ Handler \/ Environment \/ Ended

\* The receiver thread keeps running. What the peer takes, and what becomes of the
\* server's state, is nobody's obligation.
Fairness == WF_vars(Handler)

Spec == Init /\ [][Next]_vars
FairSpec == Spec /\ Fairness

-----------------------------------------------------------------------------
Places == {"accept", "login", "unserved", "top", "receive", "closeReceived", "send",
           "write", "pop", "closeSent", "close", "done"}

\* Every variable has its type.
TypeOK ==
    /\ pc \in Places /\ order \in {"RUNNING", "STOP", "LOCKED"}
    /\ conn \in [ssl : {"null", "live", "freed"},
                socket : {"invalid", "open", "closed"}]
    /\ sent \in Streams /\ read \in 0 .. Len(sent)
    /\ parsed \in [ok : BOOLEAN, fields : Seq(Seq(Chars))]
    /\ msg \in Strings /\ received \in 0 .. MaxReceived
    /\ queued \in Seq(Replies) /\ popped \in 0 .. Len(queued)
    /\ wire \in Seq([text : Strings, whole : BOOLEAN]) /\ fault \in BOOLEAN

\* The piece of the stream between two positions begins with a whole text, one that is
\* parsed by the thread that receives it.
HoldsText(from, to, login) ==
    LET end  == Find(sent, "null", from) - 1
        text == SubSeq(sent, from, end)
    IN /\ from = 1 \/ sent[from - 1] = "null"
       /\ end \in from .. to
       /\ Parseable(text) /\ (text[1] = "300") = login

\* However the stream is cut into pieces, a message object gets its fields just when
\* the piece holds a whole text with what its Parse... function looks for, and each
\* field begins with the value the peer sent; what follows it, and whatever follows
\* the text in the piece, does not matter (Messages.cpp:25-403). The second value of
\* a 300 or a 204 may lose its end (Left; Messages.cpp:42-45, 391-394). Left out are
\* pieces that end before the null character: ReceiveSSL reads on behind its buffer's
\* end (ServerConnections.cpp:304, 326), and a text cut short can then seem complete.
TextsParsed ==
    [][received' # received /\ ~Overread(SubSeq(sent, read + 1, read')) =>
         /\ parsed'.ok <=> HoldsText(read + 1, read', pc = "login")
         /\ parsed'.ok => Begins(sent[read + 1], parsed'.fields)]_vars

\* How many of the first n pieces are whole texts.
WholeTexts(pieces, n) == Cardinality({i \in 1 .. n : pieces[i].whole})

\* The text is what client_handler sends for the k-th of the messages.
SentFor(text, messages, k) ==
    IF messages[k] \in WithText THEN text = [of |-> "queue", n |-> k]
                               ELSE text.of # "queue"

\* The peer gets as many whole texts as messages were removed from the queue, in
\* their order, and a message with a text of its own gets that text; what it gets in
\* part is the beginning of the next. This although a message stays in front after
\* each NOT_FULLY_SENT, NOT_SENT and WANT_WRITE (Server.cpp:75-115).
PeerSeesReplies ==
    /\ WholeTexts(wire, Len(wire)) = popped + (IF pc = "pop" THEN 1 ELSE 0)
    /\ \A i \in 1 .. Len(wire) : SentFor(wire[i].text, queued, WholeTexts(wire, i - 1) + 1)

\* The text sent for a message that has none is what was received in the same
\* iteration (Server.cpp:30, 90-98): none of the peer's texts comes back twice.
EchoedOnce ==
    \A i, j \in 1 .. Len(wire) :
       wire[i].text = wire[j].text /\ wire[i].text.of = "peer" => i = j

\* After SHUTDOWN, ERR, OFF and RESET, in any order with the Send of the same
\* iteration and the further CloseConnections, no freed SSL object and no closed
\* socket is used or released again, and a thread that has ended leaves none open.
ReleasedOnce == ~fault /\ (pc = "done" => conn = Released)

\* Each message on the outgoing queue is offered to the peer when it is in front,
\* whether or not something is received meanwhile, unless the connection is closed or
\* the server told to stop (Server.cpp:66-101). Whether the peer takes it whole, so that
\* the next one comes to the front, is left to the peer and to what send() accepts.
RepliesOffered ==
    \A k \in 1 .. MaxReplies :
       popped = k - 1 /\ popped < Len(queued)
         ~> \/ pc = "write" /\ popped = k - 1 /\ SentFor(msg, queued, k)
            \/ popped >= k \/ ~IsValid(conn) \/ order # "RUNNING"

\* A receiver thread that OFF or RESET finds at any point ends, and its connection is
\* released, unless the order is overwritten (Server.cpp:152, 165), or the RESET case
\* takes the mutex before the thread has read it (252; ResetCompletes in Server).
StopReleases ==
    order = "STOP" /\ ThreadExists
      ~> (pc = "done" /\ conn = Released) \/ order # "STOP"
=============================================================================
