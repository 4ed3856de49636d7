-------------------------- MODULE ConnectionProofs --------------------------
(* Connection, for any streams and any bounds: its type; what is released is released
   once and not used again; no text comes back twice; and the peer gets what the
   outgoing queue held, in its order. *)
EXTENDS Connection, FiniteSetTheorems, SequenceTheorems, TLAPS

\* The pointer and the socket are never left dangling, and nothing was used while
\* they were; a thread that has ended has released them.
HandleOK ==
    /\ conn.ssl \in {"null", "live"} /\ conn.socket \in {"invalid", "open"}
    /\ fault = FALSE
    /\ pc = "done" => conn = Released

\* The string has its place in an iteration: it is new until something is received,
\* and until it is written the peer has not got it. What was sent of the peer's
\* texts was received before.
Pieces == [text : Strings, whole : BOOLEAN]
BeforeWrite == {"closeReceived", "send", "write"}
StringOK ==
    /\ wire \in Seq(Pieces) /\ msg \in Strings
    /\ received \in 0 .. MaxReceived
    /\ pc \in {"receive", "closeReceived"} => msg = NoText
    /\ msg.of = "peer" => msg.n <= received
    /\ \A i \in 1 .. Len(wire) : wire[i].text.of = "peer" => wire[i].text.n <= received
    /\ pc \in BeforeWrite /\ msg.of = "peer" =>
          \A i \in 1 .. Len(wire) : wire[i].text # msg

\* From the text's making to the pop, the outgoing queue has a front.
QueueOK ==
    /\ queued \in Seq(Replies) /\ Len(queued) <= MaxReplies
    /\ popped \in 0 .. Len(queued)
    /\ pc \in {"write", "pop"} => popped < Len(queued)

ConnectionInv == HandleOK /\ QueueOK /\ StringOK /\ EchoedOnce

-----------------------------------------------------------------------------
LEMMA ConnectionInit == Init => ConnectionInv
<1> SUFFICES ASSUME Init PROVE ConnectionInv
  OBVIOUS
<1>1. HandleOK /\ QueueOK
  BY BoundsAssumption DEF Init, HandleOK, QueueOK, Released
<1>2. wire = <<>> /\ Len(wire) = 0 /\ msg = NoText /\ received = 0 /\ pc = "accept"
  BY DEF Init
<1>3. msg \in Strings
  BY <1>2 DEF Strings
<1>4. StringOK
  BY <1>2, <1>3, BoundsAssumption DEF StringOK, BeforeWrite, NoText
<1>5. EchoedOnce
  BY <1>2 DEF EchoedOnce
<1> QED
  BY <1>1, <1>4, <1>5 DEF ConnectionInv

\* No use of the objects is one too many.
LEMMA UseIsLegal ==
  ASSUME HandleOK, Use
  PROVE  fault' = FALSE
  BY DEF HandleOK, Use, Dangling

LEMMA HandleInv ==
  ASSUME HandleOK, Next
  PROVE  HandleOK'
<1>1. CASE Accept
  BY <1>1 DEF Accept, HandleOK, Goto, Released
<1>2. CASE LoginReceived \/ LoginLost
  BY <1>2, UseIsLegal DEF LoginReceived, LoginLost, HandleOK, Goto
<1>3. CASE Top
  <2>1. pc' # "done"
    BY <1>3 DEF Top, Goto, LoopEnd
  <2> QED
    BY <1>3, <2>1 DEF Top, HandleOK
<1>4. CASE HandlerReceived \/ NothingReceived \/ Failed
  <2>1. fault' = FALSE /\ pc' # "done" /\ conn' = conn
    BY <1>4, UseIsLegal DEF HandlerReceived, NothingReceived, Failed, Goto, LeaveSwitch
  <2> QED
    BY <2>1 DEF HandleOK
<1>5. CASE PeerClosed \/ SendShutdown
  <2>1. fault' = FALSE /\ conn' = Released
    BY <1>5, UseIsLegal DEF PeerClosed, SendShutdown, Shutdown
  <2> QED
    BY <2>1 DEF HandleOK, Released
<1>6. CASE CloseConnection
  <2>1. fault' = FALSE /\ conn' = Released
    BY <1>6, UseIsLegal DEF CloseConnection, Shutdown
  <2> QED
    BY <2>1 DEF HandleOK, Released
<1>7. CASE MakeText \/ Pop
  <2>1. pc' # "done" /\ UNCHANGED <<conn, fault>>
    BY <1>7 DEF MakeText, Pop, Goto
  <2> QED
    BY <2>1 DEF HandleOK
<1>8. CASE Sent \/ NotFullySent \/ NotSent
  <2>1. fault' = FALSE /\ pc' # "done" /\ conn' = conn
    BY <1>8, UseIsLegal DEF Sent, NotFullySent, NotSent, Goto, AfterPartial
  <2> QED
    BY <2>1 DEF HandleOK
<1>9. CASE Environment \/ Ended
  <2>1. UNCHANGED <<pc, conn, fault>>
    BY <1>9
       DEF Environment, Stop, Overwritten, LockChange, Unlock, Push, Ended, vars, inVars,
       outVars
  <2> QED
    BY <2>1 DEF HandleOK
<1> QED
  BY <1>1, <1>2, <1>3, <1>4, <1>5, <1>6, <1>7, <1>8, <1>9 DEF Next, Handler

LEMMA QueueInv ==
  ASSUME QueueOK, Next
  PROVE  QueueOK'
<1>1. CASE Accept \/ LoginReceived \/ LoginLost
  BY <1>1 DEF Accept, LoginReceived, LoginLost, Goto, outVars, QueueOK
<1>2. CASE Top \/ HandlerReceived \/ NothingReceived \/ PeerClosed \/ Failed
  <2>1. UNCHANGED <<queued, popped>> /\ pc' \notin {"write", "pop"}
    BY <1>2 DEF Top, HandlerReceived, NothingReceived, PeerClosed, Failed, Goto, LoopEnd,
       LeaveSwitch, outVars
  <2> QED
    BY <2>1 DEF QueueOK
<1>3. CASE CloseConnection
  <2>1. UNCHANGED <<queued, popped>> /\ pc' \in {"send", "top", "done"}
    BY <1>3 DEF CloseConnection, AfterClose, Goto, outVars
  <2> QED
    BY <2>1 DEF QueueOK
<1>4. CASE MakeText
  BY <1>4 DEF MakeText, Goto, outVars, QueueOK
<1>5. CASE Sent
  BY <1>5 DEF Sent, Goto, QueueOK
<1>6. CASE NotFullySent \/ NotSent \/ SendShutdown
  <2>1. UNCHANGED <<queued, popped>> /\ pc' \in {"top", "closeSent"}
    BY <1>6 DEF NotFullySent, NotSent, SendShutdown, AfterPartial, Goto, outVars
  <2> QED
    BY <2>1 DEF QueueOK
<1>7. CASE Pop
  BY <1>7 DEF Pop, Goto, QueueOK
<1>8. ASSUME NEW code \in Replies, Push(code) PROVE QueueOK'
  <2>1. /\ queued' = Append(queued, code) /\ Len(queued) < MaxReplies
        /\ UNCHANGED <<pc, popped>>
    BY <1>8 DEF Push, outVars
  <2>2. queued' \in Seq(Replies) /\ Len(queued') = Len(queued) + 1
    BY <2>1 DEF QueueOK
  <2>3. Len(queued') <= MaxReplies /\ popped' \in 0 .. Len(queued')
    BY <2>1, <2>2, BoundsAssumption DEF QueueOK
  <2> QED
    BY <2>1, <2>2, <2>3 DEF QueueOK
<1>9. CASE Stop \/ Overwritten \/ LockChange \/ Unlock \/ Ended
  <2>1. UNCHANGED <<queued, popped, pc>>
    BY <1>9 DEF Stop, Overwritten, LockChange, Unlock, Ended, vars, outVars
  <2> QED
    BY <2>1 DEF QueueOK
<1> QED
  BY <1>1, <1>2, <1>3, <1>4, <1>5, <1>6, <1>7, <1>8, <1>9 DEF Next, Handler, Environment

-----------------------------------------------------------------------------
\* The steps that neither receive nor write.
LEMMA QuietInv ==
  ASSUME StringOK, EchoedOnce, UNCHANGED <<wire, received>>,
         msg' \in Strings,
         pc' \in {"receive", "closeReceived"} => msg' = NoText,
         msg'.of = "peer" => msg' = msg,
         pc' \in BeforeWrite /\ msg'.of = "peer" => pc \in BeforeWrite
  PROVE  StringOK' /\ EchoedOnce'
<1>1. StringOK'
  BY DEF StringOK
<1>2. EchoedOnce'
  BY DEF EchoedOnce
<1> QED
  BY <1>1, <1>2

\* A piece is received: the string, if it is kept, is none the peer has got.
LEMMA ReceivedInv ==
  ASSUME StringOK, EchoedOnce, received < MaxReceived, received' = received + 1,
         wire' = wire,
         \/ msg' = msg /\ pc' \notin BeforeWrite \cup {"receive"}
         \/ msg' = [of |-> "peer", n |-> received'] /\ pc' = "send"
  PROVE  StringOK' /\ EchoedOnce'
<1>1. received' \in 1 .. MaxReceived
  BY BoundsAssumption DEF StringOK
<1>2. msg' \in Strings
  BY <1>1 DEF StringOK, Strings
<1>3. ASSUME NEW i \in 1 .. Len(wire), wire[i].text.of = "peer"
      PROVE  wire[i].text.n <= received /\ wire[i].text.n <= received'
  <2>1. wire[i] \in Pieces
    BY DEF StringOK
  <2>2. wire[i].text.n \in Nat
    BY <1>3, <2>1, BoundsAssumption DEF Strings, NoText, Pieces
  <2> QED
    BY <1>3, <2>2 DEF StringOK
<1>4. ASSUME pc' \in BeforeWrite, NEW i \in 1 .. Len(wire) PROVE wire[i].text # msg'
  <2>1. msg' = [of |-> "peer", n |-> received + 1]
    BY <1>4
  <2>2. wire[i].text # [of |-> "peer", n |-> received + 1]
    BY <1>3 DEF StringOK
  <2> QED
    BY <2>1, <2>2
<1>5. msg'.of = "peer" => msg'.n <= received'
  <2>1. msg.of = "peer" => msg.n \in Nat
    BY BoundsAssumption DEF StringOK, Strings, NoText
  <2>2. CASE msg' = msg
    BY <2>1, <2>2 DEF StringOK
  <2>3. CASE msg' = [of |-> "peer", n |-> received']
    BY <1>1, <2>3
  <2> QED
    BY <2>2, <2>3
<1>6. pc' \notin {"receive", "closeReceived"}
  BY DEF BeforeWrite
<1>7. StringOK'
  BY <1>1, <1>2, <1>3, <1>4, <1>5, <1>6 DEF StringOK
<1>8. EchoedOnce'
  BY DEF EchoedOnce
<1> QED
  BY <1>7, <1>8

\* A piece is written.
LEMMA WriteInv ==
  ASSUME StringOK, EchoedOnce, pc = "write", pc' \in {"pop", "top"}, NEW w \in BOOLEAN,
         UNCHANGED <<msg, received>>, wire' = Append(wire, [text |-> msg, whole |-> w])
  PROVE  StringOK' /\ EchoedOnce'
<1> DEFINE piece == [text |-> msg, whole |-> w]
<1>1. piece \in Pieces /\ piece.text = msg
  BY DEF StringOK, Pieces
<1> HIDE DEF piece
<1>2. wire \in Seq(Pieces)
  BY DEF StringOK
<1>3. /\ wire' \in Seq(Pieces) /\ Len(wire') = Len(wire) + 1
      /\ \A i \in 1 .. Len(wire) : wire'[i] = wire[i]
      /\ wire'[Len(wire) + 1] = piece
  BY <1>1, <1>2 DEF piece
<1>4. ASSUME NEW i \in 1 .. Len(wire), msg.of = "peer" PROVE wire[i].text # msg
  BY <1>4 DEF StringOK, BeforeWrite
<1>5. StringOK'
  <2>1. ASSUME NEW i \in 1 .. Len(wire'), wire'[i].text.of = "peer"
        PROVE  wire'[i].text.n <= received
    <3>1. CASE i = Len(wire) + 1
      BY <1>1, <1>3, <2>1, <3>1 DEF StringOK
    <3>2. CASE i # Len(wire) + 1
      <4>1. i \in 1 .. Len(wire)
        BY <1>2, <1>3, <3>2
      <4> QED
        BY <1>3, <2>1, <4>1 DEF StringOK
    <3> QED
      BY <3>1, <3>2
  <2> QED
    BY <1>3, <2>1 DEF StringOK, BeforeWrite
<1>6. EchoedOnce'
  <2> SUFFICES ASSUME NEW i \in 1 .. Len(wire'), NEW j \in 1 .. Len(wire'),
                      wire'[i].text = wire'[j].text, wire'[i].text.of = "peer"
               PROVE  i = j
    BY DEF EchoedOnce
  <2>1. ASSUME NEW k \in 1 .. Len(wire') PROVE k \in 1 .. Len(wire) \/ k = Len(wire) + 1
    BY <1>2, <1>3
  <2>2. CASE i = Len(wire) + 1 \/ j = Len(wire) + 1
    BY <1>1, <1>3, <1>4, <2>1, <2>2
  <2>3. CASE i \in 1 .. Len(wire) /\ j \in 1 .. Len(wire)
    BY <1>3, <2>3 DEF EchoedOnce
  <2> QED
    BY <2>1, <2>2, <2>3
<1> QED
  BY <1>5, <1>6

LEMMA StringInv ==
  ASSUME QueueOK, StringOK, EchoedOnce, Next
  PROVE  StringOK' /\ EchoedOnce'
<1>0. msg \in Strings /\ NoText \in Strings
  BY DEF StringOK, Strings
<1>1. CASE Accept \/ LoginLost
  <2>1. UNCHANGED <<wire, received, msg>> /\ pc' \in {"login", "done", "close"}
    BY <1>1 DEF Accept, LoginLost, Goto, inVars, outVars
  <2> QED
    BY <1>0, <2>1, QuietInv DEF BeforeWrite
<1>2. CASE LoginReceived
  <2>1. /\ received < MaxReceived /\ received' = received + 1 /\ UNCHANGED <<wire, msg>>
        /\ pc' \in {"top", "unserved", "close"}
    BY <1>2 DEF LoginReceived, Received, outVars
  <2> QED
    BY <2>1, ReceivedInv DEF BeforeWrite
<1>3. CASE Top
  <2>1. /\ UNCHANGED <<wire, received>>
        /\ pc' \in {"receive", "close"} /\ msg' = NoText
    BY <1>3 DEF Top, Goto, LoopEnd, NewString, inVars, outVars
  <2>2. NoText.of # "peer"
    BY DEF NoText
  <2> QED
    BY <1>0, <2>1, <2>2, QuietInv
<1>4. CASE HandlerReceived
  <2>1. /\ received < MaxReceived /\ received' = received + 1 /\ wire' = wire
        /\ msg' = [of |-> "peer", n |-> received'] /\ pc' = "send"
    BY <1>4 DEF HandlerReceived, Received, Goto, outVars
  <2> QED
    BY <2>1, ReceivedInv
<1>5. CASE NothingReceived \/ PeerClosed
  <2>1. /\ UNCHANGED <<wire, received, msg>> /\ pc = "receive"
        /\ pc' \in {"send", "closeReceived"}
    BY <1>5 DEF NothingReceived, PeerClosed, Goto, LeaveSwitch, inVars, outVars
  <2>2. msg = NoText /\ NoText.of # "peer"
    BY <2>1 DEF StringOK, NoText
  <2> QED
    BY <1>0, <2>1, <2>2, QuietInv
<1>6. CASE Failed
  <2>1. /\ UNCHANGED <<wire, received, msg>>
        /\ \/ pc = "receive" /\ pc' = "closeReceived"
           \/ pc = "write" /\ pc' = "closeSent"
    BY <1>6 DEF Failed, Goto, inVars, outVars
  <2>2. pc = "receive" => msg = NoText /\ NoText.of # "peer"
    BY DEF StringOK, NoText
  <2> QED
    BY <1>0, <2>1, <2>2, QuietInv DEF BeforeWrite
<1>7. CASE CloseConnection
  <2>1. /\ UNCHANGED <<wire, received, msg>>
        /\ (pc = "closeReceived" /\ pc' = "send") \/ pc' \in {"top", "done"}
    BY <1>7 DEF CloseConnection, AfterClose, Goto, inVars, outVars
  <2> QED
    BY <1>0, <2>1, QuietInv DEF BeforeWrite
<1>8. CASE MakeText
  <2>1. UNCHANGED <<wire, received>> /\ pc = "send" /\ pc' \in {"top", "write"}
    BY <1>8 DEF MakeText, Goto, inVars, outVars
  <2>2. msg' = msg \/ msg' = [of |-> "queue", n |-> FrontIndex]
    BY <1>8 DEF MakeText
  <2>3. msg' \in Strings
    <3>1. CASE popped = Len(queued)
      BY <1>0, <1>8, <3>1 DEF MakeText
    <3>2. CASE popped # Len(queued)
      <4>1. FrontIndex \in 1 .. MaxReplies
        BY <3>2, BoundsAssumption DEF QueueOK, FrontIndex
      <4> QED
        BY <1>0, <2>2, <4>1 DEF Strings
    <3> QED
      BY <3>1, <3>2
  <2> QED
    BY <2>1, <2>2, <2>3, QuietInv DEF BeforeWrite
<1>9. CASE Sent
  <2>1. /\ pc = "write" /\ pc' = "pop" /\ UNCHANGED <<msg, received>>
        /\ wire' = Append(wire, [text |-> msg, whole |-> TRUE])
    BY <1>9 DEF Sent, Goto, inVars
  <2> QED
    BY <2>1, WriteInv
<1>10. CASE NotFullySent
  <2>1. pc = "write" /\ pc' = "top" /\ UNCHANGED <<msg, received>>
    BY <1>10 DEF NotFullySent, Goto, AfterPartial, inVars
  <2>2. wire' = wire \/ wire' = Append(wire, [text |-> msg, whole |-> FALSE])
    BY <1>10 DEF NotFullySent
  <2>3. CASE wire' = wire
    BY <1>0, <2>1, <2>3, QuietInv DEF BeforeWrite
  <2> QED
    BY <2>1, <2>2, <2>3, WriteInv
<1>11. CASE NotSent \/ SendShutdown \/ Pop
  <2>1. UNCHANGED <<wire, received, msg>> /\ pc' \in {"top", "closeSent"}
    BY <1>11 DEF NotSent, SendShutdown, Pop, Goto, inVars, outVars
  <2> QED
    BY <1>0, <2>1, QuietInv DEF BeforeWrite
<1>12. CASE Environment \/ Ended
  <2>1. UNCHANGED <<wire, received, msg, pc>>
    BY <1>12
       DEF Environment, Stop, Overwritten, LockChange, Unlock, Push, Ended, vars, inVars,
       outVars
  <2> QED
    BY <2>1 DEF StringOK, EchoedOnce
<1> QED
  BY <1>1, <1>2, <1>3, <1>4, <1>5, <1>6, <1>7, <1>8, <1>9, <1>10, <1>11, <1>12
     DEF Next, Handler

-----------------------------------------------------------------------------
\* The first strengthening: handles released once, and whose text the string in hand is.
THEOREM ConnectionInvariant == Spec => []ConnectionInv
<1>1. ConnectionInv /\ [Next]_vars => ConnectionInv'
  <2> SUFFICES ASSUME ConnectionInv, [Next]_vars PROVE ConnectionInv'
    OBVIOUS
  <2>1. CASE Next
    BY <2>1, HandleInv, QueueInv, StringInv DEF ConnectionInv
  <2>2. CASE UNCHANGED vars
    BY <2>2
       DEF vars, inVars, outVars, ConnectionInv, HandleOK, QueueOK, StringOK, EchoedOnce
  <2> QED
    BY <2>1, <2>2
<1> QED
  BY <1>1, ConnectionInit, PTL DEF Spec

\* Whatever the order of SHUTDOWN, ERR, OFF, RESET, Send and CloseConnection, the SSL
\* object and the socket are released once, not used afterwards, and released when
\* the thread has ended (ServerConnections.cpp:61-96, Server.cpp:23-120).
THEOREM HandlesReleasedOnce == Spec => []ReleasedOnce
<1>1. ConnectionInv => ReleasedOnce
  BY DEF ConnectionInv, HandleOK, ReleasedOnce
<1> QED
  BY <1>1, ConnectionInvariant, PTL

\* No text of the peer's comes back twice, however many messages are sent in whole or
\* in part (Server.cpp:30, 90-98).
THEOREM NothingEchoedTwice == Spec => []EchoedOnce
<1>1. ConnectionInv => EchoedOnce
  BY DEF ConnectionInv
<1> QED
  BY <1>1, ConnectionInvariant, PTL
-----------------------------------------------------------------------------
(* How many whole texts there are, when a piece is written. *)

\* Between the start of an iteration and the making of the text, the string holds no
\* text of the outgoing queue; then it holds what is sent for the front. What was
\* written was written for messages that were on the queue.
RepliesInv ==
    /\ PeerSeesReplies
    /\ \A i \in 1 .. Len(wire) : WholeTexts(wire, i - 1) + 1 \in 1 .. Len(queued)
    /\ pc \in {"receive", "closeReceived", "send"} => msg.of # "queue"
    /\ pc = "write" => SentFor(msg, queued, popped + 1)

LEMMA WholeTextsType ==
  ASSUME NEW n \in Nat
  PROVE  IsFiniteSet({i \in 1 .. n : wire[i].whole}) /\ WholeTexts(wire, n) \in Nat
<1>1. IsFiniteSet(1 .. n)
  BY FS_Interval
<1>2. {i \in 1 .. n : wire[i].whole} \in SUBSET (1 .. n)
  OBVIOUS
<1>3. IsFiniteSet({i \in 1 .. n : wire[i].whole})
  BY <1>1, <1>2, FS_Subset
<1> QED
  BY <1>3, FS_CardinalityType DEF WholeTexts

LEMMA WholeTextsWritten ==
  ASSUME StringOK, NEW w \in BOOLEAN,
         wire' = Append(wire, [text |-> msg, whole |-> w])
  PROVE  /\ wire' \in Seq(Pieces) /\ Len(wire) \in Nat /\ Len(wire') = Len(wire) + 1
         /\ \A i \in 1 .. Len(wire) : wire'[i] = wire[i]
         /\ wire'[Len(wire) + 1].text = msg
         /\ \A n \in 0 .. Len(wire) : WholeTexts(wire', n) = WholeTexts(wire, n)
         /\ WholeTexts(wire', Len(wire')) =
              WholeTexts(wire, Len(wire)) + (IF w THEN 1 ELSE 0)
<1> DEFINE piece == [text |-> msg, whole |-> w]
<1>1. piece \in Pieces /\ piece.text = msg /\ piece.whole = w
  BY DEF StringOK, Pieces
<1> HIDE DEF piece
<1>2. /\ wire' \in Seq(Pieces) /\ Len(wire) \in Nat /\ Len(wire') = Len(wire) + 1
      /\ \A i \in 1 .. Len(wire) : wire'[i] = wire[i]
      /\ wire'[Len(wire) + 1] = piece
  BY <1>1 DEF StringOK, piece
<1>3. ASSUME NEW n \in 0 .. Len(wire) PROVE WholeTexts(wire', n) = WholeTexts(wire, n)
  <2>1. {i \in 1 .. n : wire'[i].whole} = {i \in 1 .. n : wire[i].whole}
    BY <1>2
  <2> QED
    BY <2>1 DEF WholeTexts
<1>4. WholeTexts(wire', Len(wire) + 1) = WholeTexts(wire, Len(wire)) + (IF w THEN 1 ELSE 0)
  <2> DEFINE old == {i \in 1 .. Len(wire) : wire[i].whole}
  <2> DEFINE new == {i \in 1 .. Len(wire) + 1 : wire'[i].whole}
  <2>1. IsFiniteSet(old) /\ Cardinality(old) = WholeTexts(wire, Len(wire))
        /\ WholeTexts(wire, Len(wire)) \in Nat
    BY <1>2, WholeTextsType DEF WholeTexts
  <2>2. Cardinality(new) = WholeTexts(wire', Len(wire) + 1)
    BY <1>2 DEF WholeTexts
  <2>3. Len(wire) + 1 \notin old
    BY <1>2
  <2>4. CASE w
    <3>1. new = old \cup {Len(wire) + 1}
      BY <1>1, <1>2, <2>4
    <3> QED
      BY <2>1, <2>2, <2>3, <2>4, <3>1, FS_AddElement
  <2>5. CASE ~w
    <3>1. new = old
      BY <1>1, <1>2, <2>5
    <3>2. WholeTexts(wire', Len(wire) + 1) = WholeTexts(wire, Len(wire))
      BY <2>1, <2>2, <3>1
    <3>3. WholeTexts(wire, Len(wire)) + 0 = WholeTexts(wire, Len(wire))
      BY <2>1
    <3> QED
      BY <2>5, <3>2, <3>3
  <2> QED
    BY <2>4, <2>5
<1> QED
  BY <1>1, <1>2, <1>3, <1>4

LEMMA NoneWritten == WholeTexts(wire, 0) = 0
<1>1. {i \in 1 .. 0 : wire[i].whole} = {}
  OBVIOUS
<1>2. Cardinality({}) = 0
  BY FS_EmptySet
<1> QED
  BY <1>1, <1>2, Zenon DEF WholeTexts

-----------------------------------------------------------------------------
\* The steps that neither write nor pop nor push.
LEMMA RepliesKept ==
  ASSUME RepliesInv, UNCHANGED <<wire, queued, popped>>,
         (pc' = "pop") = (pc = "pop"),
         pc' \in {"receive", "closeReceived", "send"} => msg'.of # "queue",
         pc' = "write" => SentFor(msg', queued, popped + 1)
  PROVE  RepliesInv'
<1>1. PeerSeesReplies'
  BY DEF RepliesInv, PeerSeesReplies
<1> QED
  BY <1>1 DEF RepliesInv

\* The text of the front is written, whole or in part.
LEMMA RepliesWritten ==
  ASSUME QueueOK, StringOK, RepliesInv, pc = "write", NEW w \in BOOLEAN,
         pc' = (IF w THEN "pop" ELSE "top"), UNCHANGED <<queued, popped>>,
         wire' = Append(wire, [text |-> msg, whole |-> w])
  PROVE  RepliesInv'
<1>1. /\ wire' \in Seq(Pieces) /\ Len(wire) \in Nat /\ Len(wire') = Len(wire) + 1
      /\ \A i \in 1 .. Len(wire) : wire'[i] = wire[i]
      /\ wire'[Len(wire) + 1].text = msg
      /\ \A n \in 0 .. Len(wire) : WholeTexts(wire', n) = WholeTexts(wire, n)
      /\ WholeTexts(wire', Len(wire')) = WholeTexts(wire, Len(wire)) + (IF w THEN 1 ELSE 0)
  BY WholeTextsWritten
<1>2. WholeTexts(wire, Len(wire)) = popped
  <2>1. WholeTexts(wire, Len(wire)) = popped + 0
    BY DEF RepliesInv, PeerSeesReplies
  <2> QED
    BY <2>1 DEF QueueOK
<1>3. queued' = queued
  OBVIOUS
<1>4. ASSUME NEW i \in 1 .. Len(wire')
      PROVE  /\ SentFor(wire'[i].text, queued', WholeTexts(wire', i - 1) + 1)
             /\ WholeTexts(wire', i - 1) + 1 \in 1 .. Len(queued)
  <2>1. WholeTexts(wire', i - 1) = WholeTexts(wire, i - 1)
    BY <1>1, i - 1 \in 0 .. Len(wire)
  <2>2. CASE i = Len(wire) + 1
    <3>1. WholeTexts(wire, i - 1) = popped /\ wire'[i].text = msg
      BY <1>1, <1>2, <2>2
    <3>2. popped + 1 \in 1 .. Len(queued)
      BY DEF QueueOK
    <3>3. SentFor(msg, queued, popped + 1)
      BY DEF RepliesInv
    <3> QED
      BY <1>3, <2>1, <3>1, <3>2, <3>3
  <2>3. CASE i # Len(wire) + 1
    <3>1. i \in 1 .. Len(wire) /\ wire'[i] = wire[i]
      BY <1>1, <2>3
    <3> QED
      BY <1>3, <2>1, <3>1 DEF RepliesInv, PeerSeesReplies
  <2> QED
    BY <2>2, <2>3
<1>5. WholeTexts(wire', Len(wire')) = popped' + (IF pc' = "pop" THEN 1 ELSE 0)
  BY <1>1, <1>2
<1>6. PeerSeesReplies'
  BY <1>4, <1>5 DEF PeerSeesReplies
<1>7. pc' \notin {"receive", "closeReceived", "send", "write"}
  OBVIOUS
<1> QED
  BY <1>4, <1>6, <1>7 DEF RepliesInv

\* A message is put on the queue, behind those that are written or about to be.
LEMMA RepliesPushed ==
  ASSUME QueueOK, RepliesInv, NEW code \in Replies, Push(code)
  PROVE  RepliesInv'
<1>1. UNCHANGED <<pc, msg, wire, popped>> /\ queued' = Append(queued, code)
  BY DEF Push, outVars
<1>2. /\ Len(queued') = Len(queued) + 1 /\ Len(queued) \in Nat
      /\ \A k \in 1 .. Len(queued) : queued'[k] = queued[k]
  BY <1>1 DEF QueueOK
<1>3. wire' = wire
  BY <1>1
<1>4. \A k \in 1 .. Len(queued) : \A text :
         SentFor(text, queued', k) <=> SentFor(text, queued, k)
  BY <1>2 DEF SentFor
<1>5. \A i \in 1 .. Len(wire) :
         /\ WholeTexts(wire, i - 1) + 1 \in 1 .. Len(queued)
         /\ SentFor(wire[i].text, queued', WholeTexts(wire, i - 1) + 1)
  BY <1>4 DEF RepliesInv, PeerSeesReplies
<1>6. \A i \in 1 .. Len(wire) : WholeTexts(wire, i - 1) + 1 \in 1 .. Len(queued')
  BY <1>2, <1>5
<1>7. PeerSeesReplies'
  BY <1>1, <1>3, <1>5 DEF RepliesInv, PeerSeesReplies
<1>8. pc = "write" => SentFor(msg, queued', popped + 1)
  <2>1. pc = "write" => popped + 1 \in 1 .. Len(queued)
    BY DEF QueueOK
  <2> QED
    BY <1>4, <2>1 DEF RepliesInv
<1> QED
  BY <1>1, <1>3, <1>6, <1>7, <1>8 DEF RepliesInv

LEMMA RepliesStep ==
  ASSUME QueueOK, StringOK, RepliesInv, Next
  PROVE  RepliesInv'
<1>1. CASE Accept \/ LoginReceived \/ LoginLost
  <2>1. /\ UNCHANGED <<wire, queued, popped>> /\ pc # "pop"
        /\ pc' \in {"login", "done", "top", "unserved", "close"}
    BY <1>1 DEF Accept, LoginReceived, LoginLost, Goto, outVars
  <2> QED
    BY <2>1, RepliesKept
<1>2. CASE Top
  <2>1. /\ UNCHANGED <<wire, queued, popped>> /\ pc # "pop"
        /\ pc' \in {"receive", "close"} /\ msg' = NoText
    BY <1>2 DEF Top, Goto, LoopEnd, NewString, outVars
  <2> QED
    BY <2>1, RepliesKept DEF NoText
<1>3. CASE HandlerReceived
  <2>1. /\ UNCHANGED <<wire, queued, popped>> /\ pc # "pop" /\ pc' = "send"
        /\ msg' = [of |-> "peer", n |-> received']
    BY <1>3 DEF HandlerReceived, Goto, outVars
  <2>2. msg'.of # "queue"
    BY <2>1
  <2> QED
    BY <2>1, <2>2, RepliesKept
<1>4. CASE NothingReceived \/ PeerClosed \/ Failed \/ CloseConnection
  <2>1. /\ UNCHANGED <<wire, queued, popped, msg>> /\ pc # "pop"
        /\ \/ pc \in {"receive", "closeReceived"} /\ pc' \in {"send", "closeReceived"}
           \/ pc' \in {"closeSent", "top", "done"}
    BY <1>4 DEF NothingReceived, PeerClosed, Failed, CloseConnection, AfterClose, Goto,
       LeaveSwitch, outVars
  <2>2. pc' \in {"receive", "closeReceived", "send"} => msg'.of # "queue"
    BY <2>1 DEF RepliesInv
  <2> QED
    BY <2>1, <2>2, RepliesKept
<1>5. CASE MakeText
  <2>1. UNCHANGED <<wire, queued, popped>> /\ pc = "send"
    BY <1>5 DEF MakeText, outVars
  <2>2. CASE popped = Len(queued)
    <3>1. pc' = "top"
      BY <1>5, <2>2 DEF MakeText, Goto
    <3> QED
      BY <2>1, <3>1, RepliesKept
  <2>3. CASE popped # Len(queued)
    <3>1. /\ pc' = "write"
          /\ msg' = IF queued[popped + 1] \in WithText
                      THEN [of |-> "queue", n |-> popped + 1] ELSE msg
      BY <1>5, <2>3 DEF MakeText, Goto, FrontIndex
    <3>2. msg.of # "queue"
      BY <2>1 DEF RepliesInv
    <3>3. SentFor(msg', queued, popped + 1)
      BY <3>1, <3>2 DEF SentFor
    <3> QED
      BY <2>1, <3>1, <3>3, RepliesKept
  <2> QED
    BY <2>2, <2>3
<1>6. CASE Sent
  <2>1. /\ UNCHANGED <<queued, popped>> /\ pc = "write"
        /\ pc' = (IF TRUE THEN "pop" ELSE "top")
        /\ wire' = Append(wire, [text |-> msg, whole |-> TRUE])
    BY <1>6 DEF Sent, Goto
  <2> QED
    BY <2>1, RepliesWritten
<1>7. CASE NotFullySent
  <2>1. /\ UNCHANGED <<queued, popped>> /\ pc = "write" /\ pc' = "top"
        /\ wire' = wire \/ wire' = Append(wire, [text |-> msg, whole |-> FALSE])
    BY <1>7 DEF NotFullySent, Goto, AfterPartial
  <2>2. CASE wire' = wire
    BY <2>1, <2>2, RepliesKept
  <2>3. CASE wire' = Append(wire, [text |-> msg, whole |-> FALSE])
    <3>1. pc' = (IF FALSE THEN "pop" ELSE "top")
      BY <2>1
    <3> QED
      BY <2>1, <2>3, <3>1, RepliesWritten
  <2> QED
    BY <2>1, <2>2, <2>3
<1>8. CASE NotSent \/ SendShutdown
  <2>1. UNCHANGED <<wire, queued, popped>> /\ pc # "pop" /\ pc' \in {"top", "closeSent"}
    BY <1>8 DEF NotSent, SendShutdown, Goto, outVars
  <2> QED
    BY <2>1, RepliesKept
<1>9. CASE Pop
  <2>1. /\ UNCHANGED <<wire, queued>> /\ pc = "pop" /\ pc' = "top"
        /\ popped' = popped + 1
    BY <1>9 DEF Pop, Goto
  <2>2. WholeTexts(wire', Len(wire')) = popped' + (IF pc' = "pop" THEN 1 ELSE 0)
    <3>1. WholeTexts(wire, Len(wire)) = popped + 1
      BY <2>1 DEF RepliesInv, PeerSeesReplies
    <3> QED
      BY <2>1, <3>1 DEF QueueOK
  <2>3. PeerSeesReplies'
    BY <2>1, <2>2 DEF RepliesInv, PeerSeesReplies
  <2> QED
    BY <2>1, <2>3 DEF RepliesInv
<1>10. CASE Environment
  <2>1. CASE Stop \/ Overwritten \/ LockChange \/ Unlock
    <3>1. UNCHANGED <<wire, queued, popped, pc, msg>>
      BY <2>1 DEF Stop, Overwritten, LockChange, Unlock, outVars
    <3> QED
      BY <3>1, RepliesKept DEF RepliesInv
  <2> QED
    BY <1>10, <2>1, RepliesPushed DEF Environment
<1>11. CASE Ended
  <2>1. UNCHANGED <<wire, queued, popped, pc, msg>>
    BY <1>11 DEF Ended, vars, outVars
  <2> QED
    BY <2>1, RepliesKept DEF RepliesInv
<1> QED
  BY <1>1, <1>2, <1>3, <1>4, <1>5, <1>6, <1>7, <1>8, <1>9, <1>10, <1>11
     DEF Next, Handler

\* The peer gets the texts of the outgoing queue in its order, each whole once,
\* whatever is sent in part, not at all or again (Server.cpp:75-115): for any number of
\* messages and of attempts.
THEOREM RepliesSeenInOrder == Spec => []PeerSeesReplies
<1>1. Init => RepliesInv
  <2> SUFFICES ASSUME Init PROVE RepliesInv
    OBVIOUS
  <2>1. wire = <<>> /\ Len(wire) = 0 /\ popped = 0 /\ pc = "accept"
    BY DEF Init
  <2> QED
    BY <2>1, NoneWritten DEF RepliesInv, PeerSeesReplies
<1>2. ConnectionInv /\ RepliesInv /\ [Next]_vars => RepliesInv'
  <2> SUFFICES ASSUME ConnectionInv, RepliesInv, [Next]_vars PROVE RepliesInv'
    OBVIOUS
  <2>1. CASE Next
    BY <2>1, RepliesStep DEF ConnectionInv
  <2>2. CASE UNCHANGED vars
    <3>1. UNCHANGED <<wire, queued, popped, pc, msg>>
      BY <2>2 DEF vars, outVars
    <3> QED
      BY <3>1, RepliesKept DEF RepliesInv
  <2> QED
    BY <2>1, <2>2
<1>3. RepliesInv => PeerSeesReplies
  BY DEF RepliesInv
<1> QED
  BY <1>1, <1>2, <1>3, ConnectionInvariant, PTL DEF Spec

-----------------------------------------------------------------------------
(* What the Parse... functions return. *)

LEMMA LeastExists ==
  ASSUME NEW S \in SUBSET Nat, S # {}
  PROVE  Min(S) \in S
<1> DEFINE Below(x) == 0 .. x - 1
<1> DEFINE T == {Below(x) : x \in S}
<1>1. T \in SUBSET FiniteSubsetsOf(Nat) /\ T # {}
  <2>1. \A x \in S : Below(x) \in SUBSET Nat /\ IsFiniteSet(Below(x))
    BY FS_Interval
  <2> QED
    BY <2>1 DEF FiniteSubsetsOf
<1>2. PICK B \in T : \A C \in T : <<C, B>> \notin StrictSubsetOrdering(Nat)
  <2> HIDE DEF T
  <2> QED
    BY <1>1, FS_StrictSubsetOrderingWellFounded, WFMin
<1>3. PICK m \in S : B = Below(m)
  OBVIOUS
<1>4. ASSUME NEW y \in S PROVE m <= y
  <2>1. <<Below(y), Below(m)>> \notin StrictSubsetOrdering(Nat)
    BY <1>2, <1>3
  <2>2. <<Below(y), Below(m)>> \in (SUBSET Nat) \X (SUBSET Nat)
    OBVIOUS
  <2>3. ~ (Below(y) \subseteq Below(m) /\ Below(y) # Below(m))
    <3> HIDE DEF Below
    <3> QED
      BY <2>1, <2>2 DEF StrictSubsetOrdering
  <2>4. CASE y < m
    <3>1. m - 1 \in Below(m) /\ y \in Below(m) /\ y \notin Below(y)
      BY <2>4
    <3>2. Below(y) \subseteq Below(m)
      BY <2>4
    <3> QED
      BY <2>3, <3>1, <3>2
  <2> QED
    BY <2>4
<1> QED
  BY <1>4 DEF Min

\* A position, or npos.
LEMMA FindType ==
  ASSUME NEW text \in Seq(Chars), NEW token, NEW from \in Nat
  PROVE  /\ Find(text, token, from) \in {0} \cup from .. Len(text)
         /\ Find(text, token, from) \in Nat
<1> DEFINE found == {i \in from .. Len(text) - Width(token) + 1 :
                       SubSeq(text, i, i + Width(token) - 1) = Spelt(token)}
<1>0. Width(token) \in 1 .. 3
  BY DEF Width
<1> SUFFICES Find(text, token, from) \in {0} \cup from .. Len(text)
  OBVIOUS
<1>1. CASE found = {}
  BY <1>1 DEF Find
<1>2. CASE found # {}
  <2>1. found \in SUBSET Nat
    OBVIOUS
  <2>2. Min(found) \in found
    <3> HIDE DEF found
    <3> QED
      BY <1>2, <2>1, LeastExists
  <2> QED
    <3>1. Find(text, token, from) = Min(found)
      BY <1>2 DEF Find
    <3>2. Min(found) \in from .. Len(text) - Width(token) + 1
      BY <2>2
    <3> HIDE DEF found
    <3> QED
      BY <1>0, <3>1, <3>2
<1> QED
  BY <1>1, <1>2

LEMMA FieldsWanted ==
  ASSUME NEW code \in Texts \ {"other"}
  PROVE  Len(Wanted[code]) \in 1 .. 5
<1>1. CASE code = "100"
  BY <1>1 DEF Wanted
<1>2. CASE code \in {"201", "304"}
  BY <1>2 DEF Wanted
<1>3. CASE code \in {"202", "203", "204", "300"}
  BY <1>3 DEF Wanted
<1> QED
  BY <1>1, <1>2, <1>3 DEF Texts

\* No class has more than five fields: that Delimiters is defined by recursion is no
\* matter for induction.
LEMMA DelimitersType ==
  ASSUME NEW code \in Texts \ {"other"}, NEW text \in Seq(Chars),
         NEW k \in 1 .. Len(Wanted[code])
  PROVE  Delimiters(code, text)[k] \in Nat
<1> DEFINE n == Len(Wanted[code])
<1> DEFINE Following(x) == IF x = 0 THEN 0 ELSE Find(text, ";", SearchFrom(code, x))
<1> DEFINE first == Find(text, ";", 5)
<1> DEFINE F(d) == [i \in 1 .. n |-> IF i = 1 THEN first ELSE Following(d[i - 1])]
<1> DEFINE D == Delimiters(code, text)
<1>1. D = CHOOSE d : d = F(d)
  BY DEF Delimiters
<1>2. first \in Nat
  BY FindType
<1>3. ASSUME NEW x \in Nat PROVE Following(x) \in Nat
  <2>1. x # 0 => SearchFrom(code, x) \in Nat
    BY DEF SearchFrom
  <2> QED
    BY <2>1, FindType
<1>4. n \in 1 .. 5
  BY FieldsWanted
<1>k. k \in 1 .. n
  OBVIOUS
<1> HIDE DEF n, Following, first, D
<1>5. \E d : d = F(d)
  <2> DEFINE second == Following(first)
  <2> DEFINE third  == Following(second)
  <2> DEFINE fourth == Following(third)
  <2> DEFINE fifth  == Following(fourth)
  <2> DEFINE w == [i \in 1 .. n |-> IF i = 1 THEN first ELSE IF i = 2 THEN second
                                      ELSE IF i = 3 THEN third ELSE IF i = 4 THEN fourth
                                      ELSE fifth]
  <2>1. ASSUME NEW i \in 1 .. n
        PROVE  w[i] = IF i = 1 THEN first ELSE Following(w[i - 1])
    <3>1. i \in {1, 2, 3, 4, 5} /\ (i # 1 => i - 1 \in 1 .. n)
      BY <1>4
    <3> QED
      BY <3>1
  <2>2. w = F(w)
    BY <2>1
  <2> QED
    BY <2>2
<1>6. D = F(D)
  <2> HIDE DEF F
  <2> QED
    BY <1>1, <1>5
<1>7. \A i \in 1 .. n : D[i] = IF i = 1 THEN first ELSE Following(D[i - 1])
  BY <1>6
<1> HIDE DEF F
<1>8. ASSUME NEW i \in 1 .. n, i = 1 \/ D[i - 1] \in Nat PROVE D[i] \in Nat
  BY <1>2, <1>3, <1>7, <1>8
<1>9. D[1] \in Nat
  BY <1>4, <1>8
<1>10. 2 <= n => D[2] \in Nat
  BY <1>4, <1>8, <1>9
<1>11. 3 <= n => D[3] \in Nat
  BY <1>4, <1>8, <1>10
<1>12. 4 <= n => D[4] \in Nat
  BY <1>4, <1>8, <1>11
<1>13. 5 <= n => D[5] \in Nat
  BY <1>4, <1>8, <1>12
<1>14. D[k] \in Nat
  <2>1. k \in {1, 2, 3, 4, 5} /\ k <= n
    BY <1>4, <1>k
  <2> QED
    BY <1>9, <1>10, <1>11, <1>12, <1>13, <2>1
<1> QED
  BY <1>14 DEF D

\* A piece of a sequence of characters.
LEMMA PieceType ==
  ASSUME NEW s \in Seq(Chars), NEW m \in Nat \ {0}, NEW n \in Int, n <= Len(s)
  PROVE  SubSeq(s, m, n) \in Seq(Chars)
  BY SubSeqProperties

\* A token, letter by letter.
LEMMA SpeltType ==
  ASSUME NEW token \in Chars
  PROVE  Spelt(token) \in Seq(Chars)
<1>1. Width(token) \in Nat
  BY DEF Width
<1>2. "rest" \in Chars
  BY DEF Chars
<1>3. ASSUME NEW i \in 1 .. Width(token)
      PROVE  (IF i = 1 THEN token ELSE "rest") \in Chars
  BY <1>2
<1> QED
  BY <1>1, <1>3 DEF Spelt

LEMMA SingleType ==
  ASSUME NEW T, NEW a \in T
  PROVE  <<a>> \in Seq(T)
  OBVIOUS

LEMMA SubstrType ==
  ASSUME NEW text \in Seq(Chars), NEW tag \in Nat, NEW delimiter \in Nat
  PROVE  Substr(text, tag, delimiter) \in Seq(Chars)
<1> DEFINE last == Min({Len(text), tag + delimiter - 1})
<1>1. last \in Int /\ last <= Len(text)
  <2>1. \E x \in {Len(text), tag + delimiter - 1} :
          \A y \in {Len(text), tag + delimiter - 1} : x <= y
    OBVIOUS
  <2>2. /\ last \in {Len(text), tag + delimiter - 1}
        /\ \A y \in {Len(text), tag + delimiter - 1} : last <= y
    BY <2>1 DEF Min
  <2> QED
    BY <2>2
<1> HIDE DEF last
<1>2. SubSeq(text, tag + 2, last) \in Seq(Chars)
  BY <1>1, PieceType
<1> QED
  BY <1>2 DEF Substr, last

Objects == [ok : BOOLEAN, fields : Seq(Seq(Chars))]

LEMMA ParseType ==
  ASSUME NEW code \in Texts \ {"other"}, NEW text \in Seq(Chars)
  PROVE  Parse(code, text) \in Objects
<1> DEFINE n == Len(Wanted[code])
<1> DEFINE tag == [k \in 1 .. n |-> Find(text, Wanted[code][k], 1)]
<1> DEFINE delimiter == Delimiters(code, text)
<1> DEFINE fields == [k \in 1 .. n |-> Substr(text, tag[k], delimiter[k])]
<1> DEFINE ok == /\ HasCode(text, code)
                 /\ \A k \in 1 .. n : tag[k] # 0 /\ delimiter[k] # 0
                 /\ HasEnd(text)
<1>1. n \in Nat
  BY FieldsWanted
<1>2. ASSUME NEW k \in 1 .. n PROVE Substr(text, tag[k], delimiter[k]) \in Seq(Chars)
  <2>1. tag[k] \in Nat
    BY FindType
  <2>2. delimiter[k] \in Nat
    BY DelimitersType
  <2> HIDE DEF tag, delimiter
  <2> QED
    BY <2>1, <2>2, SubstrType
<1>3. fields \in Seq(Seq(Chars))
  <2> HIDE DEF tag, delimiter, n
  <2> QED
    BY <1>1, <1>2
<1>4. Parse(code, text) = [ok |-> ok, fields |-> IF ok THEN fields ELSE <<>>]
  BY DEF Parse
<1>5. ok \in BOOLEAN
  OBVIOUS
<1> HIDE DEF ok, fields
<1> QED
  BY <1>3, <1>4, <1>5 DEF Objects

LEMMA ParseRequestType ==
  ASSUME NEW text \in Seq(Chars)
  PROVE  ParseRequest(text) \in Objects
<1> DEFINE Recognised == /\ text # <<>> /\ text[1] \in Texts /\ HasCode(text, text[1])
                         /\ GetMessageType(text[1]) # "INVALID"
<1>1. CASE Recognised
  <2>1. text[1] # "other"
    BY <1>1 DEF GetMessageType
  <2> QED
    BY <1>1, <2>1, ParseType DEF ParseRequest
<1>2. CASE ~Recognised
  BY <1>2 DEF ParseRequest, NotParsed, Objects
<1> QED
  BY <1>1, <1>2

\* Whatever piece of the stream arrives, and whatever lies behind it in the buffer.
LEMMA ReceivedType ==
  ASSUME sent \in Seq(Chars), read \in Nat, NEW login \in BOOLEAN, Received(login)
  PROVE  read' \in 0 .. Len(sent) /\ parsed' \in Objects
<1> DEFINE piece == SubSeq(sent, read + 1, read')
<1> DEFINE leftovers == IF Overread(piece) THEN Leftovers ELSE {<<>>}
<1>1. read' \in read + 1 .. Len(sent)
  BY DEF Received
<1>2. piece \in Seq(Chars)
  BY <1>1, PieceType
<1>3. PICK leftover \in leftovers :
        parsed' = IF login THEN Parse("300", CString(piece, leftover))
                           ELSE ParseRequest(CString(piece, leftover))
  BY Zenon DEF Received
<1>4. leftover \in Seq(Chars)
  <2>1. ";" \in Chars /\ "{e}" \in Chars
    BY DEF Chars
  <2>2. <<>> \in Seq(Chars)
    OBVIOUS
  <2>3. <<";">> \o Spelt("{e}") \in Seq(Chars)
    <3>1. <<";">> \in Seq(Chars)
      BY <2>1, SingleType, Zenon
    <3>2. Spelt("{e}") \in Seq(Chars)
      BY <2>1, SpeltType
    <3> QED
      BY <3>1, <3>2, ConcatProperties
  <2>4. leftover = <<>> \/ leftover = <<";">> \o Spelt("{e}")
    BY Zenon DEF Leftovers
  <2> QED
    BY <2>2, <2>3, <2>4
<1>5. CString(piece, leftover) \in Seq(Chars)
  <2> HIDE DEF piece
  <2> DEFINE null == Find(piece, "null", 1)
  <2>1. null \in {0} \cup 1 .. Len(piece)
    BY <1>2, FindType
  <2>2. CASE null = 0
    <3>1. CString(piece, leftover) = piece \o leftover
      BY <2>2 DEF CString
    <3> QED
      BY <1>2, <1>4, <3>1
  <2>3. CASE null # 0
    <3> HIDE DEF null
    <3>1. null - 1 \in Int /\ null - 1 <= Len(piece)
      BY <1>2, <2>1, <2>3
    <3>2. SubSeq(piece, 1, null - 1) \in Seq(Chars)
      BY <1>2, <3>1, PieceType
    <3>3. CString(piece, leftover) = SubSeq(piece, 1, null - 1)
      BY <2>3 DEF CString, null
    <3> QED
      BY <3>2, <3>3
  <2> QED
    BY <2>2, <2>3
<1>6. "300" \in Texts \ {"other"}
  BY DEF Texts
<1> HIDE DEF piece
<1>7. parsed' \in Objects
  BY <1>3, <1>5, <1>6, ParseType, ParseRequestType
<1> QED
  BY <1>1, <1>7

-----------------------------------------------------------------------------
\* What of TypeOK the earlier invariants do not say.
Handles == [ssl : {"null", "live"}, socket : {"invalid", "open"}]
States  == {"RUNNING", "STOP", "LOCKED"}
InputOK ==
    /\ pc \in Places /\ order \in States /\ conn \in Handles
    /\ sent \in Streams /\ read \in 0 .. Len(sent) /\ parsed \in Objects

LEMMA InputInv ==
  ASSUME InputOK, Next
  PROVE  InputOK'
<1>s. sent \in Seq(Chars) /\ read \in Nat
  BY StreamsAssumption DEF InputOK
<1>1. CASE Accept \/ LoginLost
  BY <1>1 DEF Accept, LoginLost, Goto, inVars, InputOK, Places, Handles, Released
<1>2. CASE LoginReceived
  <2>1. Received(TRUE) /\ UNCHANGED <<conn, sent, order>> /\ pc' \in Places
    BY <1>2 DEF LoginReceived, Places
  <2>2. read' \in 0 .. Len(sent) /\ parsed' \in Objects
    BY <1>s, <2>1, ReceivedType
  <2> QED
    BY <2>1, <2>2 DEF InputOK
<1>3. CASE HandlerReceived
  <2>1. Received(FALSE) /\ UNCHANGED <<conn, sent, order>> /\ pc' \in Places
    BY <1>3 DEF HandlerReceived, Goto, Places
  <2>2. read' \in 0 .. Len(sent) /\ parsed' \in Objects
    BY <1>s, <2>1, ReceivedType
  <2> QED
    BY <2>1, <2>2 DEF InputOK
<1>4. CASE Top \/ NothingReceived \/ PeerClosed \/ Failed \/ CloseConnection
  <2>1. UNCHANGED <<sent, order, inVars>> /\ pc' \in Places /\ conn' \in {conn, Released}
    BY <1>4 DEF Top, NothingReceived, PeerClosed, Failed, CloseConnection, AfterClose, Goto,
       LoopEnd, LeaveSwitch, Places, Shutdown
  <2> QED
    BY <2>1 DEF InputOK, inVars, Handles, Released
<1>5. CASE MakeText \/ Sent \/ NotFullySent \/ NotSent \/ SendShutdown \/ Pop
  <2>1. UNCHANGED <<sent, order, inVars>> /\ pc' \in Places /\ conn' \in {conn, Released}
    BY <1>5 DEF MakeText, Sent, NotFullySent, NotSent, SendShutdown, Pop, Goto,
       AfterPartial, Places, Shutdown
  <2> QED
    BY <2>1 DEF InputOK, inVars, Handles, Released
<1>6. CASE Environment \/ Ended
  <2>1. UNCHANGED <<sent, pc, conn, inVars>> /\ order' \in States
    BY <1>6
       DEF Environment, Stop, Overwritten, LockChange, Unlock, Push, Ended, vars, InputOK,
       States
  <2> QED
    BY <2>1 DEF InputOK, inVars
<1> QED
  BY <1>1, <1>2, <1>3, <1>4, <1>5, <1>6 DEF Next, Handler

\* Every variable of the connection keeps its type; above all, each Parse... function
\* returns an object with fields that are texts, whatever piece of whatever stream it
\* is given (Messages.cpp:25-403).
THEOREM ConnectionTyped == Spec => []TypeOK
<1>1. Init => InputOK
  <2> SUFFICES ASSUME Init PROVE InputOK
    OBVIOUS
  <2>1. sent \in Streams /\ sent \in Seq(Chars) /\ read = 0
    BY StreamsAssumption DEF Init
  <2>2. <<>> \in Seq(Seq(Chars))
    OBVIOUS
  <2>3. parsed \in Objects
    BY <2>2 DEF Init, NotParsed, Objects
  <2>4. read \in 0 .. Len(sent)
    BY <2>1
  <2>5. pc \in Places /\ order \in States /\ conn \in Handles
    BY DEF Init, States, Places, Handles, Released
  <2> QED
    BY <2>1, <2>3, <2>4, <2>5 DEF InputOK
<1>2. InputOK /\ [Next]_vars => InputOK'
  <2> SUFFICES ASSUME InputOK, [Next]_vars PROVE InputOK'
    OBVIOUS
  <2>1. CASE UNCHANGED vars
    BY <2>1 DEF vars, inVars, InputOK
  <2> QED
    BY <2>1, InputInv
<1>3. InputOK /\ ConnectionInv => TypeOK
  BY DEF InputOK, Handles, ConnectionInv, HandleOK, QueueOK, StringOK, TypeOK, Objects,
     Pieces, States
<1> QED
  BY <1>1, <1>2, <1>3, ConnectionInvariant, PTL DEF Spec
=============================================================================
