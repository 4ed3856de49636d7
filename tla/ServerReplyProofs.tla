-------------------------- MODULE ServerReplyProofs --------------------------
(* ReplyOrder, for every value of Server's constants: the replies of each client are
   queued in the order of its requests, and none is lost or sent twice. *)
EXTENDS ServerOrderProofs, FiniteSetTheorems

\* A request that was replied to was dealt with, so that the next one comes after it;
\* and a client whose receiver thread has not started has no replies. After a RESET
\* has emptied the queues, nothing is said of the clients it has disconnected.
NoReplies(queue) == \A i \in 1 .. Len(queue) : ~IsReply(queue[i])
ReplyInv ==
    /\ ReplyOrder
    /\ \A c \in Clients : \A i \in 1 .. Len(replied[c]) : replied[c][i] <= Len(dealt[c])
    /\ \A c \in Clients :
          NotStarted(c) => replied[c] = <<>> /\ answered[c] = <<>> /\ NoReplies(out[c])

-----------------------------------------------------------------------------
(* Counting the replies in a queue. *)

LEMMA RepliesInType ==
  ASSUME NEW queue, NEW n \in Nat
  PROVE  /\ IsFiniteSet({i \in 1 .. n : IsReply(queue[i])})
         /\ RepliesIn(queue, n) \in Nat
<1>1. IsFiniteSet(1 .. n)
  BY FS_Interval
<1>2. {i \in 1 .. n : IsReply(queue[i])} \in SUBSET (1 .. n)
  OBVIOUS
<1>3. IsFiniteSet({i \in 1 .. n : IsReply(queue[i])})
  BY <1>1, <1>2, FS_Subset
<1> QED
  BY <1>3, FS_CardinalityType DEF RepliesIn

LEMMA OneMoreReply ==
  ASSUME NEW queue, NEW n \in Nat
  PROVE  RepliesIn(queue, n + 1) =
           RepliesIn(queue, n) + (IF IsReply(queue[n + 1]) THEN 1 ELSE 0)
<1> DEFINE those(m) == {i \in 1 .. m : IsReply(queue[i])}
<1>1. /\ IsFiniteSet(those(n)) /\ Cardinality(those(n)) = RepliesIn(queue, n)
      /\ RepliesIn(queue, n) \in Nat
  BY RepliesInType DEF RepliesIn
<1>2. Cardinality(those(n + 1)) = RepliesIn(queue, n + 1)
  BY DEF RepliesIn
<1>3. CASE IsReply(queue[n + 1])
  <2>1. those(n + 1) = those(n) \cup {n + 1} /\ n + 1 \notin those(n)
    BY <1>3
  <2> HIDE DEF those
  <2> QED
    BY <1>1, <1>2, <1>3, <2>1, FS_AddElement
<1>4. CASE ~IsReply(queue[n + 1])
  <2>1. those(n + 1) = those(n)
    BY <1>4
  <2> HIDE DEF those
  <2>2. RepliesIn(queue, n + 1) = RepliesIn(queue, n)
    BY <1>1, <1>2, <2>1
  <2>3. RepliesIn(queue, n) + 0 = RepliesIn(queue, n)
    BY <1>1
  <2> QED
    BY <1>4, <2>2, <2>3
<1> QED
  BY <1>3, <1>4

LEMMA SameReplies ==
  ASSUME NEW queue, NEW longer, NEW n \in Int,
         \A i \in 1 .. n : longer[i] = queue[i]
  PROVE  RepliesIn(longer, n) = RepliesIn(queue, n)
<1>1. {i \in 1 .. n : IsReply(longer[i])} = {i \in 1 .. n : IsReply(queue[i])}
  OBVIOUS
<1> QED
  BY <1>1 DEF RepliesIn

\* pop moves every other message one place forward.
LEMMA RepliesBehind ==
  ASSUME NEW queue \in Seq(OutMessages), queue # <<>>, NEW n \in 0 .. Len(queue) - 1
  PROVE  RepliesIn(queue, n + 1) =
           RepliesIn(Tail(queue), n) + (IF IsReply(queue[1]) THEN 1 ELSE 0)
<1> DEFINE A == {i \in 1 .. n : IsReply(Tail(queue)[i])}
<1> DEFINE B == {i \in 1 .. n + 1 : IsReply(queue[i])}
<1> DEFINE C == {i \in 2 .. n + 1 : IsReply(queue[i])}
<1>1. /\ IsFiniteSet(A) /\ Cardinality(A) = RepliesIn(Tail(queue), n)
      /\ RepliesIn(Tail(queue), n) \in Nat
  <2>1. n \in Nat
    OBVIOUS
  <2> QED
    BY <2>1, RepliesInType DEF RepliesIn
<1>2. Cardinality(B) = RepliesIn(queue, n + 1)
  BY DEF RepliesIn
<1>3. \A i \in 1 .. n : Tail(queue)[i] = queue[i + 1]
  <2>1. \A i \in 1 .. Len(queue) - 1 : Tail(queue)[i] = queue[i + 1]
    BY TailFacts
  <2> QED
    BY <2>1
<1>4. ExistsBijection(A, C)
  <2> DEFINE f == [i \in A |-> i + 1]
  <2>1. f \in [A -> C]
    BY <1>3
  <2>2. \A i, j \in A : f[i] = f[j] => i = j
    OBVIOUS
  <2>3. ASSUME NEW k \in C PROVE \E i \in A : f[i] = k
    <3>1. k - 1 \in 1 .. n /\ k - 1 + 1 = k
      OBVIOUS
    <3>2. k - 1 \in A
      BY <1>3, <3>1
    <3> QED
      BY <3>1, <3>2
  <2> HIDE DEF f, A, C
  <2> QED
    BY <2>1, <2>2, <2>3
       DEF ExistsBijection, Bijection, Injection, Surjection, IsInjective
<1>5. IsFiniteSet(C) /\ Cardinality(C) = RepliesIn(Tail(queue), n)
  <2> HIDE DEF A, C
  <2> QED
    BY <1>1, <1>4, FS_Bijection
<1>6. CASE IsReply(queue[1])
  <2>1. B = C \cup {1} /\ 1 \notin C
    BY <1>6
  <2> HIDE DEF B, C
  <2> QED
    BY <1>1, <1>2, <1>5, <1>6, <2>1, FS_AddElement
<1>7. CASE ~IsReply(queue[1])
  <2>1. B = C
    BY <1>7
  <2> HIDE DEF B, C
  <2>2. RepliesIn(queue, n + 1) = RepliesIn(Tail(queue), n)
    BY <1>2, <1>5, <2>1
  <2>3. RepliesIn(Tail(queue), n) + 0 = RepliesIn(Tail(queue), n)
    BY <1>1
  <2> QED
    BY <1>7, <2>2, <2>3
<1> QED
  BY <1>6, <1>7

-----------------------------------------------------------------------------
(* What the steps do to the requests, the sent replies and the queue of a client. *)

LEMMA NoneReplied ==
  ASSUME NEW queue \in Seq(OutMessages), NoReplies(queue)
  PROVE  SentThenQueued(<<>>, <<>>, queue)
<1>1. {i \in 1 .. Len(queue) : IsReply(queue[i])} = {}
  BY DEF NoReplies
<1>2. RepliesIn(queue, Len(queue)) = 0
  <2>1. Cardinality({}) = 0
    BY FS_EmptySet
  <2> QED
    BY <1>1, <2>1, Zenon DEF RepliesIn
<1> QED
  BY <1>2 DEF SentThenQueued, NoReplies

\* A message is put on the queue, and if it is a reply, its request is recorded.
LEMMA MessageQueued ==
  ASSUME NEW requests \in Seq(Nat), NEW sent \in Seq(Nat), NEW queue \in Seq(OutMessages),
         SentThenQueued(requests, sent, queue), NEW m \in OutMessages,
         NEW more \in Seq(Nat),
         more = IF IsReply(m) THEN Append(requests, m.req) ELSE requests
  PROVE  SentThenQueued(more, sent, Append(queue, m))
<1> DEFINE longer == Append(queue, m)
<1>1. /\ Len(longer) = Len(queue) + 1 /\ Len(queue) \in Nat /\ longer[Len(queue) + 1] = m
      /\ \A i \in 1 .. Len(queue) : longer[i] = queue[i]
  BY AppendFacts
<1> HIDE DEF longer
<1>2. \A n \in 0 .. Len(queue) : RepliesIn(longer, n) = RepliesIn(queue, n)
  <2> SUFFICES ASSUME NEW n \in 0 .. Len(queue)
               PROVE  RepliesIn(longer, n) = RepliesIn(queue, n)
    OBVIOUS
  <2>1. \A i \in 1 .. n : longer[i] = queue[i]
    BY <1>1
  <2> QED
    BY <2>1, SameReplies
<1>3. RepliesIn(longer, Len(longer)) =
        RepliesIn(queue, Len(queue)) + (IF IsReply(m) THEN 1 ELSE 0)
  <2>1. longer[Len(queue) + 1] = m /\ Len(longer) = Len(queue) + 1
    BY <1>1
  <2>2. RepliesIn(longer, Len(queue) + 1) =
          RepliesIn(longer, Len(queue)) + (IF IsReply(longer[Len(queue) + 1]) THEN 1 ELSE 0)
    BY <1>1, OneMoreReply
  <2>3. RepliesIn(longer, Len(queue)) = RepliesIn(queue, Len(queue))
    BY <1>1, <1>2
  <2> QED
    BY <2>1, <2>2, <2>3
<1>4. /\ Len(requests) \in Nat /\ Len(sent) \in Nat
      /\ RepliesIn(queue, Len(queue)) \in Nat
      /\ Len(requests) = Len(sent) + RepliesIn(queue, Len(queue))
  <2>1. Len(queue) \in Nat
    BY <1>1
  <2>2. RepliesIn(queue, Len(queue)) \in Nat
    BY <2>1, RepliesInType
  <2>3. Len(requests) = Len(sent) + RepliesIn(queue, Len(queue))
    BY DEF SentThenQueued
  <2> QED
    BY <2>2, <2>3
<1>5. /\ Len(more) = Len(requests) + (IF IsReply(m) THEN 1 ELSE 0)
      /\ \A i \in 1 .. Len(requests) : more[i] = requests[i]
      /\ IsReply(m) => more[Len(requests) + 1] = m.req
  <2>1. CASE IsReply(m)
    <3>1. more = Append(requests, m.req) /\ m.req \in Nat
      BY <2>1 DEF OutMessages
    <3> QED
      BY <2>1, <3>1, AppendFacts
  <2>2. CASE ~IsReply(m)
    BY <1>4, <2>2
  <2> QED
    BY <2>1, <2>2
<1>6. ASSUME NEW i \in 1 .. Len(sent) PROVE sent[i] = more[i]
  BY <1>4, <1>5 DEF SentThenQueued
<1>7. ASSUME NEW i \in 1 .. Len(longer), IsReply(longer[i])
      PROVE  longer[i].req = more[Len(sent) + RepliesIn(longer, i)]
  <2>1. CASE i = Len(queue) + 1
    <3>1. longer[i] = m /\ IsReply(m)
      BY <1>1, <1>7, <2>1
    <3>2. Len(sent) + RepliesIn(longer, i) = Len(requests) + 1
      BY <1>1, <1>3, <1>4, <2>1, <3>1
    <3> QED
      BY <1>5, <3>1, <3>2
  <2>2. CASE i # Len(queue) + 1
    <3>1. i \in 1 .. Len(queue) /\ longer[i] = queue[i]
      BY <1>1, <2>2
    <3>2. RepliesIn(longer, i) = RepliesIn(queue, i)
      BY <1>2, <3>1
    <3>3. queue[i].req = requests[Len(sent) + RepliesIn(queue, i)]
      BY <1>7, <3>1 DEF SentThenQueued
    <3>4. RepliesIn(queue, i) \in Nat /\ RepliesIn(queue, i) <= RepliesIn(queue, Len(queue))
      <4> DEFINE A == {j \in 1 .. i : IsReply(queue[j])}
      <4> DEFINE B == {j \in 1 .. Len(queue) : IsReply(queue[j])}
      <4>1. A \in SUBSET B
        BY <1>1, <3>1
      <4>2. IsFiniteSet(B) /\ RepliesIn(queue, i) \in Nat
        <5>1. i \in Nat /\ Len(queue) \in Nat
          BY <1>1, <3>1
        <5> QED
          BY <5>1, RepliesInType
      <4>3. Cardinality(A) <= Cardinality(B)
        <5> HIDE DEF A, B
        <5> QED
          BY <4>1, <4>2, FS_Subset
      <4> QED
        BY <4>2, <4>3 DEF RepliesIn
    <3>5. RepliesIn(queue, i) # 0
      <4>0. i - 1 \in Nat /\ (i - 1) + 1 = i
        BY <3>1
      <4>1. RepliesIn(queue, i - 1) \in Nat
        BY <4>0, RepliesInType
      <4>2. RepliesIn(queue, (i - 1) + 1) =
              RepliesIn(queue, i - 1) + (IF IsReply(queue[(i - 1) + 1]) THEN 1 ELSE 0)
        BY <4>0, OneMoreReply
      <4> QED
        BY <1>7, <3>1, <4>0, <4>1, <4>2
    <3>6. Len(sent) + RepliesIn(queue, i) \in 1 .. Len(requests)
      BY <1>4, <3>4, <3>5
    <3> QED
      BY <1>5, <3>1, <3>2, <3>3, <3>6
  <2> QED
    BY <2>1, <2>2
<1>8. Len(more) = Len(sent) + RepliesIn(longer, Len(longer))
  BY <1>3, <1>4, <1>5
<1>9. SentThenQueued(more, sent, longer)
  BY <1>6, <1>7, <1>8 DEF SentThenQueued
<1> QED
  BY <1>9 DEF longer

\* The front is sent and popped, and if it is a reply, its request is recorded.
LEMMA MessageSent ==
  ASSUME NEW requests \in Seq(Nat), NEW sent \in Seq(Nat), NEW queue \in Seq(OutMessages),
         SentThenQueued(requests, sent, queue), queue # <<>>,
         NEW more \in Seq(Nat),
         more = IF IsReply(queue[1]) THEN Append(sent, queue[1].req) ELSE sent
  PROVE  SentThenQueued(requests, more, Tail(queue))
<1> DEFINE rest == Tail(queue)
<1> DEFINE one == IF IsReply(queue[1]) THEN 1 ELSE 0
<1>1. /\ Len(rest) = Len(queue) - 1 /\ Len(queue) \in Nat \ {0}
      /\ \A i \in 1 .. Len(queue) - 1 : rest[i] = queue[i + 1]
  BY TailFacts
<1>2. \A n \in 0 .. Len(queue) - 1 : RepliesIn(queue, n + 1) = RepliesIn(rest, n) + one
  BY RepliesBehind
<1>3. \A n \in 0 .. Len(queue) - 1 : RepliesIn(rest, n) \in Nat
  <2>1. \A n \in 0 .. Len(queue) - 1 : n \in Nat
    OBVIOUS
  <2> QED
    BY <2>1, RepliesInType
<1>4. Len(requests) \in Nat /\ Len(sent) \in Nat /\ one \in {0, 1}
  OBVIOUS
<1>5. Len(more) = Len(sent) + one
  <2>1. CASE IsReply(queue[1])
    <3>1. queue[1].req \in Nat /\ more = Append(sent, queue[1].req)
      BY <1>1, <2>1 DEF OutMessages
    <3> QED
      BY <2>1, <3>1
  <2>2. CASE ~IsReply(queue[1])
    BY <2>2
  <2> QED
    BY <2>1, <2>2
<1>6. ASSUME NEW i \in 1 .. Len(more) PROVE more[i] = requests[i]
  <2>1. CASE i \in 1 .. Len(sent)
    <3>1. more[i] = sent[i]
      <4>1. queue[1] \in OutMessages
        BY <1>1
      <4> QED
        BY <2>1, <4>1 DEF OutMessages
    <3> QED
      BY <2>1, <3>1 DEF SentThenQueued
  <2>2. CASE i \notin 1 .. Len(sent)
    <3>1. IsReply(queue[1]) /\ i = Len(sent) + 1
      BY <1>4, <1>5, <2>2
    <3>2. more[i] = queue[1].req
      <4>1. queue[1] \in OutMessages
        BY <1>1
      <4>2. queue[1].req \in Nat /\ more = Append(sent, queue[1].req)
        BY <3>1, <4>1 DEF OutMessages
      <4> QED
        BY <3>1, <4>2, AppendFacts
    <3>3. RepliesIn(queue, 1) = 1
      <4>1. RepliesIn(queue, 0 + 1) = RepliesIn(queue, 0) + 1
        BY <3>1, OneMoreReply
      <4>2. {j \in 1 .. 0 : IsReply(queue[j])} = {} /\ Cardinality({}) = 0
        BY FS_EmptySet
      <4>3. RepliesIn(queue, 0) = 0
        BY <4>2, Zenon DEF RepliesIn
      <4> QED
        BY <4>1, <4>3
    <3>4. 1 \in 1 .. Len(queue)
      BY <1>1
    <3> QED
      BY <3>1, <3>2, <3>3, <3>4 DEF SentThenQueued
  <2> QED
    BY <2>1, <2>2
<1>7. ASSUME NEW i \in 1 .. Len(rest), IsReply(rest[i])
      PROVE  rest[i].req = requests[Len(more) + RepliesIn(rest, i)]
  <2>1. i \in 1 .. Len(queue) - 1 /\ i + 1 \in 1 .. Len(queue) /\ rest[i] = queue[i + 1]
    BY <1>1
  <2>2. rest[i].req = requests[Len(sent) + RepliesIn(queue, i + 1)]
    BY <1>7, <2>1 DEF SentThenQueued
  <2>3. RepliesIn(queue, i + 1) = RepliesIn(rest, i) + one /\ RepliesIn(rest, i) \in Nat
    BY <1>2, <1>3, <2>1
  <2>4. Len(sent) + RepliesIn(queue, i + 1) = Len(more) + RepliesIn(rest, i)
    BY <1>4, <1>5, <2>3
  <2> QED
    BY <2>2, <2>4
<1>8. Len(requests) = Len(more) + RepliesIn(rest, Len(rest))
  <2>1. Len(rest) \in 0 .. Len(queue) - 1 /\ Len(rest) + 1 = Len(queue)
    BY <1>1
  <2>2. /\ RepliesIn(queue, Len(queue)) = RepliesIn(rest, Len(rest)) + one
        /\ RepliesIn(rest, Len(rest)) \in Nat
    BY <1>2, <1>3, <2>1
  <2> QED
    BY <1>4, <1>5, <2>2 DEF SentThenQueued
<1> QED
  BY <1>6, <1>7, <1>8 DEF SentThenQueued
-----------------------------------------------------------------------------
(* The steps of the server. *)

\* Of one client: what ReplyInv says of it.
Replying(c) ==
    /\ Ascending(replied[c])
    /\ c \in Joinable => SentThenQueued(replied[c], answered[c], out[c])
    /\ \A i \in 1 .. Len(replied[c]) : replied[c][i] <= Len(dealt[c])
    /\ NotStarted(c) => replied[c] = <<>> /\ answered[c] = <<>> /\ NoReplies(out[c])

LEMMA ReplyingAll == ReplyInv <=> \A c \in Clients : Replying(c)
  BY DEF ReplyInv, ReplyOrder, Replying

LEMMA HistoryTypes ==
  ASSUME OrderInv, NEW c \in Clients
  PROVE  /\ out[c] \in Seq(OutMessages) /\ dealt[c] \in Seq(Nat)
         /\ replied[c] \in Seq(Nat) /\ answered[c] \in Seq(Nat)
  BY DEF OrderInv, TypeInv, TypeOK, QueueType, HistoryType, Owners

\* No step but the deletion of the server takes a client back to where its thread has
\* not started, or forgets a message that was dealt with.
LEMMA Onwards ==
  ASSUME OrderInv, [Next]_vars, ~DeleteServer
  PROVE  /\ \A c \in Clients : NotStarted(c)' => NotStarted(c)
         /\ \A c \in Clients : Len(dealt[c]) <= Len(dealt'[c])
<1>1. ASSUME dealt' = dealt PROVE \A c \in Clients : Len(dealt[c]) <= Len(dealt'[c])
  BY <1>1, HistoryTypes
<1>2. ASSUME UNCHANGED <<handed, mpc, inHand>>
      PROVE  \A c \in Clients : NotStarted(c)' => NotStarted(c)
  BY <1>2 DEF NotStarted
<1>3. ASSUME NEW c \in Clients, Dispatch(c)
      PROVE  \A d \in Clients : NotStarted(d)' => NotStarted(d)
  BY <1>3 DEF Dispatch, NotStarted
<1>4. CASE \E c \in Clients : Dispatch(c) \/ Handler(c)
  <2>1. dealt' = dealt
    BY <1>4 DEF Dispatch, Handler, HandlerWait, HandlerLoad, HandlerReceive, HandlerNothing,
       HandlerSend, HandlerIdle, HandlerDangles, Faulty, history
  <2>2. ASSUME NEW c \in Clients, Handler(c) PROVE UNCHANGED <<handed, mpc, inHand>>
    BY <2>2 DEF Handler, HandlerWait, HandlerLoad, HandlerReceive, HandlerNothing,
       HandlerSend, HandlerIdle, HandlerDangles, Faulty, HandlerStep, managerVars
  <2> QED
    BY <1>1, <1>2, <1>3, <1>4, <2>1, <2>2
<1>5. CASE Manager
  <2>1. dealt' = dealt
    BY <1>5 DEF Manager, AddClientRefused, AddClientAppend, SearchForMessages,
       AddClientSpawn, Enlist, Stop, DeleteTerminates, Faulty, ManagerStep, history
  <2>2. /\ UNCHANGED <<handed, inHand>>
        /\ mpc' \in {"adding", "search", "searching"} =>
             mpc \in {"adding", "search", "searching"}
    BY <1>5 DEF Manager, AddClientRefused, AddClientAppend, SearchForMessages,
       AddClientSpawn, Enlist, Stop, DeleteTerminates, Faulty, managerVars
  <2> QED
    BY <1>1, <2>1, <2>2 DEF NotStarted
<1>6. CASE Run
  <2>1. UNCHANGED <<handed, mpc, inHand>>
    BY <1>6 DEF Run, RunStart, RunTop, RunStartUp, RunRunning, RunReset, RunJoined,
       RunRestart, RunRead, RunScan, RunMessage, ProcessMessageToUser, RecordMessage,
       MessageRecorded, Find, RunPop, RunDangles, RunMove, RunStep, Faulty, managerVars
  <2>2. dealt' = dealt \/ DealtWith
    BY <1>6 DEF Run, RunStart, RunTop, RunStartUp, RunRunning, RunReset, RunJoined,
       RunRestart, RunRead, RunScan, RunMessage, ProcessMessageToUser, RecordMessage,
       MessageRecorded, Find, RunPop, RunDangles, Faulty, history
  <2>3. ASSUME DealtWith, NEW c \in Clients PROVE Len(dealt[c]) <= Len(dealt'[c])
    <3>1. dealt'[c] = dealt[c] \/ dealt'[c] = Append(dealt[c], Message.n)
      BY <2>3 DEF DealtWith, OrderInv, TypeInv, TypeOK, HistoryType
    <3>2. dealt[c] \in Seq(Nat)
      BY HistoryTypes
    <3> QED
      BY <3>1, <3>2
  <2> QED
    BY <1>1, <1>2, <2>1, <2>2, <2>3
<1>7. CASE \E s \in Orders : Publish(s)
  <2>1. dealt' = dealt /\ handed' = handed /\ mpc' \in {"loop", "shutdown"}
    BY <1>7 DEF Publish, ManagerStep, history
  <2> QED
    BY <1>1, <2>1 DEF NotStarted
<1>8. CASE UNCHANGED vars
  BY <1>1, <1>2, <1>8 DEF vars, history, managerVars
<1> QED
  BY <1>4, <1>5, <1>6, <1>7, <1>8 DEF Next, Ended

\* A client is left alone, except that more of its messages may have been dealt with.
LEMMA ReplyingKept ==
  ASSUME OrderInv, OrderInv', NEW c \in Clients, Replying(c),
         replied'[c] = replied[c], answered'[c] = answered[c], out'[c] = out[c],
         c \in Joinable' => c \in Joinable, NotStarted(c)' => NotStarted(c),
         Len(dealt[c]) <= Len(dealt'[c])
  PROVE  Replying(c)'
<1>1. Len(dealt[c]) \in Nat /\ Len(dealt'[c]) \in Nat /\ replied[c] \in Seq(Nat)
  BY HistoryTypes, dealt'[c] \in Seq(Nat)
     DEF OrderInv, TypeInv, TypeOK, HistoryType
<1>2. \A i \in 1 .. Len(replied'[c]) : replied'[c][i] <= Len(dealt'[c])
  BY <1>1 DEF Replying
<1> QED
  BY <1>2 DEF Replying

\* A message that is no reply is put on the queue of a client.
LEMMA ReplyingPushed ==
  ASSUME OrderInv, OrderInv', NEW c \in Clients, Replying(c), NEW m \in OutMessages,
         ~IsReply(m), out'[c] = Append(out[c], m),
         replied'[c] = replied[c], answered'[c] = answered[c],
         c \in Joinable' => c \in Joinable, NotStarted(c)' => NotStarted(c),
         Len(dealt[c]) <= Len(dealt'[c])
  PROVE  Replying(c)'
<1>1. Len(dealt[c]) \in Nat /\ Len(dealt'[c]) \in Nat /\ replied[c] \in Seq(Nat)
  BY HistoryTypes, dealt'[c] \in Seq(Nat)
     DEF OrderInv, TypeInv, TypeOK, HistoryType
<1>2. \A i \in 1 .. Len(replied'[c]) : replied'[c][i] <= Len(dealt'[c])
  BY <1>1 DEF Replying
<1>3. c \in Joinable' => SentThenQueued(replied[c], answered[c], Append(out[c], m))
  BY HistoryTypes, MessageQueued DEF Replying
<1>4. NoReplies(out[c]) => NoReplies(Append(out[c], m))
  BY HistoryTypes, AppendFacts DEF NoReplies
<1> QED
  BY <1>2, <1>3, <1>4 DEF Replying

-----------------------------------------------------------------------------
\* The thread sends the front of the queue, or tries to.
LEMMA SendReplies ==
  ASSUME OrderInv, OrderInv', ReplyInv, NEW c \in Clients, HandlerSend(c),
         \A d \in Clients : NotStarted(d)' => NotStarted(d)
  PROVE  ReplyInv'
<1>1. UNCHANGED <<replied, dealt>> /\ out[c] # <<>> /\ hpc[c] = "send"
      /\ hpc' = [hpc EXCEPT ![c] = "read"]
  BY DEF HandlerSend
<1>2. /\ out \in [Owners -> Seq(OutMessages)] /\ answered \in [Clients -> Seq(Nat)]
      /\ hpc \in [Clients -> HandlerPlaces] /\ out[c] \in Seq(OutMessages)
  BY DEF OrderInv, TypeInv, TypeOK, QueueType, HistoryType, HandlerType, Owners
<1>3. PICK result \in SendResults :
        /\ out' = [out EXCEPT ![c] = IF Removed(result) THEN Tail(@) ELSE @]
        /\ answered' = [answered EXCEPT ![c] =
                          IF result = "SENT" /\ IsReply(Head(out[c]))
                            THEN Append(@, Head(out[c]).req) ELSE @]
  BY DEF HandlerSend
<1>4. Joinable' = Joinable /\ c \in Joinable
  BY <1>1, <1>2 DEF Joinable
<1>5. ASSUME NEW d \in Clients, d # c PROVE Replying(d)'
  <2>1. out'[d] = out[d] /\ answered'[d] = answered[d]
    BY <1>2, <1>3, <1>5 DEF Owners
  <2>2. Len(dealt[d]) <= Len(dealt'[d])
    BY <1>1, HistoryTypes
  <2>3. Replying(d)
    BY ReplyingAll
  <2> QED
    BY <1>1, <1>4, <2>1, <2>2, <2>3, ReplyingKept
<1>6. Replying(c)'
  <2>1. Replying(c)
    BY ReplyingAll
  <2>2. ~NotStarted(c) /\ ~NotStarted(c)'
    BY <1>1 DEF OrderInv, StartsUntouched, Untouched
  <2>3. SentThenQueued(replied[c], answered'[c], out'[c])
    <3>1. SentThenQueued(replied[c], answered[c], out[c])
      BY <1>4, <2>1 DEF Replying
    <3>2. CASE result = "SENT"
      <4>1. out'[c] = Tail(out[c]) /\ Head(out[c]) = out[c][1]
        BY <1>2, <1>3, <3>2 DEF Removed, Owners
      <4>2. answered'[c] = IF IsReply(out[c][1]) THEN Append(answered[c], out[c][1].req)
                                                 ELSE answered[c]
        BY <1>2, <1>3, <3>2, <4>1
      <4>3. answered'[c] \in Seq(Nat)
        BY DEF OrderInv, TypeInv, TypeOK, HistoryType
      <4>4. replied[c] \in Seq(Nat) /\ answered[c] \in Seq(Nat)
        BY HistoryTypes
      <4> QED
        BY <1>1, <1>2, <3>1, <4>1, <4>2, <4>3, <4>4, MessageSent
    <3>3. CASE result # "SENT"
      <4>1. out'[c] = out[c] /\ answered'[c] = answered[c]
        BY <1>2, <1>3, <3>3 DEF Removed, Owners
      <4> QED
        BY <3>1, <4>1
    <3> QED
      BY <3>2, <3>3
  <2> QED
    BY <1>1, <2>1, <2>2, <2>3 DEF Replying
<1>7. \A d \in Clients : Replying(d)'
  BY <1>5, <1>6
<1> QED
  BY <1>7 DEF ReplyInv, ReplyOrder, Replying

\* A reply is queued for a request: a later one than all that were replied to.
LEMMA FindReplies ==
  ASSUME OrderInv, OrderInv', ReplyInv, Find,
         \A d \in Clients : NotStarted(d)' => NotStarted(d),
         \A d \in Clients : Len(dealt[d]) <= Len(dealt'[d])
  PROVE  ReplyInv'
<1>1. /\ UNCHANGED <<hpc, inc, answered>> /\ spc = "find" /\ DealtWith
      /\ Joinable' = Joinable
  BY DEF Find, RunMove, RunStep, Joinable
<1>2. /\ out \in [Owners -> Seq(OutMessages)] /\ replied \in [Clients -> Seq(Nat)]
      /\ dealt \in [Clients -> Seq(Nat)]
  BY DEF OrderInv, TypeInv, TypeOK, QueueType, HistoryType
<1>3. Current \in Owners /\ inc[Current] # <<>> /\ Message.n \in Nat
  BY <1>1, BusyMessage DEF OrderInv, BusyPlaces
<1>4. ASSUME NEW d \in Clients, d # Current \/ UNCHANGED <<out, replied>>
      PROVE  Replying(d)'
  <2>1. out'[d] = out[d] /\ replied'[d] = replied[d]
    BY <1>2, <1>4 DEF Find, Owners
  <2>2. Replying(d)
    BY ReplyingAll
  <2> QED
    BY <1>1, <2>1, <2>2, ReplyingKept
<1>5. ASSUME Current \in Clients, Message.valid /\ Message.code \in DOMAIN ReplyTo
      PROVE  Replying(Current)'
  <2> PICK c \in Clients : c = Current
    BY <1>5
  <2> DEFINE m == [type |-> ReplyTo[Message.code], req |-> Message.n, freed |-> FALSE]
  <2>1. out'[c] = Append(out[c], m) /\ replied'[c] = Append(replied[c], Message.n)
    BY <1>2, <1>5 DEF Find, Owners
  <2>2. dealt'[c] = Append(dealt[c], Message.n)
    BY <1>1, <1>2 DEF DealtWith
  <2>3. Message.n = Len(dealt[c]) + 1 /\ Len(dealt[c]) \in Nat
    <3>1. ~Popping(c)
      BY <1>1 DEF Popping
    <3>2. inc[c][1] = Message
      <4>1. inc[c] \in Seq(IncMessages)
        BY DEF OrderInv, TypeInv, TypeOK, QueueType, Owners
      <4> QED
        BY <1>3, <4>1 DEF Message
    <3>3. Len(dealt[c]) = Message.n - 1
      BY <1>3, <3>1, <3>2 DEF OrderInv, InOrder, FrontIsNext
    <3> QED
      BY <1>2, <1>3, <3>3
  <2>4. m \in OutMessages /\ IsReply(m) /\ m.req = Message.n
    <3>1. ReplyTo[Message.code] \in MessageTypes
      BY <1>5, ReplyType
    <3>2. ReplyTo[Message.code] # "MESSAGE_TO_USER"
      BY <1>5 DEF ReplyTo
    <3> QED
      BY <1>3, <2>3, <3>1, <3>2 DEF OutMessages, IsReply
  <2> HIDE DEF m
  <2>5. Replying(c) /\ ~NotStarted(c) /\ ~NotStarted(c)'
    BY <1>3, ReplyingAll DEF OrderInv, StartsUntouched, Untouched
  <2>6. replied[c] \in Seq(Nat) /\ out[c] \in Seq(OutMessages) /\ answered[c] \in Seq(Nat)
    BY HistoryTypes
  <2>7. /\ Len(replied'[c]) = Len(replied[c]) + 1 /\ Len(replied[c]) \in Nat
        /\ \A i \in 1 .. Len(replied[c]) : replied'[c][i] = replied[c][i]
        /\ replied'[c][Len(replied[c]) + 1] = Message.n
        /\ replied'[c] \in Seq(Nat)
    BY <1>3, <2>1, <2>6, AppendFacts
  <2>8. \A i \in 1 .. Len(replied[c]) : replied[c][i] \in Nat /\ replied[c][i] < Message.n
    BY <2>3, <2>5, <2>6 DEF Replying
  <2>9. Ascending(replied'[c])
    <3> SUFFICES ASSUME NEW i \in 1 .. Len(replied'[c]), NEW j \in 1 .. Len(replied'[c]),
                        i < j
                 PROVE  replied'[c][i] < replied'[c][j]
      BY DEF Ascending
    <3>1. i \in 1 .. Len(replied[c])
      BY <2>7
    <3>2. CASE j = Len(replied[c]) + 1
      BY <2>7, <2>8, <3>1, <3>2
    <3>3. CASE j # Len(replied[c]) + 1
      <4>1. j \in 1 .. Len(replied[c])
        BY <2>7, <3>3
      <4> QED
        BY <2>5, <2>7, <3>1, <4>1 DEF Replying, Ascending
    <3> QED
      BY <3>2, <3>3
  <2>10. c \in Joinable' => SentThenQueued(replied'[c], answered'[c], out'[c])
    <3>1. replied'[c] = IF IsReply(m) THEN Append(replied[c], m.req) ELSE replied[c]
      BY <2>1, <2>4
    <3>2. SUFFICES ASSUME c \in Joinable
                   PROVE  SentThenQueued(replied'[c], answered'[c], out'[c])
      BY <1>1
    <3>3. SentThenQueued(replied[c], answered[c], out[c])
      BY <2>5, <3>2 DEF Replying
    <3>4. replied'[c] \in Seq(Nat)
      BY <2>7
    <3>5. SentThenQueued(replied'[c], answered[c], Append(out[c], m))
      BY <2>4, <2>6, <3>1, <3>3, <3>4, MessageQueued
    <3>6. answered'[c] = answered[c] /\ out'[c] = Append(out[c], m)
      BY <1>1, <2>1 DEF m
    <3> QED
      BY <3>5, <3>6
  <2>11. \A i \in 1 .. Len(replied'[c]) : replied'[c][i] <= Len(dealt'[c])
    <3>1. Len(dealt'[c]) = Message.n
      BY <1>2, <1>3, <2>2, <2>3, AppendFacts
    <3> SUFFICES ASSUME NEW i \in 1 .. Len(replied'[c])
                 PROVE  replied'[c][i] <= Message.n
      BY <3>1
    <3>2. CASE i = Len(replied[c]) + 1
      BY <1>3, <2>7, <3>2
    <3>3. CASE i # Len(replied[c]) + 1
      <4>1. i \in 1 .. Len(replied[c])
        BY <2>7, <3>3
      <4> QED
        BY <1>3, <2>7, <2>8, <4>1
    <3> QED
      BY <3>2, <3>3
  <2>12. Replying(c)'
    BY <2>5, <2>9, <2>10, <2>11 DEF Replying
  <2>13. Current' = c
    BY DEF Find, RunMove, Current
  <2> QED
    BY <2>12, <2>13
<1>6. ASSUME NEW d \in Clients PROVE Replying(d)'
  <2>1. CASE Message.valid /\ Message.code \in DOMAIN ReplyTo
    <3>1. CASE d = Current
      <4>1. Current' = Current
        BY DEF Find, RunMove, Current
      <4> QED
        BY <1>5, <2>1, <3>1, <4>1
    <3>2. CASE d # Current
      BY <1>4, <3>2
    <3> QED
      BY <3>1, <3>2
  <2>2. CASE ~(Message.valid /\ Message.code \in DOMAIN ReplyTo)
    BY <1>4, <2>2 DEF Find
  <2> QED
    BY <2>1, <2>2
<1> QED
  BY <1>6 DEF ReplyInv, ReplyOrder, Replying

\* A message from another client is queued.
LEMMA RouteReplies ==
  ASSUME OrderInv, OrderInv', ReplyInv, ProcessMessageToUser,
         \A d \in Clients : NotStarted(d)' => NotStarted(d),
         \A d \in Clients : Len(dealt[d]) <= Len(dealt'[d])
  PROVE  ReplyInv'
<1> DEFINE m == [type |-> "MESSAGE_TO_USER", req |-> Message.n, freed |-> TRUE]
<1>1. UNCHANGED <<hpc, replied, answered>> /\ spc = "route" /\ Joinable' = Joinable
  BY DEF ProcessMessageToUser, RunMove, RunStep, Joinable
<1>2. out' = [out EXCEPT ![clientList[1]] = Append(@, m)]
  BY DEF ProcessMessageToUser
<1>3. m \in OutMessages /\ ~IsReply(m)
  <2>1. Message.n \in Nat
    BY <1>1, BusyMessage DEF OrderInv, BusyPlaces
  <2> QED
    BY <2>1 DEF OutMessages, IsReply, MessageTypes
<1> HIDE DEF m
<1>4. ASSUME NEW d \in Clients PROVE Replying(d)'
  <2>1. out \in [Owners -> Seq(OutMessages)] /\ d \in Owners
    BY DEF OrderInv, TypeInv, TypeOK, QueueType, Owners
  <2>2. out'[d] = Append(out[d], m) \/ out'[d] = out[d]
    BY <1>2, <2>1
  <2>3. Replying(d)
    BY ReplyingAll
  <2>4. CASE out'[d] = out[d]
    BY <1>1, <2>3, <2>4, ReplyingKept
  <2>5. CASE out'[d] = Append(out[d], m)
    BY <1>1, <1>3, <2>3, <2>5, ReplyingPushed
  <2> QED
    BY <2>2, <2>4, <2>5
<1> QED
  BY <1>4 DEF ReplyInv, ReplyOrder, Replying

\* The messages found for a client are queued, and its thread starts.
LEMMA SpawnReplies ==
  ASSUME OrderInv, OrderInv', ReplyInv, AddClientSpawn,
         \A d \in Clients : NotStarted(d)' => NotStarted(d)
  PROVE  ReplyInv'
<1>1. /\ UNCHANGED <<replied, answered, dealt>> /\ mpc = "searching"
      /\ hpc' = [hpc EXCEPT ![inHand] = "read"] /\ inHand \in Clients
      /\ mpc' = "enlisting" /\ UNCHANGED <<handed, inHand>>
  BY DEF AddClientSpawn, ManagerStep, history, OrderInv, TypeInv, HandOK
<1>2. /\ out \in [Owners -> Seq(OutMessages)] /\ hpc \in [Clients -> HandlerPlaces]
      /\ out' \in [Owners -> Seq(OutMessages)]
  BY DEF OrderInv, TypeInv, TypeOK, QueueType, HandlerType
<1>3. PICK n \in 0 .. MaxStored : \E rows \in [1 .. n -> Sent] :
        out' = [out EXCEPT ![inHand] =
                  @ \o [i \in 1 .. n |-> [type |-> GetMessageType(rows[i]),
                                          req |-> 0, freed |-> FALSE]]]
  BY DEF AddClientSpawn
<1>4. PICK rows \in [1 .. n -> Sent] :
        out' = [out EXCEPT ![inHand] =
                  @ \o [i \in 1 .. n |-> [type |-> GetMessageType(rows[i]),
                                          req |-> 0, freed |-> FALSE]]]
  BY <1>3
<1>5. ASSUME NEW d \in Clients, d # inHand PROVE Replying(d)'
  <2>1. out'[d] = out[d]
    BY <1>1, <1>2, <1>4, <1>5 DEF Owners
  <2>2. d \in Joinable' => d \in Joinable
    BY <1>1, <1>2, <1>5 DEF Joinable
  <2>3. Replying(d)
    BY ReplyingAll
  <2>4. Len(dealt[d]) <= Len(dealt'[d])
    BY <1>1, HistoryTypes
  <2> QED
    BY <1>1, <2>1, <2>2, <2>3, <2>4, ReplyingKept
<1>6. ASSUME NEW c \in Clients, c = inHand PROVE Replying(c)'
  <2>1. replied[c] = <<>> /\ answered[c] = <<>> /\ NoReplies(out[c])
    BY <1>1, <1>6 DEF ReplyInv, NotStarted
  <2> DEFINE found == [i \in 1 .. n |-> [type |-> GetMessageType(rows[i]),
                                        req |-> 0, freed |-> FALSE]]
  <2>2. found \in Seq(OutMessages) /\ NoReplies(found)
    <3>1. \A i \in 1 .. n : found[i] \in OutMessages /\ ~IsReply(found[i])
      BY TextType DEF OutMessages, IsReply
    <3>2. n \in Nat
      BY BoundsAssumption
    <3> QED
      BY <3>1, <3>2 DEF NoReplies
  <2> HIDE DEF found
  <2>3. out'[c] = out[c] \o found
    BY <1>2, <1>4, <1>6 DEF Owners, found
  <2>4. out[c] \in Seq(OutMessages) /\ out'[c] \in Seq(OutMessages)
    BY <1>2 DEF Owners
  <2>5. NoReplies(out'[c])
    <3> SUFFICES ASSUME NEW i \in 1 .. Len(out'[c]) PROVE ~IsReply(out'[c][i])
      BY DEF NoReplies
    <3>1. CASE i \in 1 .. Len(out[c])
      <4>1. out'[c][i] = out[c][i]
        BY <2>2, <2>3, <2>4, <3>1
      <4> QED
        BY <2>1, <3>1, <4>1 DEF NoReplies
    <3>2. CASE i \notin 1 .. Len(out[c])
      <4>1. /\ i - Len(out[c]) \in 1 .. Len(found)
            /\ out'[c][i] = found[i - Len(out[c])]
        BY <2>2, <2>3, <2>4, <3>2
      <4> QED
        BY <2>2, <4>1 DEF NoReplies
    <3> QED
      BY <3>1, <3>2
  <2>6. SentThenQueued(replied'[c], answered'[c], out'[c])
    BY <1>1, <2>1, <2>4, <2>5, NoneReplied
  <2> QED
    BY <1>1, <2>1, <2>5, <2>6 DEF Replying, Ascending
<1>7. \A d \in Clients : Replying(d)'
  BY <1>1, <1>5, <1>6
<1> QED
  BY <1>7 DEF ReplyInv, ReplyOrder, Replying

\* RESET empties the queues of clients that have no thread any more; with its deletion
\* the server forgets everything.
LEMMA EmptiedReplies ==
  ASSUME OrderInv, OrderInv', ReplyInv, RunJoined \/ DeleteServer
  PROVE  ReplyInv'
<1>1. \A d \in Clients : out'[d] = <<>> /\ NoReplies(out'[d])
  BY DEF RunJoined, DeleteServer, Empty, Owners, NoReplies
<1>2. Joinable' = {}
  <2>1. CASE RunJoined
    BY <2>1 DEF RunJoined, Joined, Joinable
  <2>2. CASE DeleteServer
    BY <2>2 DEF DeleteServer, Joinable
  <2> QED
    BY <2>1, <2>2
<1>3. CASE RunJoined
  <2>1. UNCHANGED <<replied, answered, dealt, handed, mpc, inHand>>
    BY <1>3 DEF RunJoined, RunStep, managerVars
  <2> QED
    BY <1>1, <1>2, <2>1 DEF ReplyInv, ReplyOrder, NotStarted
<1>4. CASE DeleteServer
  <2>1. \A d \in Clients : replied'[d] = <<>> /\ answered'[d] = <<>> /\ dealt'[d] = <<>>
    BY <1>4 DEF DeleteServer, NoHistory
  <2> QED
    BY <1>1, <1>2, <2>1 DEF ReplyInv, ReplyOrder, Ascending
<1> QED
  BY <1>3, <1>4

\* Every other step leaves the replies alone and starts no thread.
LEMMA OtherReplies ==
  ASSUME OrderInv, OrderInv', ReplyInv, UNCHANGED <<out, replied, answered>>,
         Joinable' \subseteq Joinable,
         \A d \in Clients : NotStarted(d)' => NotStarted(d),
         \A d \in Clients : Len(dealt[d]) <= Len(dealt'[d])
  PROVE  ReplyInv'
<1>1. ASSUME NEW d \in Clients PROVE Replying(d)'
  BY ReplyingAll, ReplyingKept
<1> QED
  BY <1>1 DEF ReplyInv, ReplyOrder, Replying

-----------------------------------------------------------------------------
LEMMA ReplyNext ==
  ASSUME OrderInv, OrderInv', ReplyInv, [Next]_vars
  PROVE  ReplyInv'
<1>1. CASE DeleteServer
  BY <1>1, EmptiedReplies
<1>2. CASE ~DeleteServer
  <2>1. /\ \A d \in Clients : NotStarted(d)' => NotStarted(d)
        /\ \A d \in Clients : Len(dealt[d]) <= Len(dealt'[d])
    BY <1>2, Onwards
  <2>2. ASSUME UNCHANGED <<out, replied, answered>>, Joinable' \subseteq Joinable
        PROVE  ReplyInv'
    BY <2>1, <2>2, OtherReplies
  <2>3. ASSUME NEW c \in Clients, Dispatch(c) \/ Handler(c) PROVE ReplyInv'
    <3>1. CASE HandlerSend(c)
      BY <2>1, <3>1, SendReplies
    <3>2. CASE ~HandlerSend(c)
      <4>1. UNCHANGED <<out, replied, answered>>
        BY <2>3, <3>2 DEF Dispatch, Handler, HandlerWait, HandlerLoad, HandlerReceive,
           HandlerNothing, HandlerIdle, HandlerDangles, Faulty, queueVars, history
      <4>2. Joinable' \subseteq Joinable
        BY <2>3, <3>2 DEF Dispatch, Handler, HandlerWait, HandlerLoad, HandlerReceive,
           HandlerNothing, HandlerIdle, HandlerDangles, Faulty, handlerVars, Joinable,
           OrderInv, TypeInv, TypeOK, HandlerType
      <4> QED
        BY <2>2, <4>1, <4>2
    <3> QED
      BY <3>1, <3>2
  <2>4. CASE Manager
    <3>1. CASE AddClientSpawn
      BY <2>1, <3>1, SpawnReplies
    <3>2. CASE ~AddClientSpawn
      <4>1. UNCHANGED <<out, replied, answered, hpc>>
        BY <1>2, <2>4, <3>2 DEF Manager, AddClientRefused, AddClientAppend,
           SearchForMessages, Enlist, Stop, DeleteTerminates, Faulty, ManagerStep,
           queueVars, history, handlerVars
      <4> QED
        BY <2>2, <4>1 DEF Joinable
    <3> QED
      BY <3>1, <3>2
  <2>5. CASE Run
    <3>1. CASE Find
      BY <2>1, <3>1, FindReplies
    <3>2. CASE ProcessMessageToUser
      BY <2>1, <3>2, RouteReplies
    <3>3. CASE RunJoined
      BY <3>3, EmptiedReplies
    <3>4. CASE ~Find /\ ~ProcessMessageToUser /\ ~RunJoined
      <4>1. UNCHANGED <<out, replied, answered, hpc>>
        BY <2>5, <3>4 DEF Run, RunStart, RunTop, RunStartUp, RunRunning, RunReset,
           RunRestart, RunRead, RunScan, RunMessage, RecordMessage, MessageRecorded,
           RunPop, RunDangles, RunMove, RunStep, Faulty, queueVars, history, handlerVars
      <4> QED
        BY <2>2, <4>1 DEF Joinable
    <3> QED
      BY <3>1, <3>2, <3>3, <3>4
  <2>6. CASE (\E s \in Orders : Publish(s)) \/ UNCHANGED vars
    <3>1. UNCHANGED <<out, replied, answered, hpc>>
      BY <2>6 DEF Publish, ManagerStep, vars, queueVars, history, handlerVars
    <3> QED
      BY <2>2, <3>1 DEF Joinable
  <2> QED
    BY <2>3, <2>4, <2>5, <2>6 DEF Next, Ended
<1> QED
  BY <1>1, <1>2

\* The replies of each client are queued in the order of its requests, at most one for
\* each, and none is lost or sent twice, for any number of clients and requests and
\* whatever SendMsg returns (Server::Run's Find..., client_handler's send and pop).
THEOREM RepliesInOrder == Spec => []ReplyOrder
<1>1. Init => ReplyInv
  <2> SUFFICES ASSUME Init PROVE ReplyInv
    OBVIOUS
  <2>1. \A c \in Clients : replied[c] = <<>> /\ answered[c] = <<>> /\ out[c] = <<>>
    BY DEF Init, NoHistory, Empty, Owners
  <2>2. Joinable = {}
    BY DEF Init, Joinable
  <2> QED
    BY <2>1, <2>2 DEF ReplyInv, ReplyOrder, Ascending, NoReplies
<1>2. OrderInv /\ OrderInv' /\ ReplyInv /\ [Next]_vars => ReplyInv'
  BY ReplyNext
<1>3. ReplyInv => ReplyOrder
  BY DEF ReplyInv
<1> QED
  BY <1>1, <1>2, <1>3, OrderInvHolds, PTL DEF Spec
=============================================================================
