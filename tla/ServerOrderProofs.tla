------------------------- MODULE ServerOrderProofs -------------------------
(* InOrder, for every value of Server's constants: the server deals with the
   messages of each client once and in the order its thread received them. *)
EXTENDS ServerTypeProofs

\* AddClient has not started the receiver thread of c.
NotStarted(c) ==
    c \notin handed \/ (mpc \in {"adding", "search", "searching"} /\ c = inHand)
Untouched(c) == hpc[c] = "idle" /\ taken[c] = 0 /\ dealt[c] = <<>> /\ inc[c] = <<>>
StartsUntouched ==
    /\ \A c \in Clients : NotStarted(c) => Untouched(c)
    /\ mpc \in {"adding", "search", "searching"} => inHand \in handed

\* When a client's queue is empty, all that was received from it was dealt with:
\* InOrder says nothing of that case, and the next message received needs it. A
\* RESET empties queues unread, but not before the thread has ended.
CaughtUp == \A c \in Joinable : inc[c] = <<>> => Len(dealt[c]) = taken[c]

OrderInv == TypeInv /\ StartsUntouched /\ CaughtUp /\ InOrder

LEMMA OrderInit == Init => OrderInv
<1> SUFFICES ASSUME Init PROVE OrderInv
  OBVIOUS
<1>1. \A c \in Clients : Untouched(c)
  BY DEF Init, Untouched, NoHistory, Empty, Owners
<1>2. Joinable = {}
  BY DEF Init, Joinable
<1>3. InOrder
  BY <1>1 DEF InOrder, Untouched, DealtInOrder, QueuedInOrder, FrontIsNext
<1> QED
  <2>1. mpc \notin {"adding", "search", "searching"}
    BY DEF Init
  <2> QED
    BY <1>1, <1>2, <1>3, <2>1, InitType DEF OrderInv, StartsUntouched, CaughtUp

-----------------------------------------------------------------------------
(* What push and pop do to a sequence. *)

LEMMA AppendFacts ==
  ASSUME NEW T, NEW s \in Seq(T), NEW e \in T
  PROVE  /\ Len(Append(s, e)) = Len(s) + 1 /\ Len(s) \in Nat /\ Append(s, e) # <<>>
         /\ \A i \in 1 .. Len(s) : Append(s, e)[i] = s[i]
         /\ Append(s, e)[Len(s) + 1] = e
  OBVIOUS

LEMMA TailFacts ==
  ASSUME NEW T, NEW s \in Seq(T), s # <<>>
  PROVE  /\ Len(s) \in Nat \ {0} /\ Len(Tail(s)) = Len(s) - 1
         /\ Tail(s) = <<>> <=> Len(s) = 1
         /\ \A i \in 1 .. Len(s) - 1 : Tail(s)[i] = s[i + 1]
<1>1. Len(s) \in Nat \ {0} /\ Len(Tail(s)) = Len(s) - 1 /\ Tail(s) \in Seq(T)
  OBVIOUS
<1>2. Tail(s) = <<>> <=> Len(s) = 1
  BY <1>1
<1>3. \A i \in 1 .. Len(s) - 1 : Tail(s)[i] = s[i + 1]
  OBVIOUS
<1> QED
  BY <1>1, <1>2, <1>3

-----------------------------------------------------------------------------
(* The three parts, when a step leaves what they are about alone. *)

LEMMA OrderKept ==
  ASSUME InOrder, UNCHANGED <<inc, taken, dealt>>,
         \A c \in Clients : Popping(c)' <=> Popping(c)
  PROVE  InOrder'
  BY DEF InOrder, DealtInOrder, QueuedInOrder, FrontIsNext

LEMMA CaughtUpKept ==
  ASSUME CaughtUp, UNCHANGED <<inc, taken, dealt>>, Joinable' \subseteq Joinable
  PROVE  CaughtUp'
  BY DEF CaughtUp

LEMMA UntouchedKept ==
  ASSUME StartsUntouched, UNCHANGED <<inc, taken, dealt, hpc>>,
         \A c \in Clients : NotStarted(c)' => NotStarted(c),
         mpc' \in {"adding", "search", "searching"} => inHand' \in handed'
  PROVE  StartsUntouched'
  BY DEF StartsUntouched, Untouched

\* The message at the iterator is dealt with: the front of its queue.
LEMMA DealtOrder ==
  ASSUME OrderInv, DealtWith, UNCHANGED <<inc, taken, it, clientList, hpc, handed, mpc, inHand>>,
         spc # "pop", spc' = "pop", it \in 1 .. Len(clientList), inc[Current] # <<>>
  PROVE  (StartsUntouched /\ CaughtUp /\ InOrder)'
<1> USE DEF OrderInv
<1>1. Current \in Owners /\ Message = inc[Current][1] /\ Message.n \in Nat
  <2>1. inc[Current] \in Seq(IncMessages)
    BY MessageType DEF TypeInv, TypeOK, QueueType
  <2> QED
    BY <2>1, MessageType DEF TypeInv, Message
<1>2. dealt \in [Clients -> Seq(Nat)] /\ inc \in [Owners -> Seq(IncMessages)]
  BY DEF TypeInv, TypeOK, HistoryType, QueueType
<1>3. ~AtEnd' /\ Current' = Current
  BY DEF AtEnd, Current, TypeInv, TypeOK, ListType
<1>4. \A c \in Clients : ~Popping(c) /\ (Popping(c)' <=> c = Current)
  BY <1>3 DEF Popping
<1>5. \A c \in Clients : c # Current => dealt'[c] = dealt[c]
  BY <1>2 DEF DealtWith
<1>6. Current \in Clients => dealt'[Current] = Append(dealt[Current], Message.n)
  BY <1>2 DEF DealtWith
<1>7. StartsUntouched'
  BY <1>5 DEF StartsUntouched, Untouched, NotStarted
<1>8. CaughtUp'
  BY <1>5 DEF CaughtUp, Joinable
<1>9. InOrder'
  <2> SUFFICES ASSUME NEW c \in Clients
               PROVE  (DealtInOrder(c) /\ QueuedInOrder(c) /\ FrontIsNext(c))'
    BY DEF InOrder
  <2>1. DealtInOrder(c) /\ QueuedInOrder(c) /\ FrontIsNext(c)
    BY DEF InOrder
  <2>2. CASE c # Current
    BY <1>4, <1>5, <2>1, <2>2 DEF DealtInOrder, QueuedInOrder, FrontIsNext
  <2>3. CASE c = Current
    <3>1. Len(dealt[c]) = Message.n - 1 /\ Len(dealt[c]) \in Nat
      BY <1>1, <1>2, <1>4, <2>1, <2>3 DEF FrontIsNext
    <3>2. /\ Len(dealt'[c]) = Message.n
          /\ \A i \in 1 .. Message.n - 1 : dealt'[c][i] = dealt[c][i]
          /\ dealt'[c][Message.n] = Message.n
      <4>1. dealt[c] \in Seq(Nat) /\ dealt'[c] = Append(dealt[c], Message.n)
        BY <1>2, <1>6, <2>3
      <4>2. Message.n = Len(dealt[c]) + 1
        BY <1>1, <3>1
      <4> QED
        BY <1>1, <3>1, <4>1, <4>2, AppendFacts
    <3>3. DealtInOrder(c)'
      <4> SUFFICES ASSUME NEW i \in 1 .. Message.n PROVE dealt'[c][i] = i
        BY <3>2 DEF DealtInOrder
      <4>1. CASE i = Message.n
        BY <3>2, <4>1
      <4>2. CASE i # Message.n
        <5>1. i \in 1 .. Message.n - 1 /\ i \in 1 .. Len(dealt[c])
          BY <1>1, <3>1, <4>2
        <5> QED
          BY <2>1, <3>2, <5>1 DEF DealtInOrder
      <4> QED
        BY <4>1, <4>2
    <3>4. QueuedInOrder(c)'
      BY <2>1 DEF QueuedInOrder
    <3>5. FrontIsNext(c)'
      BY <1>1, <1>4, <2>3, <3>2 DEF FrontIsNext
    <3> QED
      BY <3>3, <3>4, <3>5
  <2> QED
    BY <2>2, <2>3
<1> QED
  BY <1>7, <1>8, <1>9

\* The message that was dealt with is popped.
LEMMA PopOrder ==
  ASSUME OrderInv, RunPop PROVE (StartsUntouched /\ CaughtUp /\ InOrder)'
<1> USE DEF OrderInv
<1>1. /\ UNCHANGED <<taken, dealt, it, clientList, hpc, handed, mpc, inHand>>
      /\ spc = "pop" /\ spc' = "scan"
  BY DEF RunPop, RunMove, RunStep, managerVars
<1>2. it \in 1 .. Len(clientList) /\ inc[Current] # <<>> /\ Current \in Owners
  BY <1>1, BusyMessage DEF BusyPlaces
<1>3. dealt \in [Clients -> Seq(Nat)] /\ inc \in [Owners -> Seq(IncMessages)]
      /\ taken \in [Clients -> Nat]
  BY DEF TypeInv, TypeOK, HistoryType, QueueType
<1>4. inc' = [inc EXCEPT ![Current] = Tail(@)]
  BY DEF RunPop, Popped
<1>5. \A c \in Clients : ~Popping(c)' /\ (Popping(c) <=> c = Current)
  BY <1>1, <1>2 DEF Popping, AtEnd, TypeInv, TypeOK, ListType
<1>6. \A c \in Clients : c # Current => inc'[c] = inc[c]
  BY <1>3, <1>4 DEF Owners
<1>7. /\ inc[Current] \in Seq(IncMessages) /\ Len(inc[Current]) \in Nat \ {0}
      /\ Len(inc'[Current]) = Len(inc[Current]) - 1
      /\ inc'[Current] = <<>> <=> Len(inc[Current]) = 1
      /\ \A i \in 1 .. Len(inc[Current]) - 1 : inc'[Current][i] = inc[Current][i + 1]
  BY <1>2, <1>3, <1>4, TailFacts
<1>8. StartsUntouched'
  BY <1>1, <1>2, <1>6 DEF StartsUntouched, Untouched, NotStarted
<1>9. CaughtUp'
  <2> SUFFICES ASSUME NEW c \in Joinable, inc'[c] = <<>> PROVE Len(dealt[c]) = taken[c]
    BY <1>1 DEF CaughtUp, Joinable
  <2>1. CASE c # Current
    BY <1>6, <2>1 DEF CaughtUp, Joinable
  <2>2. CASE c = Current
    <3>1. Len(inc[c]) = 1 /\ c \in Clients
      BY <1>7, <2>2 DEF Joinable
    <3>2. Len(dealt[c]) = inc[c][1].n
      BY <1>2, <1>5, <2>2, <3>1 DEF InOrder, FrontIsNext
    <3>3. inc[c][1].n = taken[c] - 1 + 1
      BY <3>1, 1 \in 1 .. 1 DEF InOrder, QueuedInOrder
    <3> QED
      BY <1>3, <3>1, <3>2, <3>3
  <2> QED
    BY <2>1, <2>2
<1>10. InOrder'
  <2> SUFFICES ASSUME NEW c \in Clients
               PROVE  (DealtInOrder(c) /\ QueuedInOrder(c) /\ FrontIsNext(c))'
    BY DEF InOrder
  <2>1. DealtInOrder(c) /\ QueuedInOrder(c) /\ FrontIsNext(c)
    BY DEF InOrder
  <2>2. CASE c # Current
    BY <1>1, <1>5, <1>6, <2>1, <2>2 DEF DealtInOrder, QueuedInOrder, FrontIsNext
  <2>3. CASE c = Current
    <3>1. DealtInOrder(c)'
      BY <1>1, <2>1 DEF DealtInOrder
    <3>2. QueuedInOrder(c)'
      <4> SUFFICES ASSUME NEW i \in 1 .. Len(inc'[c])
                   PROVE  inc'[c][i].n = taken[c] - Len(inc'[c]) + i
        BY <1>1 DEF QueuedInOrder
      <4>1. /\ i \in 1 .. Len(inc[c]) - 1 /\ i + 1 \in 1 .. Len(inc[c])
            /\ Len(inc'[c]) = Len(inc[c]) - 1
        BY <1>7, <2>3
      <4>2. inc[c][i + 1].n = taken[c] - Len(inc[c]) + (i + 1)
        BY <2>1, <4>1 DEF QueuedInOrder
      <4>3. inc'[c][i] = inc[c][i + 1]
        BY <1>7, <2>3, <4>1
      <4>4. taken[c] \in Nat /\ Len(inc[c]) \in Nat /\ i \in Nat
        BY <1>3, <1>7, <2>3, <4>1
      <4>5. taken[c] - Len(inc[c]) + (i + 1) = taken[c] - (Len(inc[c]) - 1) + i
        BY <4>4
      <4>6. taken[c] - (Len(inc[c]) - 1) + i = taken[c] - Len(inc'[c]) + i
        BY <4>1
      <4> QED
        BY <4>2, <4>3, <4>5, <4>6
    <3>3. FrontIsNext(c)'
      <4> SUFFICES ASSUME inc'[c] # <<>> PROVE Len(dealt[c]) = inc'[c][1].n - 1
        BY <1>1, <1>5 DEF FrontIsNext
      <4>1. Len(inc[c]) >= 2
        BY <1>7, <2>3
      <4>2. inc'[c][1].n = taken[c] - Len(inc[c]) + 2
        BY <1>7, <2>1, <2>3, <4>1, 1 \in 1 .. Len(inc[c]) - 1, 2 \in 1 .. Len(inc[c]),
           inc'[c][1] = inc[c][2] DEF QueuedInOrder
      <4>3. inc[c][1].n = taken[c] - Len(inc[c]) + 1
        BY <1>7, <2>1, <2>3, <4>1 DEF QueuedInOrder
      <4>4. Len(dealt[c]) = inc[c][1].n
        BY <1>2, <1>5, <2>1, <2>3 DEF FrontIsNext
      <4> QED
        BY <1>3, <1>7, <2>3, <4>2, <4>3, <4>4
    <3> QED
      BY <3>1, <3>2, <3>3
  <2> QED
    BY <2>2, <2>3
<1> QED
  BY <1>8, <1>9, <1>10

-----------------------------------------------------------------------------
(* The other steps that change a queue or a history. *)

\* A text is received: its message goes to the end of the queue.
LEMMA ReceiveOrder ==
  ASSUME OrderInv, NEW d \in Clients, HandlerReceive(d)
  PROVE  (StartsUntouched /\ CaughtUp /\ InOrder)'
<1> USE DEF OrderInv
<1>1. /\ UNCHANGED <<dealt, it, clientList, spc, handed, mpc, inHand>>
      /\ hpc[d] = "receive" /\ hpc' = [hpc EXCEPT ![d] = "send"]
      /\ taken' = [taken EXCEPT ![d] = @ + 1]
  BY DEF HandlerReceive, HandlerStep, listVars, serverVars, managerVars
<1>2. PICK new : inc' = [inc EXCEPT ![d] = Append(@, new)] /\ new.n = taken[d] + 1
                 /\ new \in IncMessages
  <2> DEFINE parsed(m) == [n |-> taken[d] + 1, code |-> m.code, valid |-> m.valid]
  <2>1. PICK text \in Sent : \E m \in ParsedAs(GetMessageType(text)) :
          inc' = [inc EXCEPT ![d] = Append(@, parsed(m))]
    BY DEF HandlerReceive
  <2>2. PICK m \in ParsedAs(GetMessageType(text)) :
          inc' = [inc EXCEPT ![d] = Append(@, parsed(m))]
    BY <2>1
  <2>3. m.code \in MessageTypes /\ m.valid \in BOOLEAN
    BY TextType, ParsedType
  <2>4. taken[d] + 1 \in Nat
    BY DEF TypeInv, TypeOK, HistoryType
  <2>5. parsed(m) \in IncMessages /\ parsed(m).n = taken[d] + 1
    BY <2>3, <2>4 DEF IncMessages
  <2> QED
    BY <2>2, <2>5
<1>3. /\ dealt \in [Clients -> Seq(Nat)] /\ inc \in [Owners -> Seq(IncMessages)]
      /\ taken \in [Clients -> Nat] /\ hpc \in [Clients -> HandlerPlaces]
  BY DEF TypeInv, TypeOK, HistoryType, QueueType, HandlerType
<1>4. \A c \in Clients : c # d => inc'[c] = inc[c] /\ taken'[c] = taken[c] /\ hpc'[c] = hpc[c]
  BY <1>1, <1>2, <1>3 DEF Owners
<1>5. /\ inc[d] \in Seq(IncMessages) /\ inc'[d] = Append(inc[d], new)
      /\ taken'[d] = taken[d] + 1 /\ taken[d] \in Nat
  BY <1>1, <1>2, <1>3 DEF Owners
<1>6. /\ Len(inc'[d]) = Len(inc[d]) + 1 /\ Len(inc[d]) \in Nat /\ inc'[d] # <<>>
      /\ \A i \in 1 .. Len(inc[d]) : inc'[d][i] = inc[d][i]
      /\ inc'[d][Len(inc[d]) + 1] = new
  BY <1>2, <1>5, AppendFacts
<1>7. \A c \in Clients : Popping(c)' <=> Popping(c)
  BY <1>1 DEF Popping, AtEnd, Current
<1>8. d \in Joinable
  BY <1>1 DEF Joinable
<1>9. StartsUntouched'
  <2>1. ~NotStarted(d)
    BY <1>1 DEF StartsUntouched, Untouched
  <2> QED
    BY <1>1, <1>4, <2>1 DEF StartsUntouched, Untouched, NotStarted
<1>10. CaughtUp'
  BY <1>1, <1>4, <1>6 DEF CaughtUp, Joinable
<1>11. InOrder'
  <2> SUFFICES ASSUME NEW c \in Clients
               PROVE  (DealtInOrder(c) /\ QueuedInOrder(c) /\ FrontIsNext(c))'
    BY DEF InOrder
  <2>1. DealtInOrder(c) /\ QueuedInOrder(c) /\ FrontIsNext(c)
    BY DEF InOrder
  <2>2. CASE c # d
    BY <1>1, <1>4, <1>7, <2>1, <2>2 DEF DealtInOrder, QueuedInOrder, FrontIsNext
  <2>3. CASE c = d
    <3>1. DealtInOrder(c)'
      BY <1>1, <2>1 DEF DealtInOrder
    <3>2. QueuedInOrder(c)'
      <4> SUFFICES ASSUME NEW i \in 1 .. Len(inc'[d])
                   PROVE  inc'[d][i].n = taken'[d] - Len(inc'[d]) + i
        BY <2>3 DEF QueuedInOrder
      <4>1. CASE i = Len(inc[d]) + 1
        BY <1>2, <1>5, <1>6, <4>1
      <4>2. CASE i # Len(inc[d]) + 1
        <5>1. i \in 1 .. Len(inc[d])
          BY <1>6, <4>2
        <5>2. inc[d][i].n = taken[d] - Len(inc[d]) + i
          BY <2>1, <2>3, <5>1 DEF QueuedInOrder
        <5> QED
          BY <1>5, <1>6, <5>1, <5>2
      <4> QED
        BY <4>1, <4>2
    <3>3. FrontIsNext(c)'
      <4>1. CASE inc[d] = <<>>
        <5>1. Len(dealt[d]) = taken[d]
          BY <1>8, <4>1 DEF CaughtUp
        <5>2. inc'[d][1].n = taken[d] + 1
          BY <1>2, <1>6, <4>1
        <5>3. ~Popping(d)
          BY <4>1, BusyMessage DEF Popping, BusyPlaces
        <5>4. ~Popping(c)'
          BY <1>7, <2>3, <5>3
        <5>5. inc'[c][1].n - 1 = taken[d]
          <6>1. taken[d] \in Nat
            BY <1>5
          <6>2. inc'[d][1].n - 1 = taken[d]
            BY <5>2, <6>1
          <6> QED
            BY <2>3, <6>2
        <5>6. Len(dealt'[c]) = taken[d]
          BY <1>1, <2>3, <5>1
        <5> QED
          BY <5>4, <5>5, <5>6 DEF FrontIsNext
      <4>2. CASE inc[d] # <<>>
        <5>1. inc'[d][1] = inc[d][1]
          <6>1. 1 \in 1 .. Len(inc[d])
            BY <1>5, <1>6, <4>2
          <6> QED
            BY <1>6, <6>1
        <5> QED
          BY <1>1, <1>7, <2>1, <2>3, <4>2, <5>1 DEF FrontIsNext
      <4> QED
        BY <4>1, <4>2
    <3> QED
      BY <3>1, <3>2, <3>3
  <2> QED
    BY <2>2, <2>3
<1> QED
  BY <1>9, <1>10, <1>11

\* A client's receiver thread starts.
LEMMA SpawnOrder ==
  ASSUME OrderInv, AddClientSpawn PROVE (StartsUntouched /\ CaughtUp /\ InOrder)'
<1> USE DEF OrderInv
<1>1. /\ UNCHANGED <<inc, taken, dealt, it, clientList, spc, handed, inHand>>
      /\ mpc = "searching" /\ mpc' = "enlisting"
      /\ hpc' = [hpc EXCEPT ![inHand] = "read"] /\ inHand \in Clients
  BY DEF AddClientSpawn, ManagerStep, serverVars, listVars, history, TypeInv, HandOK
<1>2. hpc \in [Clients -> HandlerPlaces]
  BY DEF TypeInv, TypeOK, HandlerType
<1>3. Untouched(inHand)
  BY <1>1 DEF StartsUntouched, NotStarted
<1>4. StartsUntouched'
  BY <1>1, <1>2 DEF StartsUntouched, Untouched, NotStarted
<1>5. CaughtUp'
  BY <1>1, <1>2, <1>3 DEF CaughtUp, Untouched, Joinable
<1>6. InOrder'
  BY <1>1, OrderKept DEF Popping, AtEnd, Current
<1> QED
  BY <1>4, <1>5, <1>6

\* The RESET section empties the queues, when no receiver thread is left.
LEMMA JoinedOrder ==
  ASSUME OrderInv, RunJoined PROVE (StartsUntouched /\ CaughtUp /\ InOrder)'
<1> USE DEF OrderInv
<1>1. /\ UNCHANGED <<taken, dealt, handed, mpc, inHand>> /\ spc' = "restart"
      /\ \A c \in Clients : inc'[c] = <<>>
      /\ \A c \in Clients : hpc[c] = "idle" => hpc'[c] = "idle"
  BY DEF RunJoined, RunStep, managerVars, Empty, Owners
<1>2. Joinable' = {}
  BY DEF RunJoined, Joined, Joinable
<1>3. InOrder'
  BY <1>1 DEF InOrder, DealtInOrder, QueuedInOrder, FrontIsNext
<1> QED
  BY <1>1, <1>2, <1>3 DEF StartsUntouched, Untouched, NotStarted, CaughtUp

\* The next server starts with nothing.
LEMMA DeleteOrder ==
  ASSUME OrderInv, DeleteServer PROVE (StartsUntouched /\ CaughtUp /\ InOrder)'
<1>1. /\ Joinable = {} /\ hpc' = hpc
      /\ \A c \in Clients : taken'[c] = 0 /\ dealt'[c] = <<>> /\ inc'[c] = <<>>
  BY DEF DeleteServer, NoHistory, Empty, Owners
<1>2. \A c \in Clients : Untouched(c)' /\ c \notin Joinable'
  BY <1>1 DEF Untouched, Joinable
<1>3. InOrder'
  BY <1>1 DEF InOrder, DealtInOrder, QueuedInOrder, FrontIsNext
<1> QED
  BY <1>2, <1>3 DEF StartsUntouched, CaughtUp, Joinable, DeleteServer

\* Every other step leaves the queues and the histories alone, starts no thread,
\* and moves the loop neither to nor from a message that was dealt with.
LEMMA QuietOrder ==
  ASSUME OrderInv, UNCHANGED <<inc, taken, dealt>>,
         \A c \in Clients : hpc'[c] = "idle" <=> hpc[c] = "idle",
         \A c \in Clients : NotStarted(c)' => NotStarted(c),
         mpc' \in {"adding", "search", "searching"} => inHand' \in handed',
         \A c \in Clients : Popping(c)' <=> Popping(c)
  PROVE  (StartsUntouched /\ CaughtUp /\ InOrder)'
<1>1. InOrder'
  BY OrderKept DEF OrderInv
<1> QED
  BY <1>1 DEF OrderInv, StartsUntouched, Untouched, CaughtUp, Joinable

-----------------------------------------------------------------------------
LEMMA OrderNext ==
  OrderInv /\ [Next]_vars => (StartsUntouched /\ CaughtUp /\ InOrder)'
<1> SUFFICES ASSUME OrderInv, [Next]_vars PROVE (StartsUntouched /\ CaughtUp /\ InOrder)'
  OBVIOUS
<1> DEFINE Goal == (StartsUntouched /\ CaughtUp /\ InOrder)'
<1>1. ASSUME NEW c \in Clients, Dispatch(c) \/ Handler(c) PROVE Goal
  <2>1. CASE Dispatch(c)
    <3>1. /\ UNCHANGED <<inc, taken, dealt, hpc, it, clientList>> /\ mpc = "loop"
          /\ handed' = handed \cup {c} /\ c \notin handed /\ inHand' = c
          /\ spc' # "pop" <=> spc # "pop"
      BY <2>1 DEF Dispatch, queueVars, history, handlerVars, listVars
    <3>2. \A d \in Clients : NotStarted(d)' => NotStarted(d)
      BY <3>1 DEF NotStarted
    <3>3. \A d \in Clients : Popping(d)' <=> Popping(d)
      BY <3>1 DEF Popping, AtEnd, Current
    <3> QED
      BY <3>1, <3>2, <3>3, QuietOrder
  <2>2. CASE HandlerReceive(c)
    BY <2>2, ReceiveOrder
  <2>3. CASE Handler(c) /\ ~HandlerReceive(c)
    <3>1. UNCHANGED <<inc, taken, dealt, it, clientList, spc, handed, mpc, inHand>>
      BY <2>3 DEF Handler, HandlerWait, HandlerLoad, HandlerNothing, HandlerSend,
         HandlerIdle, HandlerDangles, Faulty, HandlerStep, queueVars, history, listVars,
         serverVars, managerVars
    <3>2. \A d \in Clients : hpc'[d] = "idle" <=> hpc[d] = "idle"
      BY <2>3 DEF Handler, HandlerWait, HandlerLoad, HandlerNothing, HandlerSend,
         HandlerIdle, HandlerDangles, Faulty, handlerVars, OrderInv, TypeInv, TypeOK,
         HandlerType
    <3> QED
      BY <3>1, <3>2, QuietOrder DEF NotStarted, Popping, AtEnd, Current, OrderInv,
         StartsUntouched
  <2> QED
    BY <1>1, <2>1, <2>2, <2>3
<1>2. CASE Manager
  <2>1. CASE AddClientRefused \/ SearchForMessages \/ Enlist \/ Stop \/ DeleteTerminates
    <3>1. /\ UNCHANGED <<inc, taken, dealt, hpc, it, clientList, spc, handed, inHand>>
          /\ mpc' \in {"adding", "search", "searching"} =>
               mpc \in {"adding", "search", "searching"}
      BY <2>1 DEF AddClientRefused, SearchForMessages, Enlist, Stop, DeleteTerminates,
         Faulty, ManagerStep, queueVars, history, handlerVars, listVars, serverVars,
         managerVars
    <3> QED
      BY <3>1, QuietOrder DEF NotStarted, Popping, AtEnd, Current, OrderInv,
         StartsUntouched
  <2>2. CASE AddClientAppend
    <3>1. /\ UNCHANGED <<inc, taken, dealt, hpc, it, spc, handed, inHand>>
          /\ mpc = "adding" /\ clientList' = Append(clientList, inHand)
          /\ clientList \in Seq(Owners) /\ inHand \in Owners
      BY <2>2 DEF AddClientAppend, queueVars, history, handlerVars, OrderInv, TypeInv,
         TypeOK, ListType, ManagerType
    <3>2. /\ Len(clientList') = Len(clientList) + 1 /\ Len(clientList) \in Nat
          /\ \A i \in 1 .. Len(clientList) : clientList'[i] = clientList[i]
      BY <3>1, AppendFacts
    <3>3. spc = "pop" => it \in 1 .. Len(clientList)
      BY BusyMessage DEF OrderInv, BusyPlaces
    <3>4. \A d \in Clients : Popping(d)' <=> Popping(d)
      BY <3>1, <3>2, <3>3 DEF Popping, AtEnd, Current
    <3>5. \A d \in Clients : NotStarted(d)' => NotStarted(d)
      BY <3>1 DEF NotStarted
    <3> QED
      BY <3>1, <3>4, <3>5, QuietOrder DEF OrderInv, StartsUntouched
  <2>3. CASE AddClientSpawn \/ DeleteServer
    BY <2>3, SpawnOrder, DeleteOrder
  <2> QED
    BY <1>2, <2>1, <2>2, <2>3 DEF Manager
<1>3. CASE Run
  <2>1. CASE RunPop \/ RunJoined
    BY <2>1, PopOrder, JoinedOrder
  <2>2. CASE RunMessage /\ Message.code = "INVALID"
    <3>1. /\ UNCHANGED <<inc, taken, it, clientList, hpc, handed, mpc, inHand>>
          /\ DealtWith /\ spc # "pop" /\ spc' = "pop"
      BY <2>2 DEF RunMessage, Requests, RunMove, RunStep, queueVars, managerVars
    <3>2. it \in 1 .. Len(clientList) /\ inc[Current] # <<>>
      BY <2>2 DEF RunMessage, AtEnd, OrderInv, TypeInv, TypeOK, ServerType, ListType
    <3> QED
      BY <3>1, <3>2, DealtOrder
  <2>3. CASE ProcessMessageToUser \/ MessageRecorded \/ Find
    <3>1. /\ UNCHANGED <<inc, taken, it, clientList, hpc, handed, mpc, inHand>>
          /\ DealtWith /\ spc \in {"route", "recording", "find"} /\ spc' = "pop"
      BY <2>3 DEF ProcessMessageToUser, MessageRecorded, Find, RunMove, RunStep,
         queueVars, managerVars
    <3>2. it \in 1 .. Len(clientList) /\ inc[Current] # <<>>
      BY <3>1, BusyMessage DEF OrderInv, BusyPlaces
    <3> QED
      BY <3>1, <3>2, DealtOrder
  <2>4. CASE RunMessage /\ Message.code # "INVALID"
    <3>1. /\ UNCHANGED <<inc, taken, dealt, it, clientList, hpc, handed, mpc, inHand>>
          /\ spc # "pop" /\ spc' # "pop"
      BY <2>4 DEF RunMessage, RunMove, RunStep, queueVars, managerVars
    <3> QED
      BY <3>1, QuietOrder DEF NotStarted, Popping, OrderInv, StartsUntouched
  <2>5. CASE RunTop \/ RunStart \/ RunStartUp \/ RunRunning \/ RunReset \/ RunRestart
    <3>1. /\ UNCHANGED <<inc, taken, dealt, hpc, handed, mpc, inHand>>
          /\ spc # "pop" /\ spc' # "pop"
      BY <2>5 DEF RunTop, RunStart, RunStartUp, RunRunning, RunReset, RunRestart, RunMove,
         RunStep, queueVars, managerVars
    <3> QED
      BY <3>1, QuietOrder DEF NotStarted, Popping, OrderInv, StartsUntouched
  <2>6. CASE RunRead \/ RunScan \/ RecordMessage
    <3>1. /\ UNCHANGED <<inc, taken, dealt, hpc, handed, mpc, inHand>>
          /\ spc # "pop" /\ spc' # "pop"
      BY <2>6 DEF RunRead, RunScan, RecordMessage, RunMove, RunStep, queueVars,
         managerVars
    <3> QED
      BY <3>1, QuietOrder DEF NotStarted, Popping, OrderInv, StartsUntouched
  <2>7. CASE RunDangles
    <3>1. UNCHANGED <<inc, taken, dealt, hpc, it, clientList, spc, handed, mpc, inHand>>
      BY <2>7 DEF RunDangles, Faulty, queueVars, history, handlerVars, listVars,
         serverVars, managerVars
    <3> QED
      BY <3>1, QuietOrder DEF NotStarted, Popping, AtEnd, Current, OrderInv,
         StartsUntouched
  <2> QED
    BY <1>3, <2>1, <2>2, <2>3, <2>4, <2>5, <2>6, <2>7 DEF Run
<1>4. CASE \E s \in Orders : Publish(s)
  <2>1. /\ UNCHANGED <<inc, taken, dealt, hpc, it, clientList, spc, handed>>
        /\ mpc \in {"loop", "publish"} /\ mpc' \in {"loop", "shutdown"}
    BY <1>4 DEF Publish, ManagerStep, queueVars, history, handlerVars, listVars, serverVars
  <2> QED
    BY <2>1, QuietOrder DEF NotStarted, Popping, AtEnd, Current
<1>5. CASE UNCHANGED vars
  <2>1. UNCHANGED <<inc, taken, dealt, hpc, it, clientList, spc, handed, mpc, inHand>>
    BY <1>5 DEF vars, queueVars, history, handlerVars, listVars, serverVars, managerVars
  <2> QED
    BY <2>1, QuietOrder DEF NotStarted, Popping, AtEnd, Current, OrderInv, StartsUntouched
<1> QED
  BY <1>1, <1>2, <1>3, <1>4, <1>5 DEF Next, Ended

\* The strengthening of InOrder holds: nothing was received before the thread starts,
\* and an empty queue means that all was dealt with (Server.cpp:55-62, 167-246).
THEOREM OrderInvHolds == Spec => []OrderInv
<1>1. OrderInv /\ [Next]_vars => OrderInv'
  BY OrderNext, NextType DEF OrderInv
<1> QED
  BY <1>1, OrderInit, PTL DEF Spec

\* Each message of a client is dealt with once and in the order received, for any
\* number of clients and messages (client_handler's push, Server::Run's pop).
THEOREM MessagesInOrder == Spec => []InOrder
<1>1. OrderInv => InOrder
  BY DEF OrderInv
<1> QED
  BY <1>1, OrderInvHolds, PTL
=============================================================================
