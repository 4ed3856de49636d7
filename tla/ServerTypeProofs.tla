-------------------------- MODULE ServerTypeProofs --------------------------
(* Server's variables keep their types, whatever the constants are: the first
   inductive invariant, on which every other proof about Server rests. *)
EXTENDS Server, TLAPS

\* While AddClient runs, the manager has a client in its hand.
HandOK == mpc \in {"adding", "search", "searching", "enlisting"} => inHand \in Clients

\* From RunMessage to RunPop the loop's iterator is at a client that has a message
\* in front of its queue. TypeOK alone is not inductive: pop() of an empty queue
\* and an iterator past the end would break it.
BusyPlaces == {"route", "recording", "find", "pop"}
BusyOK == spc \in BusyPlaces => it \in 1 .. Len(clientList) /\ inc[Current] # <<>>

TypeInv == TypeOK /\ HandOK /\ BusyOK

-----------------------------------------------------------------------------
(* What the operators of the model return. *)

LEMMA TextType == \A t : GetMessageType(t) \in MessageTypes
  BY DEF GetMessageType, MessageTypes

LEMMA ParsedType ==
  ASSUME NEW t \in MessageTypes, NEW m \in ParsedAs(t)
  PROVE  m.code \in MessageTypes /\ m.valid \in BOOLEAN
<1>1. CASE m = [code |-> "INVALID", valid |-> FALSE]
  BY <1>1 DEF MessageTypes
<1>2. CASE m # [code |-> "INVALID", valid |-> FALSE]
  <2>1. t # "INVALID" /\ \E v \in BOOLEAN : m = [code |-> t, valid |-> v]
    BY <1>2 DEF ParsedAs
  <2> QED
    BY <2>1
<1> QED
  BY <1>1, <1>2

LEMMA ReplyType == \A t \in DOMAIN ReplyTo : ReplyTo[t] \in MessageTypes
  BY DEF ReplyTo, MessageTypes

LEMMA FreshType == Fresh \in Seq(Owners)
<1>1. \A i \in 1 .. Placeholders : Fresh[i] \in Owners
  BY DEF Fresh, Owners
<1> QED
  BY <1>1, PlaceholdersAssumption DEF Fresh

LEMMA EmptyType ==
  Empty \in [Owners -> Seq(IncMessages)] /\ Empty \in [Owners -> Seq(OutMessages)]
  BY DEF Empty

LEMMA NoHistoryType == NoHistory \in [Clients -> Seq(Nat)]
  BY DEF NoHistory

\* A push to, and a pop from, one sequence of a family of sequences.
LEMMA AppendType ==
  ASSUME NEW S, NEW T, NEW f \in [S -> Seq(T)], NEW x, NEW e \in T
  PROVE  [f EXCEPT ![x] = Append(@, e)] \in [S -> Seq(T)]
<1>1. ASSUME NEW y \in S PROVE [f EXCEPT ![x] = Append(@, e)][y] \in Seq(T)
  <2>1. CASE y = x
    BY <2>1
  <2>2. CASE y # x
    BY <2>2
  <2> QED
    BY <2>1, <2>2
<1> QED
  BY <1>1

LEMMA TailType ==
  ASSUME NEW S, NEW T, NEW f \in [S -> Seq(T)], NEW x, x \in S => f[x] # <<>>
  PROVE  [f EXCEPT ![x] = Tail(@)] \in [S -> Seq(T)]
<1>1. ASSUME NEW y \in S PROVE [f EXCEPT ![x] = Tail(@)][y] \in Seq(T)
  <2>1. CASE y = x
    BY <2>1
  <2>2. CASE y # x
    BY <2>2
  <2> QED
    BY <2>1, <2>2
<1> QED
  BY <1>1

LEMMA MessageType ==
  ASSUME TypeOK, it \in 1 .. Len(clientList), inc[Current] # <<>>
  PROVE  Current \in Owners /\ Message.n \in Nat /\ Message.code \in MessageTypes
<1>1. Current \in Owners
  BY DEF TypeOK, ListType, Current
<1>2. inc[Current] \in Seq(IncMessages)
  BY <1>1 DEF TypeOK, QueueType
<1>3. Message \in IncMessages
  BY <1>2 DEF Message
<1> QED
  BY <1>1, <1>3 DEF IncMessages

LEMMA BusyMessage ==
  ASSUME TypeInv, spc \in BusyPlaces
  PROVE  /\ it \in 1 .. Len(clientList) /\ inc[Current] # <<>>
         /\ Current \in Owners /\ Message.n \in Nat
  BY MessageType DEF TypeInv, BusyOK

-----------------------------------------------------------------------------
(* What the steps of one thread leave alone. *)

LEMMA ManagerStepType ==
  ASSUME TypeOK, ManagerStep
  PROVE  ServerType' /\ HistoryType' /\ fault' \in Faults /\ stateLock' \in {"free", "held"}
<1>1. ServerType'
  BY DEF TypeOK, ServerType, ManagerStep, serverVars
<1>2. HistoryType'
  BY DEF TypeOK, HistoryType, ManagerStep, history
<1> QED
  BY <1>1, <1>2 DEF TypeOK, StateType, ManagerStep

LEMMA HandlerStepType ==
  ASSUME TypeInv, HandlerStep
  PROVE  StateType' /\ ListType' /\ ServerType' /\ ManagerType' /\ fault' \in Faults /\ HandOK'
<1>1. StateType' /\ ListType'
  BY DEF TypeInv, TypeOK, StateType, ListType, HandlerStep, stateVars, listVars
<1>2. ServerType'
  BY DEF TypeInv, TypeOK, ServerType, HandlerStep, serverVars
<1>3. ManagerType' /\ HandOK'
  BY DEF TypeInv, TypeOK, HandOK, ManagerType, HandlerStep, managerVars
<1> QED
  BY <1>1, <1>2, <1>3 DEF TypeInv, TypeOK, HandlerStep

LEMMA RunStepType ==
  ASSUME TypeInv, RunStep
  PROVE  ManagerType' /\ fault' \in Faults /\ HandOK'
  BY DEF TypeInv, TypeOK, HandOK, ManagerType, RunStep, managerVars

LEMMA RunMoveType ==
  ASSUME TypeInv, RunMove
  PROVE  ListType' /\ HandlerType' /\ ManagerType' /\ fault' \in Faults /\ HandOK'
<1>1. ListType' /\ HandlerType'
  BY DEF TypeInv, TypeOK, ListType, HandlerType, RunMove, RunStep
<1> QED
  BY <1>1, RunStepType DEF RunMove

\* Steps that leave BusyOK alone: the loop does not move, the list keeps the
\* element at the iterator and no queue is emptied.
LEMMA BusyKept ==
  ASSUME TypeInv, UNCHANGED <<spc, it>>,
         Len(clientList') >= Len(clientList), clientList' \in Seq(Owners),
         \A i \in 1 .. Len(clientList) : clientList'[i] = clientList[i],
         \A o \in Owners : inc[o] # <<>> => inc'[o] # <<>>
  PROVE  BusyOK'
<1> SUFFICES ASSUME spc \in BusyPlaces
             PROVE  it \in 1 .. Len(clientList') /\ inc'[clientList'[it]] # <<>>
  BY DEF BusyOK, Current
<1>1. it \in 1 .. Len(clientList) /\ clientList \in Seq(Owners) /\ inc[Current] # <<>>
  BY DEF TypeInv, TypeOK, ListType, BusyOK
<1>2. clientList'[it] = Current /\ Current \in Owners
  BY <1>1 DEF Current
<1> QED
  BY <1>1, <1>2

-----------------------------------------------------------------------------
(* The manager's steps. *)

LEMMA DispatchType == ASSUME TypeInv, NEW c \in Clients, Dispatch(c) PROVE TypeInv'
<1>1. ServerType'
  <2>1. itDangling' \in BOOLEAN
    BY DEF TypeInv, TypeOK, ServerType, Dispatch
  <2> QED
    BY <2>1 DEF TypeInv, TypeOK, ServerType, ManagerType, Dispatch,
       RunPlaces
<1>2. ManagerType' /\ HandOK'
  BY DEF TypeInv, TypeOK, ManagerType, HandOK, Dispatch, ManagerPlaces, Owners
<1>3. StateType' /\ ListType' /\ QueueType' /\ HandlerType' /\ HistoryType'
  BY DEF TypeInv, TypeOK, StateType, ListType, QueueType, HandlerType, HistoryType,
     Dispatch, stateVars, listVars, queueVars, handlerVars, history
<1>4. BusyOK'
  BY DEF TypeInv, BusyOK, BusyPlaces, Current, Dispatch, listVars, queueVars
<1> QED
  BY <1>1, <1>2, <1>3, <1>4 DEF TypeInv, TypeOK, Dispatch

LEMMA AddClientRefusedType == ASSUME TypeInv, AddClientRefused PROVE TypeInv'
<1>1. ServerType' /\ HistoryType' /\ fault' \in Faults /\ stateLock' \in {"free", "held"}
  BY ManagerStepType DEF TypeInv, AddClientRefused
<1>2. ManagerType' /\ HandOK'
  BY DEF TypeInv, TypeOK, ManagerType, HandOK, AddClientRefused, ManagerPlaces
<1>3. state' \in ServerStates /\ ListType' /\ QueueType' /\ HandlerType'
  BY DEF TypeInv, TypeOK, StateType, ListType, QueueType, HandlerType,
     AddClientRefused, listVars, queueVars, handlerVars
<1>4. BusyOK'
  BY DEF TypeInv, BusyOK, Current, AddClientRefused, ManagerStep, listVars, queueVars,
     serverVars
<1> QED
  BY <1>1, <1>2, <1>3, <1>4 DEF TypeInv, TypeOK, StateType

LEMMA AddClientAppendType == ASSUME TypeInv, AddClientAppend PROVE TypeInv'
<1>1. inHand \in Clients
  BY DEF TypeInv, HandOK, AddClientAppend
<1>2. clientList \in Seq(Owners) /\ clientList' = Append(clientList, inHand)
  BY DEF TypeInv, TypeOK, ListType, AddClientAppend
<1>3. ListType'
  <2>1. capacity' \in Nat /\ dangling' \subseteq Clients
    BY DEF TypeInv, TypeOK, ListType, AddClientAppend, Grown, Joinable
  <2> QED
    BY <1>1, <1>2, <2>1 DEF ListType, Owners
<1>4. ServerType'
  <2>1. itDangling' \in BOOLEAN
    BY DEF TypeInv, TypeOK, ServerType, AddClientAppend
  <2> QED
    BY <2>1 DEF TypeInv, TypeOK, ServerType, AddClientAppend
<1>5. ManagerType' /\ HandOK'
  BY <1>1 DEF TypeInv, TypeOK, ManagerType, HandOK, AddClientAppend, ManagerPlaces
<1>6. StateType' /\ QueueType' /\ HandlerType' /\ HistoryType'
  BY DEF TypeInv, TypeOK, StateType, QueueType, HandlerType, HistoryType,
     AddClientAppend, stateVars, queueVars, handlerVars, history
<1>7. BusyOK'
  <2>1. Len(clientList') >= Len(clientList) /\ clientList' \in Seq(Owners)
    BY <1>1, <1>2 DEF Owners
  <2>2. \A i \in 1 .. Len(clientList) : clientList'[i] = clientList[i]
    BY <1>2
  <2>3. inc' = inc /\ UNCHANGED <<spc, it>>
    BY DEF AddClientAppend, queueVars
  <2> QED
    BY <2>1, <2>2, <2>3, BusyKept
<1> QED
  BY <1>3, <1>4, <1>5, <1>6, <1>7 DEF TypeInv, TypeOK, AddClientAppend

LEMMA SearchForMessagesType == ASSUME TypeInv, SearchForMessages PROVE TypeInv'
<1>1. ServerType' /\ HistoryType' /\ fault' \in Faults /\ stateLock' \in {"free", "held"}
  BY ManagerStepType DEF TypeInv, SearchForMessages
<1>2. ManagerType' /\ HandOK'
  BY DEF TypeInv, TypeOK, ManagerType, HandOK, SearchForMessages, ManagerPlaces
<1>3. state' \in ServerStates /\ ListType' /\ QueueType' /\ HandlerType'
  BY DEF TypeInv, TypeOK, StateType, ListType, QueueType, HandlerType,
     SearchForMessages, listVars, queueVars, handlerVars
<1>4. BusyOK'
  BY DEF TypeInv, BusyOK, Current, SearchForMessages, ManagerStep, listVars, queueVars,
     serverVars
<1> QED
  BY <1>1, <1>2, <1>3, <1>4 DEF TypeInv, TypeOK, StateType

LEMMA AddClientSpawnType == ASSUME TypeInv, AddClientSpawn PROVE TypeInv'
<1>1. inHand \in Clients
  BY DEF TypeInv, HandOK, AddClientSpawn
<1>2. QueueType'
  <2> DEFINE stored(n, rows) == [i \in 1 .. n |-> [type |-> GetMessageType(rows[i]),
                                                   req |-> 0, freed |-> FALSE]]
  <2>1. PICK n \in 0 .. MaxStored : \E rows \in [1 .. n -> Sent] :
          out' = [out EXCEPT ![inHand] = @ \o stored(n, rows)]
    BY DEF AddClientSpawn
  <2>2. PICK rows \in [1 .. n -> Sent] :
          out' = [out EXCEPT ![inHand] = @ \o stored(n, rows)]
    BY <2>1
  <2>3. stored(n, rows) \in Seq(OutMessages)
    <3>1. \A i \in 1 .. n : stored(n, rows)[i] \in OutMessages
      BY TextType DEF OutMessages
    <3> QED
      BY <3>1, BoundsAssumption
  <2> HIDE DEF stored
  <2>4. out[inHand] \o stored(n, rows) \in Seq(OutMessages)
    BY <1>1, <2>3 DEF TypeInv, TypeOK, QueueType, Owners
  <2> QED
    BY <2>2, <2>4 DEF TypeInv, TypeOK, QueueType, AddClientSpawn
<1>3. HandlerType'
  BY <1>1 DEF TypeInv, TypeOK, HandlerType, AddClientSpawn, HandlerPlaces
<1>4. ServerType' /\ HistoryType' /\ fault' \in Faults /\ stateLock' \in {"free", "held"}
  BY ManagerStepType DEF TypeInv, AddClientSpawn
<1>5. ManagerType' /\ HandOK'
  BY <1>1 DEF TypeInv, TypeOK, ManagerType, HandOK, AddClientSpawn, ManagerPlaces
<1>6. state' \in ServerStates /\ ListType'
  BY DEF TypeInv, TypeOK, StateType, ListType, AddClientSpawn, listVars
<1>7. BusyOK'
  BY DEF TypeInv, BusyOK, Current, AddClientSpawn, ManagerStep, listVars, serverVars
<1> QED
  BY <1>2, <1>3, <1>4, <1>5, <1>6, <1>7 DEF TypeInv, TypeOK, StateType

LEMMA EnlistType == ASSUME TypeInv, Enlist PROVE TypeInv'
<1>1. ServerType' /\ HistoryType' /\ fault' \in Faults /\ stateLock' \in {"free", "held"}
  BY ManagerStepType DEF TypeInv, Enlist
<1>2. ManagerType' /\ HandOK'
  <2>1. HandedId[inHand] \in Nat
    BY IdAssumption DEF TypeInv, HandOK, Enlist
  <2> QED
    BY <2>1 DEF TypeInv, TypeOK, ManagerType, HandOK, Enlist, ManagerPlaces
<1>3. state' \in ServerStates /\ ListType' /\ QueueType' /\ HandlerType'
  BY DEF TypeInv, TypeOK, StateType, ListType, QueueType, HandlerType, Enlist,
     listVars, queueVars, handlerVars
<1>4. BusyOK'
  BY DEF TypeInv, BusyOK, Current, Enlist, ManagerStep, listVars, queueVars, serverVars
<1> QED
  BY <1>1, <1>2, <1>3, <1>4 DEF TypeInv, TypeOK, StateType

LEMMA PublishType == ASSUME TypeInv, NEW s \in Orders, Publish(s) PROVE TypeInv'
<1>1. ServerType' /\ HistoryType' /\ fault' \in Faults /\ stateLock' \in {"free", "held"}
  BY ManagerStepType DEF TypeInv, Publish
<1>2. s \in ServerStates
  BY OrdersAssumption
<1>3. ManagerType' /\ HandOK'
  <2>1. mpc' \in {"loop", "shutdown"}
    BY DEF Publish
  <2> QED
    BY <1>2, <2>1 DEF TypeInv, TypeOK, ManagerType, HandOK, Publish, ManagerPlaces, Owners
<1>4. state' \in ServerStates
  BY <1>2 DEF TypeInv, TypeOK, StateType, Publish
<1>5. ListType' /\ QueueType' /\ HandlerType'
  BY DEF TypeInv, TypeOK, ListType, QueueType, HandlerType, Publish, listVars,
     queueVars, handlerVars
<1>6. BusyOK'
  BY DEF TypeInv, BusyOK, Current, Publish, ManagerStep, listVars, queueVars, serverVars
<1> QED
  BY <1>1, <1>3, <1>4, <1>5, <1>6 DEF TypeInv, TypeOK, StateType

LEMMA StopType == ASSUME TypeInv, Stop PROVE TypeInv'
<1>1. ServerType' /\ HistoryType' /\ fault' \in Faults /\ stateLock' \in {"free", "held"}
  BY ManagerStepType DEF TypeInv, Stop
<1>2. ManagerType' /\ HandOK' /\ state' \in ServerStates
  BY DEF TypeInv, TypeOK, ManagerType, HandOK, StateType, Stop, ManagerPlaces,
     ServerStates
<1>3. ListType' /\ QueueType' /\ HandlerType'
  BY DEF TypeInv, TypeOK, ListType, QueueType, HandlerType, Stop, listVars, queueVars,
     handlerVars
<1>4. BusyOK'
  BY DEF TypeInv, BusyOK, Current, Stop, ManagerStep, listVars, queueVars, serverVars
<1> QED
  BY <1>1, <1>2, <1>3, <1>4 DEF TypeInv, TypeOK, StateType

LEMMA DeleteServerType == ASSUME TypeInv, DeleteServer PROVE TypeInv'
<1>1. ListType'
  BY FreshType, PlaceholdersAssumption DEF ListType, DeleteServer
<1>2. QueueType'
  BY EmptyType DEF QueueType, DeleteServer
<1>3. HandlerType'
  BY DEF TypeInv, TypeOK, HandlerType, DeleteServer
<1>4. ServerType' /\ BusyOK'
  <2>1. itDangling' \in BOOLEAN
    BY DEF DeleteServer
  <2> QED
    BY <2>1 DEF ServerType, BusyOK, BusyPlaces, DeleteServer, RunPlaces, ServerStates
<1>5. ManagerType' /\ HandOK'
  <2>1. mpc' \in {"publish", "returned"}
    BY DEF DeleteServer
  <2> QED
    BY <2>1 DEF TypeInv, TypeOK, ManagerType, HandOK, DeleteServer, ManagerPlaces
<1>6. HistoryType'
  BY NoHistoryType DEF HistoryType, DeleteServer
<1>7. StateType' /\ fault' \in Faults
  BY DEF TypeInv, TypeOK, StateType, DeleteServer, ServerStates
<1> QED
  BY <1>1, <1>2, <1>3, <1>4, <1>5, <1>6, <1>7 DEF TypeInv, TypeOK

\* DeleteTerminates, HandlerDangles and RunDangles.
LEMMA FaultyType ==
  ASSUME TypeInv, NEW kind \in Faults, Faulty(kind)
  PROVE  TypeInv'
<1>1. StateType' /\ ListType' /\ QueueType' /\ HandlerType' /\ HistoryType'
  BY DEF TypeInv, TypeOK, StateType, ListType, QueueType, HandlerType, HistoryType,
     Faulty, stateVars, listVars, queueVars, handlerVars, history
<1>2. ServerType'
  BY DEF TypeInv, TypeOK, ServerType, Faulty, serverVars
<1>3. ManagerType' /\ HandOK'
  BY DEF TypeInv, TypeOK, ManagerType, HandOK, Faulty, managerVars
<1>4. BusyOK'
  BY DEF TypeInv, BusyOK, Current, Faulty, listVars, queueVars, serverVars
<1> QED
  BY <1>1, <1>2, <1>3, <1>4 DEF TypeInv, TypeOK, Faulty

-----------------------------------------------------------------------------
(* The steps of a receiver thread. *)

\* A step of a receiver thread that leaves the queues alone, or only adds to inc.
LEMMA HandlerBusy ==
  ASSUME TypeInv, HandlerStep, \A o \in Owners : inc[o] # <<>> => inc'[o] # <<>>
  PROVE  BusyOK'
<1>1. UNCHANGED <<spc, it, clientList>>
  BY DEF HandlerStep, listVars, serverVars
<1>2. clientList \in Seq(Owners)
  BY DEF TypeInv, TypeOK, ListType
<1> QED
  BY <1>1, <1>2, BusyKept

\* HandlerWait, HandlerLoad, HandlerNothing and HandlerIdle change only where the
\* thread is and whether its connection is open.
LEMMA HandlerMoveType ==
  ASSUME TypeInv, NEW c \in Clients,
         HandlerWait(c) \/ HandlerLoad(c) \/ HandlerNothing(c) \/ HandlerIdle(c)
  PROVE  TypeInv'
<1>1. HandlerStep /\ UNCHANGED <<queueVars, history>>
  BY DEF HandlerWait, HandlerLoad, HandlerNothing, HandlerIdle
<1>2. HandlerType'
  BY DEF TypeInv, TypeOK, HandlerType, HandlerPlaces, HandlerWait, HandlerLoad,
     HandlerNothing, HandlerIdle
<1>3. QueueType' /\ HistoryType'
  BY <1>1 DEF TypeInv, TypeOK, QueueType, HistoryType, queueVars, history
<1>4. BusyOK'
  BY <1>1, HandlerBusy DEF queueVars
<1> QED
  BY <1>1, <1>2, <1>3, <1>4, HandlerStepType DEF TypeInv, TypeOK

LEMMA HandlerReceiveType ==
  ASSUME TypeInv, NEW c \in Clients, HandlerReceive(c) PROVE TypeInv'
<1>1. HandlerStep
  BY DEF HandlerReceive
<1>2. PICK new \in IncMessages : inc' = [inc EXCEPT ![c] = Append(@, new)]
  <2> DEFINE parsed(m) == [n |-> taken[c] + 1, code |-> m.code, valid |-> m.valid]
  <2>1. PICK text \in Sent : \E m \in ParsedAs(GetMessageType(text)) :
          inc' = [inc EXCEPT ![c] = Append(@, parsed(m))]
    BY DEF HandlerReceive
  <2>2. PICK m \in ParsedAs(GetMessageType(text)) :
          inc' = [inc EXCEPT ![c] = Append(@, parsed(m))]
    BY <2>1
  <2>3. m.code \in MessageTypes /\ m.valid \in BOOLEAN
    BY TextType, ParsedType
  <2>4. taken[c] + 1 \in Nat
    BY DEF TypeInv, TypeOK, HistoryType
  <2>5. parsed(m) \in IncMessages
    BY <2>3, <2>4 DEF IncMessages
  <2> QED
    BY <2>2, <2>5
<1>3. QueueType'
  BY <1>2, AppendType DEF TypeInv, TypeOK, QueueType, HandlerReceive
<1>4. BusyOK'
  <2>1. inc \in [Owners -> Seq(IncMessages)]
    BY DEF TypeInv, TypeOK, QueueType
  <2>2. ASSUME NEW o \in Owners, inc[o] # <<>> PROVE inc'[o] # <<>>
    <3>1. CASE o = c
      BY <1>2, <2>1, <3>1
    <3>2. CASE o # c
      BY <1>2, <2>1, <2>2, <3>2
    <3> QED
      BY <3>1, <3>2
  <2> QED
    BY <1>1, <2>2, HandlerBusy
<1>5. HandlerType'
  BY DEF TypeInv, TypeOK, HandlerType, HandlerPlaces, HandlerReceive
<1>6. HistoryType'
  BY DEF TypeInv, TypeOK, HistoryType, HandlerReceive
<1> QED
  BY <1>1, <1>3, <1>4, <1>5, <1>6, HandlerStepType DEF TypeInv, TypeOK

LEMMA HandlerSendType ==
  ASSUME TypeInv, NEW c \in Clients, HandlerSend(c) PROVE TypeInv'
<1>1. HandlerStep /\ inc' = inc
  BY DEF HandlerSend
<1>2. out[c] \in Seq(OutMessages) /\ out[c] # <<>>
  BY DEF TypeInv, TypeOK, QueueType, Owners, HandlerSend
<1>3. QueueType'
  <2>1. \/ out' = [out EXCEPT ![c] = Tail(@)]
        \/ out' = [out EXCEPT ![c] = @]
    BY DEF HandlerSend
  <2>2. [out EXCEPT ![c] = @] = out
    BY DEF TypeInv, TypeOK, QueueType
  <2>3. out' = [out EXCEPT ![c] = Tail(@)] \/ out' = out
    BY <2>1, <2>2
  <2>4. out \in [Owners -> Seq(OutMessages)]
    BY DEF TypeInv, TypeOK, QueueType
  <2>5. [out EXCEPT ![c] = Tail(@)] \in [Owners -> Seq(OutMessages)]
    BY <1>2, <2>4, TailType
  <2> QED
    BY <1>1, <2>3, <2>4, <2>5 DEF TypeInv, TypeOK, QueueType
<1>4. HistoryType'
  <2>1. Head(out[c]) \in OutMessages
    BY <1>2
  <2>2. Head(out[c]).req \in Nat
    BY <2>1 DEF OutMessages
  <2>3. \/ answered' = [answered EXCEPT ![c] = Append(@, Head(out[c]).req)]
        \/ answered' = [answered EXCEPT ![c] = @]
    BY DEF HandlerSend
  <2>4. answered \in [Clients -> Seq(Nat)]
    BY DEF TypeInv, TypeOK, HistoryType
  <2>5. [answered EXCEPT ![c] = Append(@, Head(out[c]).req)] \in [Clients -> Seq(Nat)]
    BY <2>2, <2>4, AppendType
  <2>6. [answered EXCEPT ![c] = @] \in [Clients -> Seq(Nat)]
    BY <2>4
  <2>7. answered' \in [Clients -> Seq(Nat)]
    BY <2>3, <2>5, <2>6
  <2> QED
    BY <2>7 DEF TypeInv, TypeOK, HistoryType, HandlerSend
<1>5. HandlerType'
  BY DEF TypeInv, TypeOK, HandlerType, HandlerPlaces, HandlerSend
<1>6. BusyOK'
  BY <1>1, HandlerBusy
<1> QED
  BY <1>1, <1>3, <1>4, <1>5, <1>6, HandlerStepType DEF TypeInv, TypeOK

-----------------------------------------------------------------------------
(* The steps of Server::Run. *)

\* RunStart, RunTop, RunStartUp, RunRestart and RunRead change only the loop's
\* place, its state and m_state.
LEMMA RunStateType ==
  ASSUME TypeInv, RunStart \/ RunTop \/ RunStartUp \/ RunRestart \/ RunRead
  PROVE  TypeInv'
<1>1. RunMove /\ UNCHANGED <<queueVars, dealt, replied, it, itDangling>>
  BY DEF RunStart, RunTop, RunStartUp, RunRestart, RunRead
<1>2. ServerType' /\ BusyOK'
  <2>1. spc' \in RunPlaces \ BusyPlaces
    BY DEF RunStart, RunTop, RunStartUp, RunRestart, RunRead, RunPlaces, BusyPlaces
  <2>2. sst' \in ServerStates
    BY DEF TypeInv, TypeOK, ServerType, StateType, GetState, RunStart, RunTop,
       RunStartUp, RunRestart, RunRead
  <2>3. itDangling' \in BOOLEAN
    BY <1>1 DEF TypeInv, TypeOK, ServerType
  <2> QED
    BY <1>1, <2>1, <2>2, <2>3 DEF TypeInv, TypeOK, ServerType, BusyOK
<1>3. StateType'
  BY DEF TypeInv, TypeOK, StateType, ServerType, ServerStates, RunMove, RunStart, RunTop,
     RunStartUp, RunRestart, RunRead
<1>4. QueueType' /\ HistoryType'
  BY <1>1 DEF TypeInv, TypeOK, QueueType, HistoryType, queueVars, RunMove, RunStep
<1> QED
  BY <1>1, <1>2, <1>3, <1>4, RunMoveType DEF TypeInv, TypeOK

LEMMA RunRunningType == ASSUME TypeInv, RunRunning PROVE TypeInv'
<1>1. RunMove /\ UNCHANGED <<state, queueVars, dealt, replied, sst>>
  BY DEF RunRunning
<1>2. ServerType' /\ BusyOK'
  <2>1. itDangling' \in BOOLEAN
    BY DEF RunRunning
  <2> QED
    BY <2>1 DEF TypeInv, TypeOK, ServerType, BusyOK, BusyPlaces, RunPlaces, RunRunning,
       Begin
<1>3. StateType' /\ QueueType' /\ HistoryType'
  BY <1>1 DEF TypeInv, TypeOK, StateType, QueueType, HistoryType, queueVars, RunMove,
     RunStep
<1> QED
  BY <1>1, <1>2, <1>3, RunMoveType DEF TypeInv, TypeOK

LEMMA RunResetType == ASSUME TypeInv, RunReset PROVE TypeInv'
<1>1. RunStep /\ UNCHANGED <<clientList, dangling, hpc, queueVars, dealt, replied>>
  BY DEF RunReset
<1>2. ServerType' /\ BusyOK'
  <2>1. itDangling' \in BOOLEAN
    BY DEF TypeInv, TypeOK, ServerType, RunReset
  <2> QED
    BY <2>1 DEF TypeInv, TypeOK, ServerType, BusyOK, BusyPlaces, RunPlaces, RunReset
<1>3. StateType'
  BY DEF StateType, ServerStates, RunReset, LockChange
<1>4. ListType' /\ HandlerType' /\ QueueType' /\ HistoryType'
  BY <1>1 DEF TypeInv, TypeOK, ListType, HandlerType, QueueType, HistoryType, queueVars,
     RunStep
<1> QED
  BY <1>1, <1>2, <1>3, <1>4, RunStepType DEF TypeInv, TypeOK

LEMMA RunJoinedType == ASSUME TypeInv, RunJoined PROVE TypeInv'
<1>1. RunStep /\ UNCHANGED <<state, dealt, replied, sst, it, itDangling>>
  BY DEF RunJoined
<1>2. ServerType' /\ BusyOK'
  <2>1. itDangling' \in BOOLEAN
    BY <1>1 DEF TypeInv, TypeOK, ServerType
  <2> QED
    BY <1>1, <2>1 DEF TypeInv, TypeOK, ServerType, BusyOK, BusyPlaces, RunPlaces,
       RunJoined
<1>3. StateType' /\ HistoryType'
  BY <1>1 DEF TypeInv, TypeOK, StateType, HistoryType, RunStep, RunJoined
<1>4. ListType'
  BY <1>1 DEF TypeInv, TypeOK, ListType, RunStep, RunJoined
<1>5. QueueType'
  BY EmptyType DEF QueueType, RunJoined
<1>6. HandlerType'
  BY <1>1 DEF TypeInv, TypeOK, HandlerType, HandlerPlaces, RunStep, RunJoined
<1> QED
  BY <1>1, <1>2, <1>3, <1>4, <1>5, <1>6, RunStepType DEF TypeInv, TypeOK

LEMMA RunScanType == ASSUME TypeInv, RunScan PROVE TypeInv'
<1>1. RunMove /\ UNCHANGED <<state, queueVars, dealt, replied, sst, itDangling>>
  BY DEF RunScan
<1>2. ServerType' /\ BusyOK'
  <2>1. itDangling' \in BOOLEAN
    BY <1>1 DEF TypeInv, TypeOK, ServerType
  <2>2. spc' \in {"scan", "read"}
    BY DEF RunScan
  <2>3. it' \in Nat \ {0}
    BY DEF TypeInv, TypeOK, ServerType, RunScan
  <2> QED
    BY <1>1, <2>1, <2>2, <2>3 DEF TypeInv, TypeOK, ServerType, BusyOK, BusyPlaces,
       RunPlaces
<1>3. StateType' /\ QueueType' /\ HistoryType'
  BY <1>1 DEF TypeInv, TypeOK, StateType, QueueType, HistoryType, queueVars, RunMove,
     RunStep
<1> QED
  BY <1>1, <1>2, <1>3, RunMoveType DEF TypeInv, TypeOK

\* RunMessage, RecordMessage, MessageRecorded, ProcessMessageToUser and Find: the
\* loop stays at its message, which it may deal with.
LEMMA RunBusyType ==
  ASSUME TypeInv, RunMove, UNCHANGED <<state, inc, sst, it, itDangling>>,
         it \in 1 .. Len(clientList), inc[Current] # <<>>,
         spc' \in BusyPlaces, UNCHANGED dealt \/ DealtWith,
         out' \in [Owners -> Seq(OutMessages)], replied' \in [Clients -> Seq(Nat)]
  PROVE  TypeInv'
<1>1. ServerType' /\ BusyOK'
  <2>1. itDangling' \in BOOLEAN
    BY DEF TypeInv, TypeOK, ServerType
  <2>2. ServerType'
    BY <2>1 DEF TypeInv, TypeOK, ServerType, BusyPlaces, RunPlaces
  <2>3. BusyOK'
    BY DEF BusyOK, Current, RunMove
  <2> QED
    BY <2>2, <2>3
<1>2. HistoryType'
  <2>1. dealt \in [Clients -> Seq(Nat)]
    BY DEF TypeInv, TypeOK, HistoryType
  <2>2. Message.n \in Nat
    BY MessageType DEF TypeInv
  <2>3. [dealt EXCEPT ![Current] = Append(@, Message.n)] \in [Clients -> Seq(Nat)]
    BY <2>1, <2>2, AppendType
  <2>4. dealt' \in [Clients -> Seq(Nat)]
    BY <2>1, <2>3 DEF DealtWith
  <2> QED
    BY <2>4 DEF TypeInv, TypeOK, HistoryType, RunMove, RunStep
<1>3. StateType' /\ QueueType'
  BY DEF TypeInv, TypeOK, StateType, QueueType, RunMove
<1> QED
  BY <1>1, <1>2, <1>3, RunMoveType DEF TypeInv, TypeOK

LEMMA RunMessageType == ASSUME TypeInv, RunMessage PROVE TypeInv'
<1>1. RunMove /\ UNCHANGED <<state, queueVars, replied, sst, it, itDangling>>
  BY DEF RunMessage
<1>2. it \in 1 .. Len(clientList) /\ inc[Current] # <<>>
  BY DEF TypeInv, TypeOK, ServerType, ListType, RunMessage, AtEnd
<1>3. spc' \in BusyPlaces /\ (UNCHANGED dealt \/ DealtWith)
  BY DEF RunMessage, BusyPlaces
<1>4. out' \in [Owners -> Seq(OutMessages)] /\ replied' \in [Clients -> Seq(Nat)]
  BY <1>1 DEF TypeInv, TypeOK, QueueType, HistoryType, queueVars
<1> QED
  BY <1>1, <1>2, <1>3, <1>4, RunBusyType DEF queueVars

LEMMA RecordType ==
  ASSUME TypeInv, RecordMessage \/ MessageRecorded PROVE TypeInv'
<1>1. RunMove /\ UNCHANGED <<state, queueVars, replied, sst, it, itDangling>>
  BY DEF RecordMessage, MessageRecorded
<1>2. it \in 1 .. Len(clientList) /\ inc[Current] # <<>>
  BY DEF TypeInv, BusyOK, BusyPlaces, RecordMessage, MessageRecorded
<1>3. spc' \in BusyPlaces /\ (UNCHANGED dealt \/ DealtWith)
  BY DEF RecordMessage, MessageRecorded, BusyPlaces
<1>4. out' \in [Owners -> Seq(OutMessages)] /\ replied' \in [Clients -> Seq(Nat)]
  BY <1>1 DEF TypeInv, TypeOK, QueueType, HistoryType, queueVars
<1> QED
  BY <1>1, <1>2, <1>3, <1>4, RunBusyType DEF queueVars

LEMMA ProcessMessageToUserType ==
  ASSUME TypeInv, ProcessMessageToUser PROVE TypeInv'
<1>1. RunMove /\ UNCHANGED <<state, inc, replied, sst, it, itDangling>> /\ DealtWith
  BY DEF ProcessMessageToUser
<1>2. it \in 1 .. Len(clientList) /\ inc[Current] # <<>> /\ Message.n \in Nat
  BY BusyMessage DEF ProcessMessageToUser, BusyPlaces
<1>3. spc' \in BusyPlaces
  BY DEF ProcessMessageToUser, BusyPlaces
<1>4. out' \in [Owners -> Seq(OutMessages)]
  <2> DEFINE new == [type |-> "MESSAGE_TO_USER", req |-> Message.n, freed |-> TRUE]
  <2>1. out \in [Owners -> Seq(OutMessages)]
    BY DEF TypeInv, TypeOK, QueueType
  <2>2. new \in OutMessages
    BY <1>2 DEF OutMessages, MessageTypes
  <2>3. out' = [out EXCEPT ![clientList[1]] = Append(@, new)]
    BY DEF ProcessMessageToUser
  <2> HIDE DEF new
  <2> QED
    BY <2>1, <2>2, <2>3, AppendType
<1>5. replied' \in [Clients -> Seq(Nat)]
  BY <1>1 DEF TypeInv, TypeOK, HistoryType
<1> QED
  BY <1>1, <1>2, <1>3, <1>4, <1>5, RunBusyType

LEMMA FindType == ASSUME TypeInv, Find PROVE TypeInv'
<1>1. RunMove /\ UNCHANGED <<state, inc, sst, it, itDangling>> /\ DealtWith
  BY DEF Find
<1>2. it \in 1 .. Len(clientList) /\ inc[Current] # <<>> /\ Message.n \in Nat
  BY BusyMessage DEF Find, BusyPlaces
<1>3. spc' \in BusyPlaces
  BY DEF Find, BusyPlaces
<1>4. out \in [Owners -> Seq(OutMessages)] /\ replied \in [Clients -> Seq(Nat)]
  BY DEF TypeInv, TypeOK, QueueType, HistoryType
<1>5. out' \in [Owners -> Seq(OutMessages)] /\ replied' \in [Clients -> Seq(Nat)]
  <2> DEFINE new == [type |-> ReplyTo[Message.code], req |-> Message.n, freed |-> FALSE]
  <2>1. CASE UNCHANGED <<out, replied>>
    BY <1>4, <2>1
  <2>2. CASE ~UNCHANGED <<out, replied>>
    <3>1. /\ Message.code \in DOMAIN ReplyTo
          /\ out' = [out EXCEPT ![Current] = Append(@, new)]
          /\ replied' = [replied EXCEPT ![Current] = Append(@, Message.n)]
      BY <2>2 DEF Find
    <3>2. new \in OutMessages
      BY <1>2, <3>1, ReplyType DEF OutMessages
    <3> HIDE DEF new
    <3>3. out' \in [Owners -> Seq(OutMessages)]
      BY <1>4, <3>1, <3>2, AppendType
    <3> QED
      BY <1>2, <1>4, <3>1, <3>3, AppendType
  <2> QED
    BY <2>1, <2>2
<1> QED
  BY <1>1, <1>2, <1>3, <1>5, RunBusyType

LEMMA RunPopType == ASSUME TypeInv, RunPop PROVE TypeInv'
<1>1. RunMove /\ UNCHANGED <<state, out, dealt, replied, sst, it, itDangling>>
  BY DEF RunPop
<1>2. inc[Current] # <<>>
  BY BusyMessage DEF RunPop, BusyPlaces
<1>3. QueueType'
  BY <1>2, TailType DEF TypeInv, TypeOK, QueueType, RunPop, Popped
<1>4. ServerType' /\ BusyOK'
  <2>1. itDangling' \in BOOLEAN
    BY <1>1 DEF TypeInv, TypeOK, ServerType
  <2> QED
    BY <1>1, <2>1 DEF TypeInv, TypeOK, ServerType, BusyOK, BusyPlaces, RunPlaces, RunPop
<1>5. StateType' /\ HistoryType'
  BY <1>1 DEF TypeInv, TypeOK, StateType, HistoryType, RunMove, RunStep
<1> QED
  BY <1>1, <1>3, <1>4, <1>5, RunMoveType DEF TypeInv, TypeOK

-----------------------------------------------------------------------------
LEMMA InitType == Init => TypeInv
<1> SUFFICES ASSUME Init PROVE TypeInv
  OBVIOUS
<1>1. StateType /\ HandlerType
  BY DEF Init, StateType, HandlerType, ServerStates, HandlerPlaces
<1>2. ListType
  BY FreshType, PlaceholdersAssumption DEF Init, ListType
<1>3. QueueType
  BY EmptyType DEF Init, QueueType
<1>4. ServerType
  <2>1. itDangling \in BOOLEAN
    BY DEF Init
  <2> QED
    BY <2>1 DEF Init, ServerType, ServerStates, RunPlaces
<1>5. ManagerType
  BY DEF Init, ManagerType, ServerStates, ManagerPlaces, Owners
<1>6. HistoryType
  BY NoHistoryType DEF Init, HistoryType
<1> QED
  BY <1>1, <1>2, <1>3, <1>4, <1>5, <1>6
     DEF Init, TypeInv, TypeOK, HandOK, BusyOK, BusyPlaces, Faults

LEMMA StutterType == ASSUME TypeInv, UNCHANGED vars PROVE TypeInv'
<1>1. StateType' /\ ListType' /\ QueueType' /\ HandlerType' /\ HistoryType'
  BY DEF TypeInv, TypeOK, StateType, ListType, QueueType, HandlerType, HistoryType,
     vars, stateVars, listVars, queueVars, handlerVars, history
<1>2. ServerType'
  BY DEF TypeInv, TypeOK, ServerType, vars, serverVars
<1>3. ManagerType' /\ HandOK'
  BY DEF TypeInv, TypeOK, ManagerType, HandOK, vars, managerVars
<1>4. BusyOK'
  BY DEF TypeInv, BusyOK, Current, vars, listVars, queueVars, serverVars
<1> QED
  BY <1>1, <1>2, <1>3, <1>4 DEF TypeInv, TypeOK, vars

LEMMA NextType == TypeInv /\ [Next]_vars => TypeInv'
<1> SUFFICES ASSUME TypeInv, [Next]_vars PROVE TypeInv'
  OBVIOUS
<1>1. ASSUME NEW c \in Clients, Dispatch(c) \/ Handler(c) PROVE TypeInv'
  <2>1. CASE Dispatch(c)
    BY <2>1, DispatchType
  <2>2. CASE HandlerReceive(c) \/ HandlerSend(c)
    BY <2>2, HandlerReceiveType, HandlerSendType
  <2>3. CASE HandlerWait(c) \/ HandlerLoad(c) \/ HandlerNothing(c) \/ HandlerIdle(c)
    BY <2>3, HandlerMoveType
  <2>4. CASE HandlerDangles(c)
    BY <2>4, FaultyType DEF HandlerDangles, Faults
  <2> QED
    BY <1>1, <2>1, <2>2, <2>3, <2>4 DEF Handler
<1>2. CASE Manager
  <2>1. CASE AddClientRefused \/ AddClientAppend \/ AddClientSpawn
    BY <2>1, AddClientRefusedType, AddClientAppendType, AddClientSpawnType
  <2>2. CASE SearchForMessages \/ Enlist \/ Stop \/ DeleteServer
    BY <2>2, SearchForMessagesType, EnlistType, StopType, DeleteServerType
  <2>3. CASE DeleteTerminates
    BY <2>3, FaultyType DEF DeleteTerminates, Faults
  <2> QED
    BY <1>2, <2>1, <2>2, <2>3 DEF Manager
<1>3. CASE Run
  <2>1. CASE RunStart \/ RunTop \/ RunStartUp \/ RunRestart \/ RunRead
    BY <2>1, RunStateType
  <2>2. CASE RunRunning \/ RunReset \/ RunJoined \/ RunScan \/ RunPop
    BY <2>2, RunRunningType, RunResetType, RunJoinedType, RunScanType, RunPopType
  <2>3. CASE RunMessage \/ RecordMessage \/ MessageRecorded
    BY <2>3, RunMessageType, RecordType
  <2>4. CASE ProcessMessageToUser \/ Find
    BY <2>4, ProcessMessageToUserType, FindType
  <2>5. CASE RunDangles
    BY <2>5, FaultyType DEF RunDangles, Faults
  <2> QED
    BY <1>3, <2>1, <2>2, <2>3, <2>4, <2>5 DEF Run
<1>4. CASE \E s \in Orders : Publish(s)
  BY <1>4, PublishType
<1>5. CASE UNCHANGED vars
  BY <1>5, StutterType
<1> QED
  BY <1>1, <1>2, <1>3, <1>4, <1>5 DEF Next, Ended

\* The inductive strengthening of TypeOK holds in every reachable state: the types,
\* and what each place of Run says of its iterator (Server.cpp:167-246).
THEOREM TypeInvHolds == Spec => []TypeInv
  BY InitType, NextType, PTL DEF Spec

\* Every variable keeps its type, for every set of clients, every number of
\* elements the list starts with and every bound: Server's types.
THEOREM TypeCorrect == Spec => []TypeOK
<1>1. TypeInv => TypeOK
  BY DEF TypeInv
<1> QED
  BY <1>1, TypeInvHolds, PTL
=============================================================================
