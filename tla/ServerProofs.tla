---------------------------- MODULE ServerProofs ----------------------------
(* The safety properties of Server, for every value of its constants, each from
   an inductive invariant over the steps of all threads. *)
EXTENDS ServerTypeProofs, FiniteSetTheorems

-----------------------------------------------------------------------------
(* ResetStable is inductive: whoever sets the state finds the mutex free. *)

LEMMA ResetStableInit == Init => ResetStable
  BY DEF Init, ResetStable

LEMMA ResetStableNext == ResetStable /\ [Next]_vars => ResetStable'
<1> SUFFICES ASSUME ResetStable, [Next]_vars PROVE ResetStable'
  OBVIOUS
<1>1. ASSUME NEW c \in Clients, Dispatch(c) \/ Handler(c) PROVE ResetStable'
  <2>1. CASE Dispatch(c)
    BY <2>1 DEF ResetStable, Dispatch, stateVars
  <2>2. CASE Handler(c)
    <3>1. UNCHANGED <<state, stateLock, spc>>
      BY <2>2 DEF Handler, HandlerWait, HandlerLoad, HandlerReceive, HandlerNothing,
         HandlerSend, HandlerIdle, HandlerDangles, Faulty, HandlerStep, stateVars,
         serverVars
    <3> QED
      BY <3>1 DEF ResetStable
  <2> QED
    BY <1>1, <2>1, <2>2
<1>2. CASE Manager
  <2>1. CASE AddClientRefused \/ SearchForMessages \/ AddClientSpawn \/ Enlist
    BY <2>1 DEF ResetStable, AddClientRefused, SearchForMessages, AddClientSpawn, Enlist,
       ManagerStep, serverVars
  <2>2. CASE AddClientAppend
    BY <2>2 DEF ResetStable, AddClientAppend, stateVars
  <2>3. CASE Stop
    BY <2>3 DEF ResetStable, Stop, ManagerStep, serverVars
  <2>4. CASE DeleteServer
    BY <2>4 DEF ResetStable, DeleteServer
  <2>5. CASE DeleteTerminates
    BY <2>5 DEF ResetStable, DeleteTerminates, Faulty, stateVars, serverVars
  <2> QED
    BY <1>2, <2>1, <2>2, <2>3, <2>4, <2>5 DEF Manager
<1>3. CASE Run
  <2>1. CASE RunStart \/ RunStartUp \/ RunRestart
    BY <2>1 DEF ResetStable, RunStart, RunStartUp, RunRestart, RunMove
  <2>2. CASE RunReset \/ RunJoined
    BY <2>2 DEF ResetStable, RunReset, LockChange, RunJoined
  <2>3. CASE RunTop \/ RunRunning \/ RunRead \/ RunScan \/ RunPop
    BY <2>3 DEF ResetStable, RunTop, RunRunning, RunRead, RunScan, RunPop, RunMove
  <2>4. CASE \/ RunMessage \/ RecordMessage \/ MessageRecorded
             \/ ProcessMessageToUser \/ Find
    BY <2>4 DEF ResetStable, RunMessage, RecordMessage, MessageRecorded,
       ProcessMessageToUser, Find, RunMove
  <2>5. CASE RunDangles
    BY <2>5 DEF ResetStable, RunDangles, Faulty, stateVars, serverVars
  <2> QED
    BY <1>3, <2>1, <2>2, <2>3, <2>4, <2>5 DEF Run
<1>4. CASE \E s \in Orders : Publish(s)
  BY <1>4 DEF ResetStable, Publish, ManagerStep, serverVars
<1>5. CASE UNCHANGED vars
  BY <1>5 DEF ResetStable, vars, stateVars, serverVars
<1> QED
  BY <1>1, <1>2, <1>3, <1>4, <1>5 DEF Next, Ended

\* The RESET section of Server::Run is exclusive: from LockChange to Unlock the
\* state stays RESET, and the mutex is held exactly then (Server.cpp:250-268).
THEOREM ResetIsStable == Spec => []ResetStable
  BY ResetStableInit, ResetStableNext, PTL DEF Spec

-----------------------------------------------------------------------------
(* UniqueLogin: when AddClient looks for the id of its client in the master list,
   the ids of all clients of clientList are there. *)

Listing == {"search", "searching", "enlisting"}

\* The clients of clientList were enlisted, but for the one in hand, which Enlist
\* is about to.
Enlisted ==
    \A i \in 1 .. Len(clientList) :
       clientList[i] \in Clients =>
          \/ HandedId[clientList[i]] \in masterList
          \/ mpc \in Listing /\ clientList[i] = inHand

LoginInv == TypeInv /\ Enlisted /\ UniqueLogin

LEMMA FreshHasNoClient == \A i \in 1 .. Len(Fresh) : Fresh[i] \notin Clients
  BY ClientsAssumption, PlaceholdersAssumption DEF Fresh

LEMMA LoginInit == Init => LoginInv
  BY InitType, FreshHasNoClient DEF Init, LoginInv, Enlisted, UniqueLogin

\* Steps that leave clientList alone, and the master list and the client in hand
\* too, or take none from them.
LEMMA LoginKept ==
  ASSUME Enlisted, UniqueLogin, clientList' = clientList, masterList' = masterList,
         (mpc \in Listing => mpc' \in Listing /\ inHand' = inHand)
  PROVE  Enlisted' /\ UniqueLogin'
  BY DEF Enlisted, UniqueLogin

LEMMA LoginNext == LoginInv /\ [Next]_vars => (Enlisted /\ UniqueLogin)'
<1> SUFFICES ASSUME LoginInv, [Next]_vars PROVE (Enlisted /\ UniqueLogin)'
  OBVIOUS
<1> USE DEF LoginInv
<1>1. ASSUME NEW c \in Clients, Dispatch(c) \/ Handler(c) PROVE (Enlisted /\ UniqueLogin)'
  <2>1. CASE Dispatch(c)
    BY <2>1, LoginKept DEF Dispatch, Listing, listVars
  <2>2. CASE Handler(c)
    <3>1. UNCHANGED <<clientList, masterList, mpc, inHand>>
      BY <2>2 DEF Handler, HandlerWait, HandlerLoad, HandlerReceive, HandlerNothing,
         HandlerSend, HandlerIdle, HandlerDangles, Faulty, HandlerStep, listVars,
         managerVars
    <3> QED
      BY <3>1, LoginKept
  <2> QED
    BY <1>1, <2>1, <2>2
<1>2. CASE Manager
  <2>1. CASE AddClientRefused \/ SearchForMessages \/ AddClientSpawn
    BY <2>1, LoginKept DEF AddClientRefused, SearchForMessages, AddClientSpawn, Listing,
       listVars
  <2>2. CASE AddClientAppend
    <3>1. /\ inHand \in Clients /\ HandedId[inHand] \notin masterList
          /\ mpc = "adding" /\ mpc' = "search" /\ UNCHANGED <<inHand, masterList>>
      BY <2>2 DEF AddClientAppend, AlreadyLoggedIn, TypeInv, HandOK
    <3>2. clientList \in Seq(Owners) /\ clientList' = Append(clientList, inHand)
      BY <2>2 DEF AddClientAppend, TypeInv, TypeOK, ListType
    <3>3. /\ Len(clientList') = Len(clientList) + 1
          /\ \A i \in 1 .. Len(clientList) : clientList'[i] = clientList[i]
          /\ clientList'[Len(clientList) + 1] = inHand
      BY <3>2
    <3>4. \A i \in 1 .. Len(clientList) :
             clientList[i] \in Clients => HandedId[clientList[i]] \in masterList
      BY <3>1 DEF Enlisted, Listing
    <3>5. Enlisted'
      BY <3>1, <3>3, <3>4 DEF Enlisted, Listing
    <3>6. UniqueLogin'
      BY <3>1, <3>3, <3>4 DEF UniqueLogin
    <3> QED
      BY <3>5, <3>6
  <2>3. CASE Enlist
    <3>1. /\ clientList' = clientList /\ mpc = "enlisting" /\ mpc' = "publish"
          /\ masterList' = masterList \cup {HandedId[inHand]}
      BY <2>3 DEF Enlist, listVars
    <3> QED
      BY <3>1 DEF Enlisted, UniqueLogin, Listing
  <2>4. CASE Stop
    BY <2>4, LoginKept DEF Stop, Listing, listVars
  <2>5. CASE DeleteServer
    BY <2>5, FreshHasNoClient DEF DeleteServer, Enlisted, UniqueLogin
  <2>6. CASE DeleteTerminates
    BY <2>6, LoginKept DEF DeleteTerminates, Faulty, listVars, managerVars
  <2> QED
    BY <1>2, <2>1, <2>2, <2>3, <2>4, <2>5, <2>6 DEF Manager
<1>3. CASE Run
  <2>1. CASE RunJoined
    <3>1. clientList' = <<>>
      BY <2>1 DEF RunJoined
    <3> QED
      BY <3>1 DEF Enlisted, UniqueLogin
  <2>2. CASE ~RunJoined
    <3>1. UNCHANGED <<clientList, masterList, mpc, inHand>>
      BY <1>3, <2>2 DEF Run, RunStart, RunTop, RunStartUp, RunRunning, RunReset,
         RunRestart, RunRead, RunScan, RunMessage, ProcessMessageToUser, RecordMessage,
         MessageRecorded, Find, RunPop, RunDangles, Faulty, RunMove, RunStep,
         managerVars, listVars
    <3> QED
      BY <3>1, LoginKept
  <2> QED
    BY <2>1, <2>2
<1>4. CASE \E s \in Orders : Publish(s)
  BY <1>4, LoginKept DEF Publish, Listing, listVars
<1>5. CASE UNCHANGED vars
  BY <1>5, LoginKept DEF vars, listVars, managerVars
<1> QED
  BY <1>1, <1>2, <1>3, <1>4, <1>5 DEF Next, Ended

\* The strengthening of UniqueLogin holds: an id in clientList is in the master
\* list, or belongs to the client AddClient is being called for (Server.cpp:128-146).
THEOREM LoginInvHolds == Spec => []LoginInv
<1>1. LoginInv /\ [Next]_vars => LoginInv'
  BY LoginNext, NextType DEF LoginInv
<1> QED
  BY <1>1, LoginInit, PTL DEF Spec

\* AddClient serves a user once, however logins, resets and the deletion of the
\* server interleave (Server.cpp:128-146, ServerManager.cpp:202-231).
THEOREM LoginIsUnique == Spec => []UniqueLogin
<1>1. LoginInv => UniqueLogin
  BY DEF LoginInv
<1> QED
  BY <1>1, LoginInvHolds, PTL

-----------------------------------------------------------------------------
(* HandlerEntry: the element a receiver thread was started for leaves the list
   only in the RESET section, which joins that thread first, and no thread is
   started there: whoever resets the server has left AddClient for good. *)

Resetting == state = "RESET" \/ sst = "RESET" \/ spc \in {"reset", "restart"}
ResettingStops == Resetting => mpc \in {"shutdown", "joining"}

InList(c) == \E i \in 1 .. Len(clientList) : clientList[i] = c
InHandListed == mpc \in {"search", "searching"} => InList(inHand)

EntryInv == TypeInv /\ ResettingStops /\ InHandListed /\ HandlerEntry

LEMMA EntryInit == Init => EntryInv
  BY InitType DEF Init, EntryInv, ResettingStops, Resetting, InHandListed, HandlerEntry,
     Joinable

\* Server::Run gets into the RESET section only by a RESET that was published.
LEMMA RunResetting == ASSUME Run PROVE (Resetting' => Resetting) /\ mpc' = mpc
<1>1. CASE RunStart \/ RunStartUp \/ RunRead
  BY <1>1 DEF Resetting, RunStart, RunStartUp, RunRead, GetState, RunMove, RunStep,
     managerVars
<1>2. CASE RunReset \/ RunJoined \/ RunRestart
  BY <1>2 DEF Resetting, RunReset, RunJoined, RunRestart, RunMove, RunStep, managerVars
<1>3. CASE RunTop \/ RunRunning \/ RunScan \/ RunPop
  BY <1>3 DEF Resetting, RunTop, RunRunning, RunScan, RunPop, RunMove, RunStep,
     managerVars
<1>4. CASE \/ RunMessage \/ RecordMessage \/ MessageRecorded
           \/ ProcessMessageToUser \/ Find
  BY <1>4 DEF Resetting, RunMessage, RecordMessage, MessageRecorded,
     ProcessMessageToUser, Find, RunMove, RunStep, managerVars
<1>5. CASE RunDangles
  BY <1>5 DEF Resetting, RunDangles, Faulty, stateVars, serverVars, managerVars
<1> QED
  BY <1>1, <1>2, <1>3, <1>4, <1>5 DEF Run

LEMMA ResettingNext == ResettingStops /\ [Next]_vars => ResettingStops'
<1> SUFFICES ASSUME ResettingStops, [Next]_vars PROVE ResettingStops'
  OBVIOUS
<1>1. ASSUME NEW c \in Clients, Dispatch(c) \/ Handler(c) PROVE ResettingStops'
  <2>1. CASE Dispatch(c)
    BY <2>1 DEF ResettingStops, Resetting, Dispatch, stateVars
  <2>2. CASE Handler(c)
    BY <2>2 DEF ResettingStops, Resetting, Handler, HandlerWait, HandlerLoad,
       HandlerReceive, HandlerNothing, HandlerSend, HandlerIdle, HandlerDangles, Faulty,
       HandlerStep, stateVars, serverVars, managerVars
  <2> QED
    BY <1>1, <2>1, <2>2
<1>2. CASE Manager
  BY <1>2 DEF ResettingStops, Resetting, Manager, AddClientRefused, AddClientAppend,
     SearchForMessages, AddClientSpawn, Enlist, Stop, DeleteServer, DeleteTerminates,
     Faulty, ManagerStep, stateVars, serverVars, managerVars
<1>3. CASE Run
  BY <1>3, RunResetting DEF ResettingStops
<1>4. CASE \E s \in Orders : Publish(s)
  BY <1>4 DEF ResettingStops, Resetting, Publish, ManagerStep, serverVars
<1>5. CASE UNCHANGED vars
  BY <1>5 DEF ResettingStops, Resetting, vars, stateVars, serverVars, managerVars
<1> QED
  BY <1>1, <1>2, <1>3, <1>4, <1>5 DEF Next, Ended

\* Steps that start no receiver thread, take nothing from clientList and do not
\* change the client in hand while AddClient is at work on it.
LEMMA EntryKept ==
  ASSUME InHandListed, HandlerEntry, Joinable' \subseteq Joinable,
         \A c : InList(c) => InList(c)',
         mpc' \in {"search", "searching"} =>
            mpc \in {"search", "searching"} /\ inHand' = inHand
  PROVE  (InHandListed /\ HandlerEntry)'
<1>1. HandlerEntry'
  <2>1. \A c \in Joinable : InList(c)
    BY DEF HandlerEntry, InList
  <2>2. \A c \in Joinable' : InList(c)'
    BY <2>1
  <2> QED
    BY <2>2 DEF HandlerEntry, InList
<1>2. InHandListed'
  <2> SUFFICES ASSUME mpc' \in {"search", "searching"} PROVE InList(inHand)'
    BY DEF InHandListed
  <2>1. InList(inHand) /\ inHand' = inHand
    BY DEF InHandListed
  <2> QED
    BY <2>1 DEF InList
<1> QED
  BY <1>1, <1>2

LEMMA EntryNext == EntryInv /\ [Next]_vars => (InHandListed /\ HandlerEntry)'
<1> SUFFICES ASSUME EntryInv, [Next]_vars PROVE (InHandListed /\ HandlerEntry)'
  OBVIOUS
<1> USE DEF EntryInv
<1>1. ASSUME NEW c \in Clients, Dispatch(c) \/ Handler(c)
      PROVE  (InHandListed /\ HandlerEntry)'
  <2>1. CASE Dispatch(c)
    <3>1. UNCHANGED <<clientList, hpc>> /\ mpc' = "adding"
      BY <2>1 DEF Dispatch, listVars, handlerVars
    <3> QED
      BY <3>1, EntryKept DEF InList, Joinable
  <2>2. CASE Handler(c)
    <3>1. HandlerStep \/ UNCHANGED <<listVars, managerVars, handlerVars>>
      BY <2>2 DEF Handler, HandlerWait, HandlerLoad, HandlerReceive, HandlerNothing,
         HandlerSend, HandlerIdle, HandlerDangles, Faulty
    <3>2. UNCHANGED <<clientList, mpc, inHand>>
      BY <3>1 DEF HandlerStep, listVars, managerVars
    <3>3. Joinable' = Joinable
      BY <2>2 DEF Joinable, Handler, HandlerWait, HandlerLoad, HandlerReceive,
         HandlerNothing, HandlerSend, HandlerIdle, HandlerDangles, Faulty, handlerVars,
         TypeInv, TypeOK, HandlerType
    <3> QED
      BY <3>2, <3>3, EntryKept DEF InList
  <2> QED
    BY <1>1, <2>1, <2>2
<1>2. CASE Manager
  <2>1. CASE AddClientRefused \/ SearchForMessages \/ Enlist \/ Stop \/ DeleteTerminates
    <3>1. UNCHANGED <<clientList, hpc>> /\ inHand' = inHand
      BY <2>1 DEF AddClientRefused, SearchForMessages, Enlist, Stop, DeleteTerminates,
         Faulty, listVars, handlerVars, managerVars
    <3>2. mpc' \in {"search", "searching"} => mpc \in {"search", "searching"}
      BY <2>1 DEF AddClientRefused, SearchForMessages, Enlist, Stop, DeleteTerminates,
         Faulty, managerVars
    <3> QED
      BY <3>1, <3>2, EntryKept DEF InList, Joinable
  <2>2. CASE AddClientAppend
    <3>1. /\ clientList \in Seq(Owners) /\ clientList' = Append(clientList, inHand)
          /\ UNCHANGED <<hpc, inHand>>
      BY <2>2 DEF AddClientAppend, handlerVars, TypeInv, TypeOK, ListType
    <3>2. /\ Len(clientList') = Len(clientList) + 1 /\ Len(clientList) \in Nat
          /\ \A i \in 1 .. Len(clientList) : clientList'[i] = clientList[i]
          /\ clientList'[Len(clientList) + 1] = inHand
      BY <3>1
    <3>3. InHandListed'
      BY <3>1, <3>2 DEF InHandListed, InList
    <3>4. HandlerEntry'
      <4>1. Joinable' = Joinable
        BY <3>1 DEF Joinable
      <4> QED
        BY <3>2, <4>1 DEF HandlerEntry
    <3> QED
      BY <3>3, <3>4
  <2>3. CASE AddClientSpawn
    <3>1. /\ mpc = "searching" /\ mpc' = "enlisting" /\ clientList' = clientList
          /\ Joinable' \subseteq Joinable \cup {inHand}
      BY <2>3 DEF AddClientSpawn, Joinable, listVars, TypeInv, TypeOK, HandlerType
    <3>2. InList(inHand)
      BY <3>1 DEF InHandListed
    <3> QED
      BY <3>1, <3>2 DEF HandlerEntry, InHandListed, InList
  <2>4. CASE DeleteServer
    <3>1. Joinable' = {} /\ mpc' \notin {"search", "searching"}
      BY <2>4 DEF DeleteServer, Joinable
    <3> QED
      BY <3>1 DEF HandlerEntry, InHandListed
  <2> QED
    BY <1>2, <2>1, <2>2, <2>3, <2>4 DEF Manager
<1>3. CASE Run
  <2>1. CASE RunJoined
    <3>1. mpc' \notin {"search", "searching"}
      BY <2>1, <1>3, RunResetting DEF RunJoined, ResettingStops, Resetting
    <3>2. Joinable' = {}
      BY <2>1 DEF RunJoined, Joined, Joinable
    <3> QED
      BY <3>1, <3>2 DEF InHandListed, HandlerEntry
  <2>2. CASE ~RunJoined
    <3>1. UNCHANGED <<clientList, hpc, mpc, inHand>>
      BY <1>3, <2>2 DEF Run, RunStart, RunTop, RunStartUp, RunRunning, RunReset,
         RunRestart, RunRead, RunScan, RunMessage, ProcessMessageToUser, RecordMessage,
         MessageRecorded, Find, RunPop, RunDangles, Faulty, RunMove, RunStep,
         managerVars, listVars, handlerVars
    <3> QED
      BY <3>1, EntryKept DEF InList, Joinable
  <2> QED
    BY <2>1, <2>2
<1>4. CASE \E s \in Orders : Publish(s)
  <2>1. UNCHANGED <<clientList, hpc>> /\ mpc' \notin {"search", "searching"}
    BY <1>4 DEF Publish, listVars, handlerVars
  <2> QED
    BY <2>1, EntryKept DEF InList, Joinable
<1>5. CASE UNCHANGED vars
  <2>1. UNCHANGED <<clientList, hpc, mpc, inHand>>
    BY <1>5 DEF vars, listVars, handlerVars, managerVars
  <2> QED
    BY <2>1, EntryKept DEF InList, Joinable
<1> QED
  BY <1>1, <1>2, <1>3, <1>4, <1>5 DEF Next, Ended

\* The strengthening of HandlerEntry holds: a thread is started only for the client
\* AddClient has just appended (Server.cpp:137-143).
THEOREM EntryInvHolds == Spec => []EntryInv
<1>1. EntryInv /\ [Next]_vars => EntryInv'
  BY EntryNext, NextType, ResettingNext DEF EntryInv
<1> QED
  BY <1>1, EntryInit, PTL DEF Spec

\* A receiver thread that is not joined has its client in clientList: a RESET
\* does not clear the list under it (Server.cpp:137-143, 250-265).
THEOREM HandlerHasEntry == Spec => []HandlerEntry
<1>1. EntryInv => HandlerEntry
  BY DEF EntryInv
<1> QED
  BY <1>1, EntryInvHolds, PTL

-----------------------------------------------------------------------------
(* QueuePointersValid, for few clients. The elements of clientList before those of
   the clients are the value-initialised ones, or none after a RESET. *)

\* No more clients than the list has room for once it has grown: with the 20
\* elements of Server.h:43, ten.
FewClients == Cardinality(Clients) <= Grown(Placeholders) - Placeholders

\* The clients' elements are those behind the first `base`.
ClientsFrom(list, base) ==
    /\ base <= Len(list)
    /\ \A i \in 1 .. Len(list) : list[i] \in Clients <=> i > base

RoomInv ==
    /\ capacity = Placeholders \/ capacity >= Grown(Placeholders)
    /\ \E base \in {0, Placeholders} : ClientsFrom(clientList, base)
    /\ FewClients => dangling = {}

LEMMA GrownFacts ==
  ASSUME NEW n \in Nat
  PROVE  Grown(n) \in Nat /\ Grown(n) >= n
  BY DEF Grown

LEMMA FreshRoom ==
  Fresh \in Seq(Owners) /\ ClientsFrom(Fresh, Placeholders)
<1>1. Len(Fresh) = Placeholders /\ \A i \in 1 .. Len(Fresh) : Fresh[i] = Nobody
  BY PlaceholdersAssumption DEF Fresh
<1>2. Fresh \in Seq(Owners)
  BY PlaceholdersAssumption DEF Fresh, Owners
<1> QED
  BY <1>1, <1>2, ClientsAssumption, PlaceholdersAssumption DEF ClientsFrom

\* Since no client is in the list twice, they take as many elements as there are
\* clients at most.
LEMMA ListBound ==
  ASSUME NEW list \in Seq(Owners), NEW base \in Nat, ClientsFrom(list, base),
         \A i, j \in 1 .. Len(list) : list[i] \in Clients /\ list[i] = list[j] => i = j
  PROVE  Len(list) - base <= Cardinality(Clients) /\ Cardinality(Clients) \in Nat
<1> DEFINE Places == base + 1 .. Len(list)
           Owner == [i \in Places |-> list[i]]
<1>1. Len(list) \in Nat /\ base <= Len(list)
  BY DEF ClientsFrom
<1>2. IsFiniteSet(Clients) /\ Cardinality(Clients) \in Nat
  BY OneServerAssumption, FS_CardinalityType
<1>3. IsFiniteSet(Places) /\ Cardinality(Places) = Len(list) - base
  <2>1. base + 1 \in Int /\ Len(list) \in Int
    BY <1>1
  <2>2. /\ IsFiniteSet(Places)
        /\ Cardinality(Places) = IF base + 1 > Len(list) THEN 0
                                 ELSE Len(list) - (base + 1) + 1
    BY <2>1, FS_Interval
  <2> QED
    BY <1>1, <2>2
<1>4. \A i \in Places : i \in 1 .. Len(list) /\ list[i] \in Clients
  BY <1>1 DEF ClientsFrom
<1>5. Owner \in Injection(Places, Clients)
  <2>1. Owner \in [Places -> Clients]
    BY <1>4
  <2>2. \A i, j \in Places : Owner[i] = Owner[j] => i = j
    BY <1>4
  <2> QED
    BY <2>1, <2>2 DEF Injection, IsInjective
<1>6. Cardinality(Places) <= Cardinality(Clients)
  BY <1>2, <1>5, FS_Injection
<1> QED
  BY <1>2, <1>3, <1>6

\* With few clients, a list that grows grows before its first client's thread starts.
LEMMA GrowsAlone ==
  ASSUME TypeInv, TypeInv', UniqueLogin, UniqueLogin', HandlerEntry, RoomInv,
         AddClientAppend
  PROVE  RoomInv'
<1> PICK base \in {0, Placeholders} : ClientsFrom(clientList, base)
  BY DEF RoomInv
<1>1. base \in Nat /\ Placeholders \in Nat \ {0} /\ capacity \in Nat
  BY PlaceholdersAssumption DEF TypeInv, TypeOK, ListType
<1>2. /\ clientList \in Seq(Owners) /\ inHand \in Clients
      /\ clientList' = Append(clientList, inHand)
  BY DEF AddClientAppend, TypeInv, TypeOK, ListType, HandOK
<1>3. /\ Len(clientList) \in Nat /\ Len(clientList') = Len(clientList) + 1
      /\ clientList'[Len(clientList) + 1] = inHand
      /\ \A i \in 1 .. Len(clientList) : clientList'[i] = clientList[i]
  BY <1>2
<1>4. ClientsFrom(clientList', base)
  <2>1. base <= Len(clientList')
    BY <1>1, <1>3 DEF ClientsFrom
  <2>2. ASSUME NEW i \in 1 .. Len(clientList')
        PROVE  clientList'[i] \in Clients <=> i > base
    <3>1. CASE i = Len(clientList) + 1
      BY <1>1, <1>2, <1>3, <3>1 DEF ClientsFrom
    <3>2. CASE i # Len(clientList) + 1
      <4>1. i \in 1 .. Len(clientList)
        BY <1>3, <3>2
      <4> QED
        BY <1>3, <4>1 DEF ClientsFrom
    <3> QED
      BY <3>1, <3>2
  <2> QED
    BY <2>1, <2>2 DEF ClientsFrom
<1>5. (Len(clientList) + 1) - base <= Cardinality(Clients) /\ Cardinality(Clients) \in Nat
  <2>1. clientList' \in Seq(Owners)
    BY DEF TypeInv, TypeOK, ListType
  <2>2. \A i, j \in 1 .. Len(clientList') :
           clientList'[i] \in Clients /\ clientList'[i] = clientList'[j] => i = j
    BY DEF UniqueLogin
  <2>3. /\ Len(clientList') - base <= Cardinality(Clients)
        /\ Cardinality(Clients) \in Nat
    BY <1>1, <1>4, <2>1, <2>2, ListBound
  <2> QED
    BY <1>3, <2>3
<1>6. capacity' = Placeholders \/ capacity' >= Grown(Placeholders)
  <2>1. capacity' = capacity \/ capacity' = Grown(capacity)
    BY DEF AddClientAppend
  <2>2. /\ Grown(capacity) \in Nat /\ Grown(capacity) >= capacity
        /\ Grown(Placeholders) \in Nat
    BY <1>1, GrownFacts
  <2> QED
    BY <1>1, <2>1, <2>2 DEF RoomInv
<1>7. ASSUME FewClients PROVE dangling' = {}
  <2>1. dangling = {}
    BY <1>7 DEF RoomInv
  <2>2. CASE Len(clientList) # capacity
    BY <2>1, <2>2 DEF AddClientAppend
  <2>3. CASE Len(clientList) = capacity
    <3>1. Grown(Placeholders) \in Nat /\ Grown(Placeholders) <= Placeholders + Placeholders
      BY <1>1 DEF Grown
    <3>2. (Len(clientList) + 1) - base <= Grown(Placeholders) - Placeholders
      BY <1>1, <1>3, <1>5, <1>7, <3>1 DEF FewClients
    <3>3. capacity = Placeholders /\ base = Placeholders
      BY <1>1, <1>3, <2>3, <3>1, <3>2 DEF RoomInv
    <3>4. \A i \in 1 .. Len(clientList) : clientList[i] \notin Clients
      BY <1>1, <2>3, <3>3 DEF ClientsFrom
    <3>5. Joinable = {}
      BY <3>4 DEF HandlerEntry, Joinable
    <3> QED
      BY <2>3, <3>5 DEF AddClientAppend
  <2> QED
    BY <2>2, <2>3
<1> QED
  BY <1>4, <1>6, <1>7 DEF RoomInv

\* Steps that leave the list alone.
LEMMA RoomKept ==
  ASSUME RoomInv, UNCHANGED <<clientList, capacity, dangling>>
  PROVE  RoomInv'
  BY DEF RoomInv, ClientsFrom, FewClients

LEMMA RoomNext ==
  ASSUME TypeInv, TypeInv', UniqueLogin, UniqueLogin', HandlerEntry, RoomInv, [Next]_vars
  PROVE  RoomInv'
<1>1. ASSUME NEW c \in Clients, Dispatch(c) \/ Handler(c) PROVE RoomInv'
  BY <1>1, RoomKept DEF Dispatch, Handler, HandlerWait, HandlerLoad, HandlerReceive,
     HandlerNothing, HandlerSend, HandlerIdle, HandlerDangles, Faulty, HandlerStep,
     listVars
<1>2. CASE Manager
  <2>1. CASE AddClientAppend
    BY <2>1, GrowsAlone
  <2>2. CASE DeleteServer
    <3>1. clientList' = Fresh /\ capacity' = Placeholders /\ dangling' = {}
      BY <2>2 DEF DeleteServer
    <3>2. ClientsFrom(clientList', Placeholders)
      BY <3>1, FreshRoom
    <3> QED
      BY <3>1, <3>2 DEF RoomInv
  <2>3. CASE ~AddClientAppend /\ ~DeleteServer
    BY <1>2, <2>3, RoomKept DEF Manager, AddClientRefused, SearchForMessages,
       AddClientSpawn, Enlist, Stop, DeleteTerminates, Faulty, listVars
  <2> QED
    BY <2>1, <2>2, <2>3
<1>3. CASE Run
  <2>1. CASE RunJoined
    <3>1. clientList' = <<>> /\ dangling' = {} /\ capacity' = capacity
      BY <2>1 DEF RunJoined, RunStep
    <3>2. ClientsFrom(clientList', 0)
      BY <3>1 DEF ClientsFrom
    <3> QED
      BY <3>1, <3>2 DEF RoomInv
  <2>2. CASE ~RunJoined
    <3>1. UNCHANGED <<clientList, capacity, dangling>>
      BY <1>3, <2>2 DEF Run, RunStart, RunTop, RunStartUp, RunRunning, RunReset,
         RunRestart, RunRead, RunScan, RunMessage, ProcessMessageToUser, RecordMessage,
         MessageRecorded, Find, RunPop, RunDangles, Faulty, RunMove, RunStep, listVars
    <3> QED
      BY <3>1, RoomKept
  <2> QED
    BY <2>1, <2>2
<1>4. CASE \E s \in Orders : Publish(s)
  BY <1>4, RoomKept DEF Publish, listVars
<1>5. CASE UNCHANGED vars
  BY <1>5, RoomKept DEF vars, listVars
<1> QED
  BY <1>1, <1>2, <1>3, <1>4, <1>5 DEF Next, Ended

\* With at most ten clients (and 20 elements), a receiver thread's pointers into
\* clientList are never left dangling: the list grows for the first of them only, when
\* no thread is there yet, and for the eleventh (Server.h:43, Server.cpp:137-143).
THEOREM PointersStayValid == Spec => [](FewClients => QueuePointersValid)
<1>1. Init => RoomInv
  <2> SUFFICES ASSUME Init PROVE RoomInv
    OBVIOUS
  <2>1. clientList = Fresh /\ capacity = Placeholders /\ dangling = {}
    BY DEF Init
  <2> QED
    BY <2>1, FreshRoom DEF RoomInv
<1>2. /\ LoginInv /\ LoginInv' /\ EntryInv /\ EntryInv' /\ RoomInv /\ [Next]_vars
      => RoomInv'
  BY RoomNext DEF LoginInv, EntryInv
<1>3. RoomInv => (FewClients => QueuePointersValid)
  BY DEF RoomInv, QueuePointersValid
<1> QED
  BY <1>1, <1>2, <1>3, LoginInvHolds, EntryInvHolds, PTL DEF Spec
=============================================================================
