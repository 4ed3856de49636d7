------------------------ MODULE ServerManagerProofs ------------------------
(* ServerManager's safety properties, for any number of administrator threads,
   ports, calls and runs, from one inductive invariant. *)
EXTENDS ServerManager, TLAPS

\* TypeOK needs OneListener, since closing subtracts from the open sockets, and
\* ContextUsable needs what Init and Cleanup leave behind: an initialised OpenSSL
\* has a context, WSA is initialised only with a context that is not freed, and
\* Run goes on after Init only with WSA.
LibrariesOK ==
    /\ ssl => ctx = "live"
    /\ wsa => ctx # "freed"
    /\ pc \in {"restoring", "enter", "top", "opened", "read"} => wsa

ManagerInv == TypeOK /\ OneListener /\ LibrariesOK

LEMMA ManagerInit == Init => ManagerInv
<1> SUFFICES ASSUME Init PROVE ManagerInv
  OBVIOUS
<1>1. /\ state \in ServerStates /\ port \in Ports /\ pc \in Places
      /\ listener \in Ports \cup {NoSocket} /\ sockets \in Nat
      /\ by \in {"run", "reset", "destructor"} /\ told \in ServerStates
      /\ cur \in ServerStates /\ saved \in ServerStates /\ opening \in Ports
  BY PortsAssumption DEF Init, ServerStates, Places
<1>2. /\ wsa \in BOOLEAN /\ ssl \in BOOLEAN /\ fault \in BOOLEAN
      /\ ctx \in {"null", "live", "freed"}
  BY DEF Init
<1>3. /\ apc \in [Admins -> {"idle", "check", "signal"}] /\ given \subseteq ServerStates
      /\ runs \in 0 .. MaxRuns /\ calls \in 0 .. MaxCalls
  BY BoundsAssumption DEF Init
<1>4. TypeOK
  BY <1>1, <1>2, <1>3 DEF TypeOK
<1>5. OneListener /\ LibrariesOK
  BY DEF Init, OneListener, LibrariesOK
<1> QED
  BY <1>4, <1>5 DEF ManagerInv

\* Closing the listening socket of a manager that has one leaves none open.
LEMMA CloseFacts == ASSUME TypeOK, OneListener PROVE OldClosed = 0
  BY DEF TypeOK, OneListener, OldClosed

\* The steps of Run, Init and Shutdown that touch no library and no socket.
LEMMA StepInv ==
  ASSUME ManagerInv, Step, state' \in ServerStates, pc' \in Places,
         by' \in {"run", "reset", "destructor"}, cur' \in ServerStates,
         saved' \in ServerStates, opening' \in Ports, told' \in ServerStates,
         pc' \in {"restoring", "enter", "top", "opened", "read"} => wsa
  PROVE  ManagerInv'
<1> USE DEF ManagerInv
<1>1. UNCHANGED <<listener, sockets, wsa, ssl, ctx, port, apc, calls, given, runs, fault>>
  BY DEF Step, socketVars, libraryVars, adminVars
<1>2. TypeOK'
  BY <1>1 DEF TypeOK
<1>3. OneListener' /\ LibrariesOK'
  BY <1>1 DEF OneListener, LibrariesOK
<1> QED
  BY <1>2, <1>3

LEMMA RunInv ==
  ASSUME ManagerInv,
         RunEnter \/ RunTop \/ ReadPort \/ ResetRefused \/ Opened \/ EndOfIteration
  PROVE  ManagerInv'
<1> USE DEF localVars, Places, ServerStates
<1>0. TypeOK /\ LibrariesOK
  BY DEF ManagerInv
<1>1. CASE RunEnter
  BY <1>0, <1>1, StepInv DEF RunEnter, TypeOK, LibrariesOK
<1>2. CASE RunTop
  BY <1>0, <1>2, StepInv DEF RunTop, TypeOK, LibrariesOK
<1>3. CASE ReadPort
  BY <1>0, <1>3, StepInv DEF ReadPort, GetPortNumber, TypeOK, LibrariesOK
<1>4. CASE ResetRefused
  BY <1>0, <1>4, StepInv DEF ResetRefused, TypeOK, LibrariesOK
<1>5. CASE Opened
  BY <1>0, <1>5, StepInv DEF Opened, TypeOK, LibrariesOK
<1>6. CASE EndOfIteration
  BY <1>0, <1>6, StepInv DEF EndOfIteration, GetState, TypeOK, LibrariesOK
<1> QED
  BY <1>1, <1>2, <1>3, <1>4, <1>5, <1>6

LEMMA InitInv ==
  ASSUME ManagerInv,
         InitSave \/ InitStartUp \/ InitRestore \/ Destroy \/ ShutdownBegin
  PROVE  ManagerInv'
<1> USE DEF localVars, Places, ServerStates
<1>0. TypeOK /\ LibrariesOK
  BY DEF ManagerInv
<1>1. CASE InitSave
  BY <1>0, <1>1, StepInv DEF InitSave, TypeOK, LibrariesOK
<1>2. CASE InitStartUp
  BY <1>0, <1>2, StepInv DEF InitStartUp, TypeOK, LibrariesOK
<1>3. CASE InitRestore
  BY <1>0, <1>3, StepInv DEF InitRestore, After, TypeOK, LibrariesOK
<1>4. CASE Destroy
  BY <1>0, <1>4, StepInv DEF Destroy, TypeOK, LibrariesOK
<1>5. CASE ShutdownBegin
  BY <1>0, <1>5, StepInv DEF ShutdownBegin, TypeOK, LibrariesOK
<1> QED
  BY <1>1, <1>2, <1>3, <1>4, <1>5

\* Another call of Run.
LEMMA RunCallInv == ASSUME ManagerInv, NEW s \in Orders, RunCall(s) PROVE ManagerInv'
<1>1. UNCHANGED <<state, listener, sockets, wsa, ssl, ctx, port, apc, calls, given,
                  saved, opening, told, fault>>
  BY DEF RunCall, socketVars, libraryVars, adminVars
<1>2. s \in ServerStates
  BY OrdersAssumption
<1>3. runs' \in 0 .. MaxRuns
  BY BoundsAssumption DEF RunCall, ManagerInv, TypeOK
<1>4. TypeOK'
  BY <1>1, <1>2, <1>3 DEF RunCall, ManagerInv, TypeOK, Places
<1>5. OneListener' /\ LibrariesOK'
  BY <1>1 DEF RunCall, ManagerInv, OneListener, LibrariesOK
<1> QED
  BY <1>4, <1>5 DEF ManagerInv

\* The port is opened, or it is not.
LEMMA OpenInv == ASSUME ManagerInv, OpenForConnections PROVE ManagerInv'
<1>1. /\ UNCHANGED <<state, wsa, ssl, ctx, port, apc, calls, given, by, cur, saved,
                     opening, told, runs, fault>>
      /\ \/ wsa /\ listener' = opening /\ sockets' = OldClosed + 1 /\ pc' = "opened"
         \/ /\ \/ listener' = NoSocket /\ sockets' = OldClosed
               \/ listener' = listener /\ sockets' = sockets
            /\ pc' \in {"refused", "kept"}
  BY DEF OpenForConnections, libraryVars, adminVars, localVars, socketVars
<1>2. TypeOK /\ OneListener /\ LibrariesOK /\ OldClosed = 0
  BY CloseFacts DEF ManagerInv
<1>3. OneListener' /\ sockets' \in Nat /\ listener' \in Ports \cup {NoSocket}
  BY <1>1, <1>2, PortsAssumption DEF OneListener, TypeOK
<1>4. TypeOK'
  BY <1>1, <1>2, <1>3 DEF TypeOK, Places
<1>5. LibrariesOK'
  BY <1>1, <1>2 DEF LibrariesOK
<1> QED
  BY <1>3, <1>4, <1>5 DEF ManagerInv

\* Init makes sure of WSA and of an SSL context.
LEMMA LibrariesInv == ASSUME ManagerInv, InitLibraries PROVE ManagerInv'
<1>1. UNCHANGED <<state, listener, sockets, port, apc, calls, given, by, cur, saved,
                  opening, told, runs>>
  BY DEF InitLibraries, socketVars, adminVars, localVars
<1>2. TypeOK /\ OneListener /\ LibrariesOK
  BY DEF ManagerInv
<1>3. CASE wsa' = TRUE /\ pc' = "restoring" /\ ssl /\ UNCHANGED <<ssl, ctx, fault>>
  <2>1. TypeOK'
    BY <1>1, <1>2, <1>3 DEF TypeOK, Places
  <2>2. OneListener' /\ LibrariesOK'
    BY <1>1, <1>2, <1>3 DEF OneListener, LibrariesOK
  <2> QED
    BY <2>1, <2>2 DEF ManagerInv
<1>4. CASE wsa' = TRUE /\ pc' = "restoring" /\ InitOpenSSL
  <2>1. /\ ssl' \in BOOLEAN /\ ctx' \in {"null", "live"} /\ fault' \in BOOLEAN
        /\ ssl' => ctx' = "live"
    BY <1>4 DEF InitOpenSSL, ConfigureSSLContext
  <2>2. TypeOK'
    BY <1>1, <1>2, <1>4, <2>1 DEF TypeOK, Places
  <2>3. OneListener' /\ LibrariesOK'
    BY <1>1, <1>2, <1>4, <2>1 DEF OneListener, LibrariesOK
  <2> QED
    BY <2>2, <2>3 DEF ManagerInv
<1>5. CASE pc' = After(FALSE) /\ UNCHANGED <<wsa, ssl, ctx, fault>>
  <2>1. pc' \in {"port", "kept"}
    BY <1>5 DEF After
  <2>2. TypeOK'
    BY <1>1, <1>2, <1>5, <2>1 DEF TypeOK, Places
  <2>3. OneListener' /\ LibrariesOK'
    BY <1>1, <1>2, <1>5, <2>1 DEF OneListener, LibrariesOK
  <2> QED
    BY <2>2, <2>3 DEF ManagerInv
<1> QED
  BY <1>3, <1>4, <1>5 DEF InitLibraries, libraryVars

\* Shutdown closes and frees what is there.
LEMMA ShutdownInv == ASSUME ManagerInv, ShutdownEnd \/ ShutdownStuck PROVE ManagerInv'
<1>1. TypeOK /\ OneListener /\ LibrariesOK /\ OldClosed = 0
  BY CloseFacts DEF ManagerInv
<1>2. CASE ShutdownEnd
  <2>1. /\ UNCHANGED <<state, port, apc, calls, given, by, cur, saved, opening, runs, fault>>
        /\ told' = "OFF" /\ sockets' = 0 /\ listener' = NoSocket
        /\ ctx' \in {"freed", ctx} /\ pc' \in {"init", "destroyed"}
        /\ ssl' = FALSE /\ wsa' = FALSE
    <3>1. /\ UNCHANGED <<state, port, apc, calls, given, by, cur, saved, opening, runs, fault>>
          /\ ssl' = FALSE /\ wsa' = FALSE
      BY <1>2 DEF ShutdownEnd, Cleanup, Uninitialised, adminVars, localVars
    <3>2. sockets' = 0 /\ listener' = NoSocket
      BY <1>1, <1>2 DEF ShutdownEnd, Cleanup, NoListener
    <3>3. /\ told' = "OFF"
          /\ ctx' \in {"freed", ctx} /\ pc' \in {"init", "destroyed"}
      BY <1>2 DEF ShutdownEnd, Cleanup
    <3> QED
      BY <3>1, <3>2, <3>3
  <2>2. TypeOK'
    <3>1. told' \in ServerStates /\ pc' \in Places
      BY <2>1 DEF ServerStates, Places
    <3>2. ctx' \in {"null", "live", "freed"} /\ listener' \in Ports \cup {NoSocket}
      BY <1>1, <2>1 DEF TypeOK
    <3> QED
      BY <1>1, <2>1, <3>1, <3>2 DEF TypeOK
  <2>3. OneListener' /\ LibrariesOK'
    BY <1>1, <2>1 DEF OneListener, LibrariesOK
  <2> QED
    BY <2>2, <2>3 DEF ManagerInv
<1>3. CASE ShutdownStuck
  <2>1. /\ UNCHANGED <<state, listener, sockets, wsa, ssl, ctx, port, apc, calls, given,
                       by, cur, saved, opening, runs>>
        /\ told' = "OFF" /\ pc' \in {"stuck", "stop"} /\ fault' \in BOOLEAN
    <3>1. /\ UNCHANGED <<state, listener, sockets, wsa, ssl, ctx, port, apc, calls, given,
                         by, cur, saved, opening, runs>>
          /\ told' = "OFF" /\ pc' \in {"stuck", "stop"}
      BY <1>3 DEF ShutdownStuck, socketVars, libraryVars, adminVars, localVars
    <3>2. fault' \in BOOLEAN
      BY <1>1, <1>3 DEF ShutdownStuck, TypeOK
    <3> QED
      BY <3>1, <3>2
  <2>2. TypeOK'
    <3>1. told' \in ServerStates /\ pc' \in Places
      BY <2>1 DEF ServerStates, Places
    <3> QED
      BY <1>1, <2>1, <3>1 DEF TypeOK
  <2>3. OneListener' /\ LibrariesOK'
    BY <1>1, <2>1 DEF OneListener, LibrariesOK
  <2> QED
    BY <2>2, <2>3 DEF ManagerInv
<1> QED
  BY <1>2, <1>3

\* What the administrator's threads do.
LEMMA AdminInv ==
  ASSUME ManagerInv, NEW a \in Admins,
         \/ \E s \in Orders : SetState(a, s)
         \/ \E p \in Ports : SetPortNumber(a, p)
         \/ CheckRunning(a) \/ SignalReset(a)
  PROVE  ManagerInv'
<1>1. UNCHANGED <<listener, sockets, wsa, ssl, ctx, by, cur, saved, opening, pc, told,
                  runs, fault>>
  BY DEF SetState, SetPortNumber, CheckRunning, SignalReset, ManagerStep, socketVars,
     libraryVars, localVars
<1>2. TypeOK
  BY DEF ManagerInv
<1>3. state' \in ServerStates /\ port' \in Ports /\ given' \subseteq ServerStates
  BY <1>2, OrdersAssumption
     DEF SetState, SetPortNumber, CheckRunning, SignalReset, TypeOK, ServerStates
<1>4. calls' \in 0 .. MaxCalls
  BY <1>2, BoundsAssumption DEF SetState, SetPortNumber, CheckRunning, SignalReset, TypeOK
<1>5. apc' \in [Admins -> {"idle", "check", "signal"}]
  BY <1>2 DEF SetState, SetPortNumber, CheckRunning, SignalReset, TypeOK
<1>6. TypeOK'
  BY <1>1, <1>2, <1>3, <1>4, <1>5 DEF TypeOK
<1>7. OneListener' /\ LibrariesOK'
  BY <1>1 DEF ManagerInv, OneListener, LibrariesOK
<1> QED
  BY <1>6, <1>7 DEF ManagerInv

LEMMA ManagerNext == ManagerInv /\ [Next]_vars => ManagerInv'
<1> SUFFICES ASSUME ManagerInv, [Next]_vars PROVE ManagerInv'
  OBVIOUS
<1>1. CASE Manager
  BY <1>1, RunInv, InitInv, OpenInv, LibrariesInv, ShutdownInv DEF Manager
<1>2. CASE Destroy
  BY <1>2, InitInv
<1>3. CASE \E s \in Orders : RunCall(s)
  BY <1>3, RunCallInv
<1>4. ASSUME NEW a \in Admins,
             \/ \E s \in Orders : SetState(a, s)
             \/ \E p \in Ports : SetPortNumber(a, p)
             \/ CheckRunning(a) \/ SignalReset(a)
      PROVE  ManagerInv'
  BY <1>4, AdminInv
<1>5. CASE UNCHANGED vars
  <2>1. /\ UNCHANGED <<state, listener, sockets, wsa, ssl, ctx, port, apc, calls, given>>
        /\ UNCHANGED <<by, cur, saved, opening, pc, told, runs, fault>>
    BY <1>5 DEF vars, socketVars, libraryVars, adminVars, localVars
  <2>2. TypeOK' /\ OneListener' /\ LibrariesOK'
    BY <2>1 DEF ManagerInv, TypeOK, OneListener, LibrariesOK
  <2> QED
    BY <2>2 DEF ManagerInv
<1> QED
  BY <1>1, <1>2, <1>3, <1>4, <1>5 DEF Next, Ended

\* The inductive invariant holds in every reachable state (ServerManager.cpp:28-134,
\* 287-305, 437-500).
THEOREM ManagerInvHolds == Spec => []ManagerInv
  BY ManagerInit, ManagerNext, PTL DEF Spec

\* Every variable keeps its type; the open listening sockets are a natural number,
\* so that no socket is closed twice.
THEOREM ManagerTypeCorrect == Spec => []TypeOK
<1>1. ManagerInv => TypeOK
  BY DEF ManagerInv
<1> QED
  BY <1>1, ManagerInvHolds, PTL

\* However often START_UP, RESET and Run open the port, no listening socket but
\* m_listenerSocket stays open (OpenForConnections, CloseConnections).
THEOREM ListenerIsOnlySocket == Spec => []OneListener
<1>1. ManagerInv => OneListener
  BY DEF ManagerInv
<1> QED
  BY <1>1, ManagerInvHolds, PTL

\* No connection is accepted with a freed SSL context or without WSA, although
\* CleanupOpenSSL leaves the pointer to the freed context behind.
THEOREM ContextIsUsable == Spec => []ContextUsable
<1>1. ManagerInv => ContextUsable
  BY DEF ManagerInv, LibrariesOK, ContextUsable, Serving
<1> QED
  BY <1>1, ManagerInvHolds, PTL
=============================================================================
