--------------------------- MODULE ServerManager ---------------------------
(* The life of one ServerManager (ServerManager.h, ServerManager.cpp): the thread
   in Run and the functions it calls, the administrator threads that call
   SetState and SetPortNumber meanwhile, and the destructor. What a RUNNING
   iteration does with connections is in UserVerifier, what the servers do is in
   Server; here the servers and the verifier are the state they were told.

   m_state and m_portNumber are ThreadSafe objects: each access is one step, and
   what was read may be stale in the next. m_runMutex lets one thread into Run,
   so that one pc is enough; a Run that returns false keeps the mutex. *)
EXTENDS Naturals

CONSTANTS
    Admins,    \* the administrator's threads
    Ports,     \* the ports they choose from
    FirstPort, \* the port given to the constructor
    NoSocket,  \* INVALID_SOCKET
    Orders,    \* the states given to Run and to SetState
    MaxRuns,   \* bound: calls of Run
    MaxCalls   \* bound: calls of SetState and SetPortNumber, all threads together

ServerStates ==
    {"OFF", "RUNNING", "NOT_ACCEPTING_CONNECTIONS", "RESET", "START_UP"}

ASSUME PortsAssumption == FirstPort \in Ports /\ NoSocket \notin Ports
ASSUME OrdersAssumption == Orders \subseteq ServerStates
ASSUME BoundsAssumption == MaxRuns \in Nat /\ MaxCalls \in Nat

VARIABLES
    state, port,   \* m_tsState and m_tsPortNumber
    listener,      \* m_listenerSocket: the port it listens on, or NoSocket
    sockets,       \* the listening sockets that are open in the system
    wsa, ssl,      \* m_bWSA and m_bOpenSSL
    ctx,           \* what m_sslContext points to
    pc, by,        \* where the manager's code is; who called Init or Shutdown
    cur, saved,    \* Run's curState; Init's state
    opening,       \* the argument of OpenForConnections
    told,          \* the state the servers and the verifier were given last
    apc,           \* administrator threads: where they are in SetPortNumber
    runs, calls,   \* the calls made so far
    given,         \* history: the states given to SetState
    fault          \* undefined behaviour or std::terminate stopped the program

libraryVars == <<wsa, ssl, ctx>>
socketVars  == <<listener, sockets>>
adminVars   == <<port, apc, calls, given>>
localVars   == <<by, cur, saved, opening>>
vars == <<state, socketVars, libraryVars, adminVars, localVars, pc, told, runs, fault>>

Init ==
    /\ state = "OFF" /\ port = FirstPort
    /\ listener = NoSocket /\ sockets = 0
    /\ wsa = FALSE /\ ssl = FALSE /\ ctx = "null"
    /\ pc = "free" /\ by = "run" /\ cur = "OFF" /\ saved = "OFF" /\ opening = FirstPort
    /\ told = "OFF" /\ apc = [a \in Admins |-> "idle"]
    /\ runs = 0 /\ calls = 0 /\ given = {} /\ fault = FALSE

\* A step of the manager's code that touches no library and no socket.
Step == UNCHANGED <<socketVars, libraryVars, adminVars, runs, fault>>

-----------------------------------------------------------------------------
(* Run. *)

\* m_runMutex.lock(), once no other call of Run has it.
RunCall(s) ==
    /\ pc = "free" /\ runs < MaxRuns
    /\ pc' = "init" /\ by' = "run" /\ cur' = s /\ runs' = runs + 1
    /\ UNCHANGED <<state, socketVars, libraryVars, adminVars, saved, opening, told, fault>>

\* SetState(state), after Init.
RunEnter ==
    /\ pc = "enter"
    /\ state' = cur /\ pc' = "top"
    /\ Step /\ UNCHANGED <<localVars, told>>

\* The loop's condition and its switch. OFF unlocks m_runMutex.
RunTop ==
    /\ pc = "top"
    /\ pc' = CASE cur = "OFF" -> "free"
               [] cur = "START_UP" -> "port"
               [] cur = "RESET" -> "shutdown"
               [] OTHER -> "read"
    /\ by' = IF cur = "RESET" THEN "reset" ELSE "run"
    /\ Step /\ UNCHANGED <<state, cur, saved, opening, told>>

\* Mutant: the port of the last time.
LastPort == opening
\* GetPortNumber().
GetPortNumber == port

\* START_UP and Reset read the port...
ReadPort ==
    /\ pc = "port"
    /\ opening' = GetPortNumber /\ pc' = "open"
    /\ Step /\ UNCHANGED <<state, by, cur, saved, told>>

\* Mutant: the old socket is left open.
LeftOpen == sockets
\* What is open after closesocket on the old socket, if there is one.
OldClosed == IF listener = NoSocket THEN sockets ELSE sockets - 1

\* ... and OpenForConnections makes a socket for it, in place of the old one.
OpenForConnections ==
    /\ pc = "open"
    /\ \/ /\ wsa
          /\ listener' = opening /\ sockets' = OldClosed + 1
          /\ pc' = "opened"
       \/ /\ IF wsa THEN listener' = NoSocket /\ sockets' = OldClosed
                    ELSE UNCHANGED socketVars
          /\ pc' = IF by = "reset" THEN "refused" ELSE "kept"
    /\ UNCHANGED <<state, libraryVars, adminVars, localVars, told, runs, fault>>

\* Reset could not open the port: Run returns false, and keeps m_runMutex.
ResetRefused ==
    /\ pc = "refused"
    /\ state' = "NOT_ACCEPTING_CONNECTIONS" /\ pc' = "kept"
    /\ Step /\ UNCHANGED <<localVars, told>>

\* SetState(RUNNING) of START_UP and RESET.
Opened ==
    /\ pc = "opened"
    /\ state' = "RUNNING" /\ pc' = "read"
    /\ Step /\ UNCHANGED <<localVars, told>>

\* Mutant: curState is not read again.
KeptState == cur
\* GetState().
GetState == state

\* The end of an iteration: curState, and what the servers and the verifier get.
EndOfIteration ==
    /\ pc = "read"
    /\ cur' = GetState /\ told' = GetState /\ pc' = "top"
    /\ Step /\ UNCHANGED <<state, by, saved, opening>>

-----------------------------------------------------------------------------
(* Init, called by Run and by Reset. *)

\* It keeps the state ...
InitSave ==
    /\ pc = "init"
    /\ saved' = state /\ pc' = "starting"
    /\ Step /\ UNCHANGED <<state, by, cur, opening, told>>

\* ... sets START_UP meanwhile ...
InitStartUp ==
    /\ pc = "starting"
    /\ state' = "START_UP" /\ pc' = "libraries"
    /\ Step /\ UNCHANGED <<localVars, told>>

\* Where Init's caller goes on: Reset opens the port, whatever Init returned.
After(ok) ==
    IF by = "reset" THEN "port" ELSE IF ok THEN "enter" ELSE "kept"

\* ConfigureSSLContext: OpenSSL's functions return 0 or 1, and less than 0 counts
\* as a failure.
ConfigureSSLContext(result) == ~(result < 0)

\* InitOpenSSL: the old context, if there is one, is freed again.
InitOpenSSL ==
    /\ \/ ctx' = "null" /\ ssl' = FALSE
       \/ \E result \in {0, 1} : ctx' = "live" /\ ssl' = ConfigureSSLContext(result)
    /\ fault' \in (IF ctx = "freed" THEN BOOLEAN ELSE {FALSE})

\* The libraries that are not initialised are. Without WSA, Init returns false.
InitLibraries ==
    /\ pc = "libraries"
    /\ \/ /\ wsa' = TRUE
          /\ IF ssl THEN UNCHANGED <<ssl, ctx, fault>> ELSE InitOpenSSL
          /\ pc' = "restoring"
       \/ ~wsa /\ pc' = After(FALSE) /\ UNCHANGED <<libraryVars, fault>>
    /\ UNCHANGED <<state, socketVars, adminVars, localVars, told, runs>>

\* ... and puts the state back.
InitRestore ==
    /\ pc = "restoring"
    /\ state' = saved /\ pc' = After(TRUE)
    /\ Step /\ UNCHANGED <<localVars, told>>

-----------------------------------------------------------------------------
(* Shutdown, called by Reset and by the destructor. *)

\* The destructor; whoever calls it has no call of another method running.
Destroy ==
    /\ pc \in {"free", "kept"} /\ \A a \in Admins : apc[a] = "idle"
    /\ pc' = "shutdown" /\ by' = "destructor"
    /\ Step /\ UNCHANGED <<state, cur, saved, opening, told>>

ShutdownBegin ==
    /\ pc = "shutdown"
    /\ state' = "OFF" /\ pc' = "stop"
    /\ Step /\ UNCHANGED <<localVars, told>>

\* Mutant: the closed socket is kept.
KeptSocket == listener
\* What CloseConnections leaves in m_listenerSocket.
NoListener == NoSocket

\* Mutant: m_bOpenSSL stays true.
StillInitialised == ssl
\* What CleanupOpenSSL leaves in m_bOpenSSL.
Uninitialised == FALSE

\* Cleanup: CloseConnections, CleanupOpenSSL, CleanupWSA.
Cleanup ==
    /\ sockets' = OldClosed /\ listener' = NoListener
    /\ ctx' = IF ssl THEN "freed" ELSE ctx
    /\ ssl' = Uninitialised /\ wsa' = FALSE

\* The servers and the verifier are set OFF, the servers joined and deleted.
ShutdownEnd ==
    /\ pc = "stop"
    /\ told' = "OFF"
    /\ Cleanup
    /\ pc' = IF by = "reset" THEN "init" ELSE "destroyed"
    /\ UNCHANGED <<state, adminVars, localVars, runs, fault>>

\* A server's thread is never done, or a receiver thread was not joined before its
\* server is deleted (Server: ResetCompletes, DeleteTerminates).
ShutdownStuck ==
    /\ pc = "stop"
    /\ told' = "OFF"
    /\ \/ pc' = "stuck" /\ UNCHANGED fault
       \/ fault' = TRUE /\ UNCHANGED pc
    /\ UNCHANGED <<state, socketVars, libraryVars, adminVars, localVars, runs>>

-----------------------------------------------------------------------------
(* The administrator's threads. *)

Alive == by # "destructor"
ManagerStep == UNCHANGED <<socketVars, libraryVars, localVars, pc, told, runs, fault>>

SetState(a, s) ==
    /\ Alive /\ apc[a] = "idle" /\ calls < MaxCalls
    /\ state' = s
    /\ calls' = calls + 1 /\ given' = given \cup {s}
    /\ ManagerStep /\ UNCHANGED <<port, apc>>

\* SetPortNumber stores the port ...
SetPortNumber(a, p) ==
    /\ Alive /\ apc[a] = "idle" /\ calls < MaxCalls
    /\ port' = p /\ apc' = [apc EXCEPT ![a] = "check"]
    /\ calls' = calls + 1
    /\ ManagerStep /\ UNCHANGED <<state, given>>

\* ... compares the state with RUNNING ...
CheckRunning(a) ==
    /\ apc[a] = "check"
    /\ apc' = [apc EXCEPT ![a] = IF state = "RUNNING" THEN "signal" ELSE "idle"]
    /\ ManagerStep /\ UNCHANGED <<state, port, calls, given>>

\* ... and sets RESET.
SignalReset(a) ==
    /\ apc[a] = "signal"
    /\ state' = "RESET" /\ apc' = [apc EXCEPT ![a] = "idle"]
    /\ ManagerStep /\ UNCHANGED <<port, calls, given>>

-----------------------------------------------------------------------------
Manager == RunEnter \/ RunTop \/ ReadPort \/ OpenForConnections \/ ResetRefused
             \/ Opened \/ EndOfIteration \/ InitSave \/ InitStartUp \/ InitLibraries
             \/ InitRestore \/ ShutdownBegin \/ ShutdownEnd \/ ShutdownStuck

Ended == (fault \/ pc \in {"stuck", "destroyed"}) /\ UNCHANGED vars

Next ==
    \/ /\ ~fault
       /\ \/ Manager \/ Destroy
          \/ \E s \in Orders : RunCall(s) \/ \E a \in Admins : SetState(a, s)
          \/ \E a \in Admins, p \in Ports : SetPortNumber(a, p)
          \/ \E a \in Admins : CheckRunning(a) \/ SignalReset(a)
    \/ Ended

\* The thread in Run keeps running, and so does a thread in SetPortNumber. Calls
\* are nobody's obligation.
Fairness ==
    /\ WF_vars(~fault /\ Manager)
    /\ \A a \in Admins : WF_vars(~fault /\ (CheckRunning(a) \/ SignalReset(a)))

Spec == Init /\ [][Next]_vars
FairSpec == Spec /\ Fairness

-----------------------------------------------------------------------------
Places == {"free", "init", "starting", "libraries", "restoring", "enter", "top",
           "port", "open", "opened", "refused", "read", "kept", "shutdown",
           "stop", "stuck", "destroyed"}

\* Every variable has its type; sockets, a natural number, is never closed more
\* often than opened.
TypeOK ==
    /\ state \in ServerStates /\ port \in Ports
    /\ listener \in Ports \cup {NoSocket} /\ sockets \in Nat
    /\ wsa \in BOOLEAN /\ ssl \in BOOLEAN /\ ctx \in {"null", "live", "freed"}
    /\ pc \in Places /\ by \in {"run", "reset", "destructor"}
    /\ cur \in ServerStates /\ saved \in ServerStates /\ opening \in Ports
    /\ told \in ServerStates /\ apc \in [Admins -> {"idle", "check", "signal"}]
    /\ runs \in 0 .. MaxRuns /\ calls \in 0 .. MaxCalls
    /\ given \subseteq ServerStates /\ fault \in BOOLEAN

\* However often the port is opened again (START_UP, RESET, a second Run), the
\* process has one listening socket, the one in m_listenerSocket, or none: no
\* socket is left open behind it (OpenForConnections, CloseConnections).
OneListener == sockets = IF listener = NoSocket THEN 0 ELSE 1

\* Run is in an iteration of RUNNING, or about to begin one.
Serving == pc \in {"top", "read"} /\ cur = "RUNNING"

\* Connections are accepted with WSA initialised and with no freed SSL context,
\* although Shutdown frees the context and leaves the pointer: whoever runs after
\* it has been through Init (AcceptIncomingNewConnection).
ContextUsable == Serving /\ listener # NoSocket => wsa /\ ctx # "freed"

\* The RESET that SetPortNumber signalled to a serving manager is taken, and the
\* port listened on, unless the port or the state is set again, the port cannot
\* be opened, or the servers do not come to an end.
PortSignalled ==
    \A p \in Ports :
       (Serving /\ state = "RESET" /\ port = p /\ given \subseteq {"OFF"})
         ~> \/ listener = p \/ port # p \/ ~(given \subseteq {"OFF"})
            \/ pc \in {"free", "kept", "stuck"} \/ fault

\* OFF given to a serving manager ends Run, unless a SetPortNumber that has seen
\* RUNNING is about to set RESET over it.
OffReturns ==
    (Serving /\ state = "OFF" /\ given = {"OFF"} /\ \A a \in Admins : apc[a] # "signal")
      ~> (pc = "free" \/ given # {"OFF"} \/ fault)

-----------------------------------------------------------------------------
(* What a comment of the source says, and the code does not do. *)

\* "Modifies the port that the ServerManager will listen to. Will send a reset
\* connection signal" (ServerManager.h:111-112): once every SetPortNumber has
\* returned, and nothing is left to be done, the socket is on the port.
PortInForce ==
    /\ Serving /\ state = "RUNNING" /\ \A a \in Admins : apc[a] = "idle"
    /\ listener # NoSocket
    => listener = port
=============================================================================
