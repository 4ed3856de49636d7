# BlueSOD in TLA+

BlueSOD is a chat server for Windows, written in C++: a `ServerManager` accepts
connections and has a `UserVerifier` check the logins on a thread of its own; a
`Server` then talks to the logged-in clients, with one receiver thread for each
of them and one thread that deals with their messages. These modules model that
core: the threads, the queues between them, the states an administrator gives
them, and the objects that are moved, freed or closed under somebody's feet.

The source is taken as written, with one reservation: it does not compile as it
stands (default constructors that are declared and not defined, `async` of a
member function, `message_t::FILE`), and `main()` (ServerMain.cpp:39) runs only a
memory test. Where a construct has no meaning, the nearest one that compiles is
modelled, and whoever calls `ServerManager` is an external party that may call
its public methods in any legal order.

## 1. Inventory

| Component | State | Operations | Hard behaviour | What makes it correct |
|---|---|---|---|---|
| Messages (`Messages.*`) | none | `GetMessageType`, `Parse...` | login and logout codes are not recognised; parsed objects start from an undefined constructor; searches begin at hard-wired positions | a text gets the type of its code; its fields are found just when it is whole |
| Server, main loop (`Server.*`) | `m_state`, `m_clientList`, `m_receiverThreads`, master list | `AddClient`, `Run`, `ProcessMessageToUser`, `Find...`, `SearchForMessages` | list shared with the manager and the receiver threads; RESET joins threads | each message dealt with once, in order; one entry per login; RESET exclusive |
| Receiver threads (`client_handler`) | pointers to a list element | receive, parse and push; send the front and pop | see the state late; dangling pointers | replies sent once, in order; ends on OFF and RESET |
| Login pipeline (`UserVerifier.*`, `ServerManager::Run`) | four queues, `m_state` | push, pop (two calls), judge, answer, drain | two threads pop the same queues | one holder per connection; one verdict; a verified client is served |
| ServerManager life cycle | `m_tsState`, `m_tsPortNumber`, socket, SSL context, WSA, `m_runMutex` | `Run`, `Init`, `Reset`, `Shutdown`, `SetState`, `SetPortNumber` | orders overwritten; port read and set by different threads; libraries torn down and set up again | one listening socket; no freed context in use; orders carried out |
| ThreadSafe, queues, vectors | object and mutex | one lock per call | references and iterators outlive the lock | each call atomic |
| ConnectionInfo (`ServerConnections.*`) | `m_ssl`, `m_socket` | `Accept`, `Receive`, `Send`, `Shutdown`, `CloseConnection` | each result closes or goes on, also both in one iteration; pieces of a stream; a moved object holds no connection | released once, never used afterwards; what arrives whole are the replies, in order |
| ClientInfo | id, name, connection | move | the id is lost | - |
| SQLiteDb (`SQLiteDB.*`) | one statement, `m_hasRows`, mutex | `ExecuteStatement`, `StepNextRow`, `HasRows`, `GetColumnTxt` | used by two threads under two different mutexes; a step after the last row starts over | a lookup reads its own rows, all of them, and ends |
| LogManager, SSL_concurrency.h, ClientInfoList, ServerMain, SSLConnectionTest, SQLite | - | - | - | not part of the core |

The parts interact as follows. The manager's thread accepts connections, pushes
them on the pending queue, and pops the verified, rejected and invalid queues,
which the verifier's thread fills. A verified connection whose success message was
SENT goes to a server through `AddClient`, which appends to `m_clientList` and
starts a receiver thread with pointers into it. The receiver thread pushes on the
client's incoming queue and pops its outgoing queue; the server's loop does the
opposite. Every iteration of the manager publishes its state to the servers and
the verifier. Administrators change the manager's state and port at any time.

## 2. Modules

| Module | Models | Role |
|---|---|---|
| `Messages` | Messages.h, Messages.cpp | types of texts, as functions |
| `MessageText` | the `Parse...` functions of Messages.cpp | what they find in a text, as functions |
| `Server` | Server.cpp with all threads that touch a `Server` | state machine, invariants, liveness |
| `MCServer` | - | clients and ids for the runs of `Server` |
| `ServerTypeProofs`, `ServerProofs`, `ServerOrderProofs`, `ServerReplyProofs` | - | theorems about `Server` |
| `Connection` | ServerConnections.cpp and `client_handler` in detail | one connection from accept to release: state machine, invariants, liveness |
| `MCConnection` | - | streams for the runs of `Connection` |
| `ConnectionProofs` | - | theorems about `Connection` |
| `MessageDb` | SQLiteDB.* and its callers in Server.cpp | two threads and one statement: state machine, invariants, liveness |
| `MessageDbProofs` | - | theorems about `MessageDb` |
| `LoginDesk` | - | what the login pipeline promises, abstractly |
| `UserVerifier` | UserVerifier.cpp and the manager's part in the queues | state machine that implements `LoginDesk` |
| `MCUserVerifier` | - | orders for the runs of `UserVerifier` |
| `UserVerifierProofs` | - | theorems about `UserVerifier`, and that it implements `LoginDesk` |
| `ServerManager` | ServerManager.cpp: Run, Init, Reset, Shutdown, port and state | state machine, invariants, liveness |
| `ServerManagerProofs` | - | theorems about `ServerManager` |

Each thread has a program counter (`mpc` the manager, `spc` the server, `hpc[c]`
client c's receiver thread, `vpc` the verifier, `apc[a]` an administrator), and
one action stands for the code from one access of shared data to the next. Names
are those of the source: `RunReset` is the RESET case of `Run`, `LockChange` the
method of that name. The definitions marked "Mutant" are used by no
specification: each is a plausible mistake in the definition that follows it, and
breaks one property when it takes that definition's place.

What a reader should know before comparing with the code:

* **The state objects.** `SetState` and `GetState` lock the object's mutex for one
  step. `RetrieveObject` returns a reference that is read after the lock is
  released, so that a receiver thread waits for the mutex (`HandlerWait`) and
  reads later (`HandlerLoad`). `LockChange` keeps the mutex: `stateLock`.
* **Undefined behaviour.** A use of a freed list element, an invalidated iterator
  or a `std::terminate` ends the behaviour in `fault`. Popping an empty deque or
  freeing the SSL context twice may end it or go on.
* **async.** The futures of `async` are discarded, and their destructors wait: the
  call is synchronous. It is one step, or two where it holds a database mutex.
* **One server.** The manager makes a second server for the 65th element of a
  list. `OneServerAssumption` keeps below that number.
* **Ids.** ClientInfo's move constructor does not set `m_id`, so every client
  reaches `AddClient` with id 0. `HandedId` is a parameter, to tell what the
  server does from what that loss does: the runs take both.
* **m_uvThread** is never started. The verifier's thread is started by whoever
  owns the verifier, as its comment says it should (ServerManager.h:76).
* **LOGOUT.** `GetMessageType` never returns it, so Run's LOGOUT case, SaveMessages
  and RemoveFromMasterList are dead code and not modelled.
* **VerifyLoginInformation** takes every result but 0 for success. SQLite returns
  100, 101 or an error, so no login is rejected, and the rejected queue is empty.
* **RESET in the login pipeline.** A RESET lets the verifier drain the queues while
  the manager pops them. `drained` remembers that it happened: from then on
  `LoginDesk` lets a connection that was judged end up anywhere (`Disturb`), while one
  that waits for its login message keeps its promises. SingleHolder and VerifiedServed
  hold until the drain, PendingExclusive throughout.
* **Texts** are sequences of characters: a code or "{e}" has three of them, a tag two;
  of each token only the first character has a name of its own. So the positions and
  lengths of `Find` and `Substr` are those of the code, 1 more since TLA+ counts from
  1, and the cut of a stream goes between any two characters. A value is a run of
  one letter; its length matters (`Left`), its letters do not. The stream holds a null
  character after each text, as `Send` writes one (ServerConnections.cpp:221, 274).
  `ParseRequest` is what `client_handler` does with a piece; a login is parsed by the
  verifier.
* **A piece without a null character** (`Overread`): `ReceiveSSL` makes a string of
  a buffer that ends without one, so the string goes on with whatever the heap
  holds. The model takes nothing or the end of an earlier text for that.
* **SSL_pending.** `ReceiveSSL` asks it before it reads, and it counts what is
  already decrypted: 0 until something was read. `ReceiveSocket` looks with a
  `recv` of length 0. Read strictly, nothing is ever received. `Connection` models
  the results the code then tells apart, as if the question were answered rightly.
* **NOMUTEX.** SQLite is opened without its own locks, so calls that overlap are
  undefined; `MessageDb` takes the outcomes in which each call happens at once.
* **Three models of one thread.** `Server` has every client's receiver thread with
  its reads of shared state and results RECEIVED, SENT and so on as choices;
  `Connection` has one of them, in which the shared state is `order` (go on, stop, or
  RESET with its mutex kept) and the queues have no other reader, but the string it
  sends, the socket and the SSL object are in detail; `UserVerifier` has the connection
  until it is verified.
* **Partial sends** are unbounded. A text of the outgoing queue that is sent in part
  again and again is recorded on `wire` once, so that the model stays finite; how often
  the peer gets its beginning is not counted.
* `Publish` and `Stop` in `Server` and `EndOfIteration` and `Shutdown` in
  `UserVerifier` are the two ends of the same code; `ServerManager` has that code
  in detail. There the servers are only what they were told (`told`), and their
  join may return, never return, or end in `std::terminate` (`ShutdownStuck`).

## 3. Runs

| Run | Checks | Shows |
|---|---|---|
| `server_traffic` | TypeOK, InOrder, QueuePointersValid, QueueServed | two clients, one with two messages, a list with room: all interleavings of receive, deal, send; whose turn does not come while the other sends, gets it afterwards; no deadlock |
| `server_life` | ReplyOrder, UniqueLogin, HandlerEntry, ResetStable, StopCompletes | OFF, RESET and RUNNING at any point, lost ids, requests, stored and routed messages, servers deleted and made again |
| `server_reset` | ResetCompletes, *violated* | RESET waits for a thread that waits for the mutex RESET holds |
| `server_pointers` | IteratorValid, *violated* | the first client's push_back moves the list under Run's iterator, with the ids as they are |
| `login_desk` | TypeOK, SingleHolder, PendingExclusive, ImplementsDesk, VerifiedServed | every order of the manager's states, RESET included: the pipeline implements `LoginDesk` and serves who is verified until a RESET drains the queues; the pending queue stays exclusive throughout |
| `login_kept` | VerifiedKept, *violated* | the drain and the manager lose a verified connection |
| `manager_admin` | TypeOK, OneListener, ContextUsable, PortSignalled, OffReturns | two administrators, two calls of Run, the destructor |
| `manager_port` | PortInForce, *violated* | a port set while another is being opened is not listened on |
| `db_lookups` | TypeOK, AloneExact, OverlapsAreFinds, LookupEnds | two threads, every lookup they can make: what an undisturbed lookup gets, and which can be disturbed |
| `db_rows` | ReplyOwnRows, *violated* | FindConversation replies with rows of the other thread's query |
| `connection` | TypeOK, PeerSeesReplies, EchoedOnce, ReleasedOnce, RepliesOffered, StopReleases | one connection, every result of every call, stopped, locked and started again at any point |
| `connection_texts` | TextsParsed | a login and a request, their stream cut anywhere |

**Bounds.** Two clients are enough for every hazard listed: one whose thread runs
while the other is added, or one that is dealt with while the other pushes; three
messages in all (`MaxTexts`) give a queue longer than one and a second message
received before the first is popped. `Placeholders` is 20 in the code
(Server.h:43), a full list that grows by half (MSVC's vector, `Grown`): 4 makes it grow
with the first client only, as 20 does for up to ten. With the lost ids of `server_life`
only one client is served at a time, and `Placeholders` does not matter; its two messages
give it two replies in a queue that may also hold a stored message. Two
connections let one be popped in place of the other. Two administrators and three
calls let an order come between the steps of a SetPortNumber and be followed by
another. Two lookups of each thread let one find what another left behind; two rows
and two columns give a row that is read half and a row after it, and a third read
one that is too many. `connection_texts` has a login and one request of any
kind in one stream, in up to three pieces, the two documented formats that are not what
is looked for among them; the second value has seven characters, one more than a first
value of one character leaves room for in a login ("203" is built like "202"). What `connection`
checks does not look into the texts, so its stream is three characters that are no
message, in up to three pieces: one for the login and two for the loop, where the
string of one iteration could be sent in another. Two replies give a queue with
something behind its front. In `server_traffic` the list has room for both clients, so
that no fault ends the run.

**Deadlock** is checked wherever the CHECK_DEADLOCK line is TRUE. In the runs where
servers are reset it is FALSE, since the RESET deadlock is real (`server_reset`).
The Ended actions stand for the program that has stopped or returned; in `Connection`
also for the thread that waits for the mutex RESET keeps (`order` LOCKED at the top of
its loop), which is that deadlock seen from the thread.

**Fairness.** Every thread keeps running (weak fairness of its steps). Logging in,
sending, giving orders and calling Run or the destructor are nobody's obligation.
`login_desk` adds strong fairness of sending an answer to each connection: a peer that
stays connected takes an answer of three characters when it is offered again and
again. In `connection` no peer takes anything: a text may be larger than what send()
takes at once, and then it is sent in part for ever. In `db_lookups` each thread goes on with
the lookup it has begun; beginning one is nobody's obligation.
No fairness makes a server end: in `ServerManager` the join may hang.

**Where a property is conditional.** QueueServed is about a client whose fellows'
queues are empty from some time on: Run empties one queue before it looks at the next
or at the state (Server.cpp:178), so a client that sends faster than it is dealt with
starves the others, and there is nothing that bounds what a client sends. (In the run
`MaxTexts` does, so that each behaviour meets the condition in the end, and the run
shows the turns and not the starvation.) It also allows for another state than
RUNNING and for undefined behaviour. StopCompletes and OffReturns are about OFF
given to a loop that is serving, because an OFF given earlier is overwritten by
the SetState at Server.cpp:152 or ServerManager.cpp:146, 169 and 179, and OffReturns
also leaves out the SetPortNumber that is about to set RESET over it. StopCompletes
needs no such condition as QueueServed's, since the receiver threads end with OFF too
and nothing more comes in. PortSignalled
is about administrators whose only state order is OFF: a SetState(RUNNING) of
another can wipe the RESET out before it is read. AloneExact and LookupEnds are about
lookups during which the other thread was in none, since two that overlap share one
cursor; which can overlap is what OverlapsAreFinds says. TextsParsed leaves out the
pieces that end without a null character, and says of the second value of a login or
a 204 only what is left of it. RepliesOffered says that a reply is offered, not that it
arrives: a peer that takes less than a whole text each time blocks the queue behind it
for ever. It and StopReleases are about a connection that has not been closed, and one
that was handed to a thread: a client that was told "success" and that AddClient
refuses is never closed (`unserved`). StopReleases is about an OFF or RESET that stays
and that the thread can read: Run may overwrite it (Server.cpp:152, 165), and a RESET
whose LockChange comes first (252) leaves the thread waiting, as `server_reset` shows.

## 4. Proofs

The theorems hold for every value of the constants that satisfies the named
assumptions of the modules; TLAPS checks every leaf.

*Server.* `TypeInv` adds to TypeOK that the manager has a client in hand during
AddClient, and that from RunMessage to RunPop the iterator is at a client with a
message in front (`BusyOK`): otherwise `Head` and `Tail` of an empty queue would
break the types. ResetStable is inductive as it stands. UniqueLogin needs
`Enlisted`: the ids in the list are in the master list, but for the client in
hand. HandlerEntry needs `ResettingStops`: whoever ordered the RESET has left
AddClient for good, so that the list is not cleared between its push_back and the
start of the thread. PointersStayValid is about the
other half of the push_back that `server_pointers` shows: no thread's pointers dangle as
long as there are no more clients than a list that has
grown once has room for (`FewClients`: ten, with 20 elements at first and growth by
half). With the ids that reach AddClient today there is one client at most, and the
pointers are safe for that reason alone; with kept ids the theorem is what counts. `RoomInv` counts: behind the value-initialised elements each client has one
at most (UniqueLogin), so that the list can only be full before the first client is
in it, and then no thread is there (HandlerEntry). With one client more it fails: the third with
four elements at first, the eleventh with 20.
InOrder needs `StartsUntouched` (nothing was received before
a thread starts) and `CaughtUp` (an empty queue means that all was dealt with).
ReplyOrder needs InOrder and its strengthening, and two facts more (`ReplyInv`): a
request that was replied to was dealt with, so that the request in hand, which is the
next to be dealt with, is a later one; and a client whose receiver thread has not
started has no reply queued or sent, so that when it starts the equation of ReplyOrder
is true of empty sequences. The equation counts the replies of a queue with
Cardinality; the lemmas on `RepliesIn` say what it becomes when a message is appended
or the front removed. Messages that others routed to the client stand between the
replies in the same queue and are not counted.
Each proof has one lemma per action, or per group of actions that touch the same
variables.

*UserVerifier.* `PipelineInv` says where a connection may be. `Filed`: it is in the
queue, the hand or the server its verdict names; each action keeps this, even
when two threads pop one queue, because a pop with the wrong element in front still
drops an element of that queue. `Waiting`: the pending queue is popped by the
verifier alone, also in the drain, so that it holds each element once and, of what
the verifier has in hand between Front and PopFront, only the place in front (`Whole`).
`Kept` says the same of the three answer queues and the manager's hand, and holds until
a RESET drains; a manager sent to an empty queue by HasInvalidConnections pops with
nothing in its hand, and only there. Typed, PendingWaitsAlone and HeldOnce follow.
DeskImplemented has one lemma per action, each of which is a step of `LoginDesk` for the
one connection it moves and a stutter for all others. Half of the argument is
that no other connection changes its status: before the drain because the element
that a pop removes is the one in hand; after it because the status of an unjudged
connection depends on its socket and `Waiting` only, and the judged are free to
move (`Disturb`). KeptUntilReset is the positive half of `login_kept`: it adds that
only connections judged invalid are dropped before the drain (`DroppedInvalid`).

*ServerManager.* `ManagerInv` adds `LibrariesOK` to TypeOK and OneListener: WSA
is initialised only together with a context that is not freed, and Run goes on
after Init only with WSA. OneListener is also what makes `sockets` natural.

*MessageDb.* `DbInv` says where the statement's cursor is, for each place of a thread
that is `Alone`: at the row after those it has got if the last step found one, and
else behind all of them (`CursorAt`), with the cells of that row it has read
(`CellsAt`). AloneExact and OverlapsAreFinds both need it: an undisturbed thread
never reads a row that is not there. `MutexOK` is what keeps it: while a thread is
inside, another is inside only under the other mutex, and then neither is alone; so
each step has to be looked at for its own thread only (`LookupInv`). `LiveOK` (the
statement is finalized only while somebody is about to prepare the next) is what
keeps an undisturbed thread from using a finalized one. `At`, with the number of
rows got, is the loop invariant of the three loops.

*Connection.* ReleasedOnce needs only that pointer and socket never dangle, because
Shutdown resets both (`HandleOK`). EchoedOnce needs `StringOK`: whatever the peer
got was received before, and from a Receive to the Send the string in hand is none
of it; and `QueueOK`: a text is made only of a message that is in the queue.
PeerSeesReplies needs `RepliesInv`: between the making of a text and the Send the
string is the one for the message in front, before that it is no message's own text,
and each text on the wire belongs to a message that was queued. None of this bounds how
often a text is sent in part.
As with ReplyOrder, whole texts are counted with Cardinality. ConnectionTyped is about
the parsing: the fields that the Parse... functions cut out are texts for every
stream and every cut (`StreamsAssumption`: the streams are sequences of characters), and a
search for delimiters, each from where the last one was found, ends with a position
for each of them (`DelimitersType`; five at most, so the recursive function is unfolded
rather than treated by induction).

*Only model-checked:* everything under fairness (QueueServed, StopCompletes,
VerifiedServed, PortSignalled, OffReturns, LookupEnds, RepliesOffered, StopReleases), which
is out of the proof system's reach; and TextsParsed, which is a statement about the
given streams: for a stream of any characters it is false, since the Parse... functions
also accept texts that are not of their format. All other invariants of the passing runs are theorems.

## 5. Disagreements with the source's own comments

The five violated properties above, each with its lines in the project file. Others
were met and have no run, because reading two lines shows them:

* ProcessMessageToUser queues the message it was given (Server.cpp:368) and deletes
  it (397): the receiver thread makes a text of a deleted object.
* The text Messages.h:67 documents for a message lacks the "s:" that ParseMessage
  looks for, and Messages.h:192 has "u:" where 202 is searched for "f:": a peer that
  follows the comments gets unparsed objects. (MCConnection has both.)
* ParseLoginMsg and UserInfoRequest search for the second delimiter from before the first
  (Messages.cpp:42, 391) and find that one again, so that the second value is cut after
  five characters more than the first one has: "300;u:bob;p:longpassword;{e}" gives the
  password "longpass".
* substr's second argument is a length, and the Parse... functions give it the
  delimiter's index less one (Messages.cpp:37, 209, 340): a field goes on behind its
  value. The documented "201;u:forUsername;{e}" (Messages.h:230) gives a username that
  ends in ";{e}", which is no user's.
* HasInvalidConnections returns Empty() without a "!" (UserVerifier.cpp:189), so the
  manager pops the invalid queue when it is empty and passes it by when it is not: the
  "message indicating an invalid message was received" (ServerManager.cpp:259) is never
  sent. LoginDesk allows this, and VerifiedServed holds in spite of it.
* Two texts in one piece: the second is lost, since a string ends at the null.
* The replies to requests have no case in the switch (Server.cpp:90-98), so the client
  gets its own text back, or an empty one.
* NOT_FULLY_SENT sends the whole text again, there and at ServerManager.cpp:211: the
  peer gets the beginning as often as that happens.
* `recv` with a length of 0 returns 0 (ServerConnections.cpp:341), which ReceiveSocket
  takes for a peer that has closed (366): a plain connection is shut down at once.
* Accepted sockets are non-blocking, and SSL_accept's WANT_READ counts as a failure
  (ServerConnections.cpp:179-192).
* A client told "success" that AddClient refuses is neither served nor closed.
* Find... returns early for an invalid request, without an answer or a delete.
* ServerManager.h:197 says of CleanupWSA "must be called before the program ends if
  WSA was previously initialized"; ServerManager.cpp:488 cleans up only if it was not.
* `MessageToUser::ToId()` is never assigned and stored ids are 0, so that a routed
  message goes to the first element of the list, which belongs to nobody.
* FindFile and FindUserInformation delete the request and queue no answer.
* Run's default state is RUNNING, with which no listening socket is ever opened.
* Run keeps `m_runMutex` when it returns false.

## 6. Not modelled

* **SQLite** (sqlite3.c, sqlite3.h): vendored, 207 of the repository's 211 thousand
  lines. Modelling it is not this project's subject, so the share of all lines that
  the modules stand for stays small whatever else is modelled; of the program's own
  components the project maps most of what can run.
* SQL and the tables: a query returns any number of rows, or an error. OpenDb and
  CloseDb, and the accessors GetColumnInt, Double and Time, which nothing calls.
  MakeQueries of every message class is declared and nowhere defined.
* What the characters of a value are. The TLS handshake, file logs (LogManager) and
  OpenSSL's locking callbacks (SSL_concurrency.h), which only OpenSSL calls.
* ClientInfoList and the methods nobody calls (StopAcceptingConnections,
  CreateSSLContext, MoveObject, TryLock), the second and further
  servers of a manager, the memory test in ServerMain.cpp and the test client.

## 7. Plan

1. The positive halves of the other violated properties, as KeptUntilReset is for
   VerifiedKept: PortInForce when no port is set between the read and the SetState,
   with a history of the calls.
2. Several servers of one manager that share the master list, with ids that were
   kept, for routing between servers.
