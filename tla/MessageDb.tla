------------------------------ MODULE MessageDb ------------------------------
(* The message database of a Server: one SQLiteDb object (SQLiteDB.h,
   SQLiteDB.cpp) with one statement, which two threads use. The manager's thread
   looks for stored messages in AddClient (SearchForMessages); the server's thread
   records messages (ProcessMessageToUser) and answers requests (the four Find...
   functions). Each holds one mutex meanwhile, and not always the same one.

   A call of SQLite is one step: it is opened with SQLITE_OPEN_NOMUTEX, so that
   calls that overlap have no defined outcome, and these are the outcomes in which
   each takes effect at once. A use of a finalized statement, and the text of a
   column when there is no row (a null pointer), stop the program in fault. *)
EXTENDS Naturals, Sequences

CONSTANTS
    Columns,    \* columns FindConversation reads of a row
    MaxRows,    \* bound: rows a query has
    MaxRead,    \* bound: rows one lookup reads
    MaxLookups  \* bound: lookups a thread makes

ASSUME ColumnsAssumption == Columns \in Nat \ {0}
ASSUME BoundsAssumption == MaxRows \in Nat /\ MaxRead \in Nat /\ MaxLookups \in Nat

Threads == {"manager", "server"}

\* "record" is ProcessMessageToUser's SELECT, "insert" what it executes next;
\* "nothing" is FindFile and FindUserInformation, which only lock and unlock.
Kinds == {"search", "record", "insert", "list", "conversation", "nothing"}
Readers == {"search", "list", "conversation"}

\* Where each thread's lookups begin.
Asks == [t \in Threads |->
           IF t = "manager" THEN {"search"}
                            ELSE {"record", "list", "conversation", "nothing"}]

\* Mutant: the message is recorded under the other mutex.
MutexApart(kind) == IF kind = "search" THEN "m_msgDbMutex" ELSE "m_mutex"
\* The mutex each function locks: m_msgDbMutex of Server or SQLiteDb's own.
MutexOf(kind) ==
    IF kind \in {"search", "record", "insert"} THEN "m_msgDbMutex" ELSE "m_mutex"

\* The cells of a row that a function reads with GetColumnTxt.
ColumnsOf(kind) == IF kind = "conversation" THEN Columns ELSE 1

VARIABLES
    stmt,       \* what m_sqlStatement points to
    hasRows,    \* m_hasRows
    pc, kind,   \* each thread: where it is, in which function
    row,        \* the result of its last sqlite3_step was SQLITE_ROW
    cells, got, \* the cells of the row it is reading; the rows it has read
    lookups,    \* the lookups it has begun
    overlapped, \* history: the other thread was in a lookup during this one
    fault       \* undefined behaviour stopped the program

threadVars == <<pc, kind, row, cells, got, lookups, overlapped>>
vars == <<stmt, hasRows, threadVars, fault>>

\* m_sqlStatement is a null pointer, or points to a statement that by prepared,
\* with so many rows and the cursor at one of them (0: before the first, and after
\* the last, where SQLite starts over), and that is live or finalized.
NoStatement == [by |-> "nobody", rows |-> 0, at |-> 0, live |-> TRUE]
Statements ==
    [by : Threads \cup {"nobody"}, rows : 0 .. MaxRows, at : 0 .. MaxRows,
     live : BOOLEAN]

\* The cell sqlite3_column_text returns, of whose row it is.
Cells == [by : Threads, row : 1 .. MaxRows]
Cell == [by |-> stmt.by, row |-> stmt.at]

Init ==
    /\ stmt = NoStatement /\ hasRows = FALSE
    /\ pc = [t \in Threads |-> "idle"]
    /\ kind = [t \in Threads |-> "nothing"]
    /\ row = [t \in Threads |-> FALSE]
    /\ cells = [t \in Threads |-> <<>>] /\ got = [t \in Threads |-> <<>>]
    /\ lookups = [t \in Threads |-> 0]
    /\ overlapped = [t \in Threads |-> FALSE]
    /\ fault = FALSE

Inside(t) == pc[t] # "idle"
Goto(t, place) == pc' = [pc EXCEPT ![t] = place]
Local == UNCHANGED <<kind, lookups, overlapped, fault>>

-----------------------------------------------------------------------------
\* lock() on the mutex of the function.
Lock(t, k) ==
    /\ pc[t] = "idle" /\ lookups[t] < MaxLookups /\ k \in Asks[t]
    /\ \A u \in Threads : Inside(u) => MutexOf(kind[u]) # MutexOf(k)
    /\ Goto(t, IF k = "nothing" THEN "unlock" ELSE "finalize")
    /\ kind' = [kind EXCEPT ![t] = k]
    /\ got' = [got EXCEPT ![t] = <<>>] /\ cells' = [cells EXCEPT ![t] = <<>>]
    /\ lookups' = [lookups EXCEPT ![t] = @ + 1]
    /\ overlapped' = [u \in Threads |->
                        IF u = t THEN \E v \in Threads : Inside(v)
                                 ELSE overlapped[u] \/ Inside(u)]
    /\ UNCHANGED <<stmt, hasRows, row, fault>>

\* ExecuteStatement: sqlite3_finalize on the old statement, if there is one...
Finalize(t) ==
    /\ pc[t] = "finalize" /\ stmt.live
    /\ stmt' = IF stmt = NoStatement THEN stmt ELSE [stmt EXCEPT !.live = FALSE]
    /\ Goto(t, "prepare")
    /\ Local /\ UNCHANGED <<hasRows, row, cells, got>>

\* ... sqlite3_prepare_v2, which nulls the pointer if the text is no statement.
\* An INSERT has no rows; an error during a query ends its rows.
Prepare(t) ==
    /\ pc[t] = "prepare"
    /\ \/ stmt' = NoStatement /\ Goto(t, "unlock")
       \/ /\ \E n \in (IF kind[t] = "insert" THEN {0} ELSE 0 .. MaxRows) :
               stmt' = [by |-> t, rows |-> n, at |-> 0, live |-> TRUE]
          /\ Goto(t, "step")
    /\ Local /\ UNCHANGED <<hasRows, row, cells, got>>

\* Mutant: the cursor moves on past the last row.
MovedPast == stmt.at + 1
\* Where sqlite3_step moves the cursor: SQLITE_ROW, or SQLITE_DONE and the start.
MovedTo == IF stmt.at < stmt.rows THEN stmt.at + 1 ELSE 0

\* ... and StepNextRow, which the loops call again for the next row: sqlite3_step
\* with a null pointer is an error, and after SQLITE_DONE it starts over.
Step(t) ==
    /\ pc[t] \in {"step", "next"} /\ stmt.live
    /\ row' = [row EXCEPT ![t] = stmt.at < stmt.rows]
    /\ stmt' = [stmt EXCEPT !.at = MovedTo]
    /\ Goto(t, IF pc[t] = "step" THEN "executed" ELSE "stepped")
    /\ Local /\ UNCHANGED <<hasRows, cells, got>>

\* Mutant: the loop steps before it reads.
StepFirst == "next"
\* Where a function that reads goes with the first row.
ReadFirst == "check"

\* m_hasRows = res == SQLITE_ROW at the end of ExecuteStatement's StepNextRow, and
\* what its caller does with the result.
Executed(t) ==
    /\ pc[t] = "executed"
    /\ hasRows' = row[t]
    /\ Goto(t, CASE ~row[t] -> "unlock"
                 [] row[t] /\ kind[t] \in Readers -> ReadFirst
                 [] row[t] /\ kind[t] = "record" -> "finalize"
                 [] OTHER -> "unlock")
    /\ kind' = [kind EXCEPT ![t] = IF row[t] /\ @ = "record" THEN "insert" ELSE @]
    /\ UNCHANGED <<stmt, row, cells, got, lookups, overlapped, fault>>

\* m_hasRows = res == SQLITE_ROW at the end of a loop's StepNextRow.
Stepped(t) ==
    /\ pc[t] = "stepped"
    /\ hasRows' = row[t]
    /\ Goto(t, "check")
    /\ Local /\ UNCHANGED <<stmt, row, cells, got>>

\* while (HasRows()).
Check(t) ==
    /\ pc[t] = "check"
    /\ Goto(t, IF hasRows THEN "read" ELSE "unlock")
    /\ Local /\ UNCHANGED <<stmt, hasRows, row, cells, got>>

\* Mutant: the loop's StepNextRow is missing.
NotStepped == "check"
\* Where a function goes with a row it has read.
ThenStep == "next"

\* GetColumnTxt, once for each column; the last one completes the row.
GetColumnTxt(t) ==
    /\ pc[t] = "read" /\ stmt.live /\ stmt.at > 0 /\ Len(got[t]) < MaxRead
    /\ IF Len(cells[t]) + 1 < ColumnsOf(kind[t])
         THEN /\ cells' = [cells EXCEPT ![t] = Append(@, Cell)]
              /\ UNCHANGED <<got, pc>>
         ELSE /\ got' = [got EXCEPT ![t] = Append(@, Append(cells[t], Cell))]
              /\ cells' = [cells EXCEPT ![t] = <<>>]
              /\ Goto(t, ThenStep)
    /\ Local /\ UNCHANGED <<stmt, hasRows, row>>

\* unlock(). What was read is in the client's queue, or goes there in one reply.
Unlock(t) ==
    /\ pc[t] = "unlock"
    /\ Goto(t, "idle")
    /\ Local /\ UNCHANGED <<stmt, hasRows, row, cells, got>>

\* Somebody else finalized the statement, or moved it past its last row.
Faulty(t) ==
    /\ \/ pc[t] \in {"finalize", "step", "next", "read"} /\ ~stmt.live
       \/ pc[t] = "read" /\ stmt.at = 0
    /\ fault' = TRUE
    /\ UNCHANGED <<stmt, hasRows, threadVars>>

-----------------------------------------------------------------------------
Lookup(t) ==
    Finalize(t) \/ Prepare(t) \/ Step(t) \/ Executed(t) \/ Stepped(t) \/ Check(t)
      \/ GetColumnTxt(t) \/ Unlock(t) \/ Faulty(t)

\* The program stopped, the bound of a lookup is reached, or no lookup is left.
Ended ==
    /\ \/ fault
       \/ \E t \in Threads : pc[t] = "read" /\ Len(got[t]) = MaxRead
       \/ \A t \in Threads : pc[t] = "idle" /\ lookups[t] = MaxLookups
    /\ UNCHANGED vars

Next ==
    \/ /\ ~fault
       /\ \E t \in Threads : Lookup(t) \/ \E k \in Kinds : Lock(t, k)
    \/ Ended

\* Each thread finishes what it has begun.
Fairness == \A t \in Threads : WF_vars(~fault /\ Lookup(t))

Spec == Init /\ [][Next]_vars
FairSpec == Spec /\ Fairness

-----------------------------------------------------------------------------
Places == {"idle", "finalize", "prepare", "step", "executed", "check", "read",
           "next", "stepped", "unlock"}

\* Every variable has its type.
TypeOK ==
    /\ stmt \in Statements /\ hasRows \in BOOLEAN
    /\ pc \in [Threads -> Places] /\ kind \in [Threads -> Kinds]
    /\ row \in [Threads -> BOOLEAN]
    /\ cells \in [Threads -> Seq(Cells)]
    /\ got \in [Threads -> Seq(Seq(Cells))]
    /\ lookups \in [Threads -> 0 .. MaxLookups]
    /\ overlapped \in [Threads -> BOOLEAN] /\ fault \in BOOLEAN

\* Row i of t's own query, as the function of kind k reads it.
OwnRow(t, k, i) == [c \in 1 .. ColumnsOf(k) |-> [by |-> t, row |-> i]]

\* A lookup during which the other thread was in none reads the rows of its own
\* query, each once and in order, and when it ends, all of them, although it
\* shares the statement and m_hasRows with every lookup before and after it
\* (Server.cpp:341-351, 407-418, 434-453; SQLiteDB.cpp:19-41, 64-69).
AloneExact ==
    \A t \in Threads : kind[t] \in Readers /\ ~overlapped[t] =>
       /\ \A i \in 1 .. Len(got[t]) : got[t][i] = OwnRow(t, kind[t], i)
       /\ pc[t] = "unlock" => Len(got[t]) = stmt.rows

\* Stored messages are looked for and recorded under one mutex: these never
\* overlap. What does, and only that, are lookups under the two different mutexes;
\* without such an overlap no statement is used that is finalized or has no row.
OverlapsAreFinds ==
    /\ \A t \in Threads : overlapped[t] => kind[t] \notin {"record", "insert"}
    /\ fault => \E t \in Threads : overlapped[t]

\* A lookup comes to its end and unlocks, unless the other thread's comes between.
LookupEnds ==
    \A t \in Threads :
       Inside(t) ~> (~Inside(t) \/ overlapped[t] \/ fault)

-----------------------------------------------------------------------------
(* What a comment of the source says, and the code does not do. *)

\* "This will find the messages associated with the conversation between
\* rcm->Requester() and rcm->Requested() and add them to the client's queue"
\* (Server.h:80-81): the rows of a reply are rows of its own query.
ReplyOwnRows ==
    kind["server"] = "conversation" =>
       \A i \in 1 .. Len(got["server"]) :
          \A c \in 1 .. Len(got["server"][i]) : got["server"][i][c].by = "server"
=============================================================================
