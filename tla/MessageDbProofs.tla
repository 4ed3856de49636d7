-------------------------- MODULE MessageDbProofs --------------------------
(* MessageDb's safety properties, for any number of columns, rows and lookups: a
   lookup that overlaps with none gets exactly its rows and cannot fault, and
   lookups under one mutex never overlap. *)
EXTENDS MessageDb, TLAPS

\* The cursor is at a row of the statement; without a statement there is none.
CursorOK == stmt.at <= stmt.rows /\ (stmt.by = "nobody" => stmt.rows = 0)

\* Each thread calls its own functions, and only those that read are in a loop.
LoopPlaces == {"check", "read", "next", "stepped"}
Calls == [t \in Threads |-> IF t = "manager" THEN {"search", "nothing"}
                                             ELSE Kinds \ {"search"}]
KindOK(t) ==
    /\ kind[t] \in Calls[t]
    /\ t = "manager" /\ Inside(t) => kind[t] = "search"
    /\ pc[t] \in LoopPlaces => kind[t] \in Readers

\* Two threads are inside only under two mutexes, and both know it.
MutexOK ==
    \A t, u \in Threads : t # u /\ Inside(t) /\ Inside(u) =>
       overlapped[t] /\ MutexOf(kind[t]) # MutexOf(kind[u])

\* A statement is finalized only while somebody is about to prepare the next.
LiveOK == stmt.live \/ \E t \in Threads : pc[t] = "prepare"

Alone(t) == Inside(t) /\ ~overlapped[t]

\* Where the statement's cursor is, by the place of a thread that is alone: at the
\* row after those it has got when there is one, and else it has got all of them.
At(t, more) == IF more THEN stmt.at = Len(got[t]) + 1 ELSE stmt.rows = Len(got[t])
CursorAt(t) ==
    /\ pc[t] \in {"finalize", "prepare", "step", "executed"} => got[t] = <<>>
    /\ pc[t] \in {"step", "executed"} \cup LoopPlaces => stmt.by = t
    /\ pc[t] \in {"step", "next"} => stmt.at = Len(got[t])
    /\ pc[t] \in {"executed", "stepped"} => At(t, row[t])
    /\ pc[t] = "check" => At(t, hasRows)
    /\ pc[t] = "read" => At(t, TRUE)
    /\ pc[t] = "unlock" /\ kind[t] \in Readers => At(t, FALSE)

\* What it has read of the row the cursor is at.
CellsAt(t) ==
    IF pc[t] = "read"
      THEN /\ Len(cells[t]) < ColumnsOf(kind[t])
           /\ \A c \in 1 .. Len(cells[t]) : cells[t][c] = Cell
      ELSE cells[t] = <<>>

\* The rows it has got.
GotOf(t) ==
    kind[t] \in Readers /\ ~overlapped[t] =>
       \A i \in 1 .. Len(got[t]) : got[t][i] = OwnRow(t, kind[t], i)

DbInv ==
    /\ TypeOK /\ CursorOK /\ MutexOK /\ LiveOK /\ OverlapsAreFinds
    /\ \A t \in Threads : /\ KindOK(t) /\ GotOf(t)
                          /\ Alone(t) => CursorAt(t) /\ CellsAt(t)

-----------------------------------------------------------------------------
LEMMA DbInit == Init => DbInv
<1> SUFFICES ASSUME Init PROVE DbInv
  OBVIOUS
<1>1. TypeOK
  <2>1. stmt \in Statements
    BY BoundsAssumption DEF Init, NoStatement, Statements
  <2>2. /\ pc \in [Threads -> Places] /\ kind \in [Threads -> Kinds]
        /\ lookups \in [Threads -> 0 .. MaxLookups]
    BY BoundsAssumption DEF Init, Places, Kinds
  <2>3. cells \in [Threads -> Seq(Cells)] /\ got \in [Threads -> Seq(Seq(Cells))]
    BY DEF Init
  <2>4. /\ row \in [Threads -> BOOLEAN] /\ overlapped \in [Threads -> BOOLEAN]
        /\ hasRows \in BOOLEAN /\ fault \in BOOLEAN
    BY DEF Init
  <2> QED
    BY <2>1, <2>2, <2>3, <2>4 DEF TypeOK
<1>2. CursorOK /\ LiveOK
  BY DEF Init, CursorOK, LiveOK, NoStatement
<1>3. MutexOK /\ OverlapsAreFinds
  BY DEF Init, MutexOK, OverlapsAreFinds, Inside
<1>4. ASSUME NEW t \in Threads PROVE KindOK(t) /\ GotOf(t) /\ ~Alone(t)
  BY DEF Init, KindOK, GotOf, Alone, Inside, Calls, Kinds, LoopPlaces, Readers, Threads
<1> QED
  BY <1>1, <1>2, <1>3, <1>4 DEF DbInv

\* While a thread is inside, no other one is alone; so a step of a lookup has to
\* keep only what the invariant says of the thread that takes it.
LEMMA LookupInv ==
  ASSUME DbInv, NEW t \in Threads, Inside(t), NEW p \in Places,
         pc' = [pc EXCEPT ![t] = p],
         stmt' \in Statements, hasRows' \in BOOLEAN, kind' \in [Threads -> Kinds],
         row' \in [Threads -> BOOLEAN], cells' \in [Threads -> Seq(Cells)],
         got' \in [Threads -> Seq(Seq(Cells))],
         UNCHANGED <<lookups, overlapped, fault>>, CursorOK', LiveOK',
         \A u \in Threads \ {t} : kind'[u] = kind[u] /\ got'[u] = got[u],
         MutexOf(kind[t])' = MutexOf(kind[t]),
         kind'[t] \in {"record", "insert"} => kind[t] \in {"record", "insert"},
         KindOK(t)', GotOf(t)', Alone(t)' => CursorAt(t)' /\ CellsAt(t)'
  PROVE  DbInv'
<1> USE DEF DbInv
<1>1. pc \in [Threads -> Places]
  BY DEF TypeOK
<1>2. ASSUME NEW u \in Threads, u # t PROVE KindOK(u)' /\ GotOf(u)' /\ ~Alone(u)'
  <2>1. pc'[u] = pc[u]
    BY <1>1, <1>2
  <2>2. KindOK(u)'
    BY <1>2, <2>1 DEF KindOK, Inside
  <2>3. GotOf(u)'
    <3>1. GotOf(u) /\ kind'[u] = kind[u] /\ got'[u] = got[u] /\ overlapped' = overlapped
      BY <1>2
    <3>2. ASSUME kind[u] \in Readers, ~overlapped[u], NEW i \in 1 .. Len(got[u])
          PROVE  got'[u][i] = OwnRow(u, kind'[u], i)
      BY <3>1, <3>2 DEF GotOf
    <3> QED
      BY <3>1, <3>2 DEF GotOf
  <2>4. ~Alone(u)'
    BY <1>2, <2>1 DEF MutexOK, Alone, Inside
  <2> QED
    BY <2>2, <2>3, <2>4
<1>3. MutexOK'
  <2> SUFFICES ASSUME NEW u \in Threads, NEW v \in Threads, u # v,
                      Inside(u)', Inside(v)'
               PROVE  overlapped[u] /\ MutexOf(kind[u])' # MutexOf(kind[v])'
    BY DEF MutexOK
  <2>1. Inside(u) /\ Inside(v)
    BY <1>1 DEF Inside
  <2>2. MutexOf(kind[u])' = MutexOf(kind[u]) /\ MutexOf(kind[v])' = MutexOf(kind[v])
    BY DEF MutexOf
  <2> QED
    BY <2>1, <2>2 DEF MutexOK
<1>4. OverlapsAreFinds'
  BY DEF OverlapsAreFinds
<1>5. TypeOK'
  BY <1>1 DEF TypeOK
<1> QED
  BY <1>2, <1>3, <1>4, <1>5

LEMMA GotKept ==
  ASSUME NEW t, GotOf(t), kind'[t] = kind[t], got'[t] = got[t], overlapped' = overlapped
  PROVE  GotOf(t)'
<1>1. ASSUME kind[t] \in Readers, ~overlapped[t], NEW i \in 1 .. Len(got[t])
      PROVE  got'[t][i] = OwnRow(t, kind'[t], i)
  BY <1>1 DEF GotOf
<1> QED
  BY <1>1 DEF GotOf

\* What the invariant says of a thread that is inside, in the form the steps use.
LEMMA InsideFacts ==
  ASSUME DbInv, NEW t \in Threads, Inside(t)
  PROVE  /\ TypeOK /\ CursorOK /\ KindOK(t) /\ GotOf(t)
         /\ ~overlapped[t] => /\ Alone(t) /\ CursorAt(t) /\ CellsAt(t)
                              /\ pc[t] # "prepare" => stmt.live
<1>1. TypeOK /\ CursorOK /\ KindOK(t) /\ GotOf(t)
  BY DEF DbInv
<1>2. ASSUME ~overlapped[t] PROVE Alone(t) /\ CursorAt(t) /\ CellsAt(t)
  BY <1>2 DEF DbInv, Alone
<1>3. ASSUME ~overlapped[t], pc[t] # "prepare" PROVE stmt.live
  BY <1>3 DEF DbInv, LiveOK, MutexOK, Inside
<1> QED
  BY <1>1, <1>2, <1>3

LEMMA FinalizeInv ==
  ASSUME DbInv, NEW t \in Threads, Finalize(t)
  PROVE  DbInv'
<1>1. Inside(t) /\ "prepare" \in Places /\ pc' = [pc EXCEPT ![t] = "prepare"]
  BY DEF Finalize, Goto, Inside, Places
<1>2. TypeOK /\ CursorOK /\ KindOK(t) /\ GotOf(t)
  BY <1>1, InsideFacts
<1>3. UNCHANGED <<hasRows, row, cells, got, kind, lookups, overlapped, fault>>
  BY DEF Finalize, Local
<1>4. stmt' \in Statements
  BY <1>2 DEF TypeOK, Finalize, Statements
<1>5. CursorOK' /\ pc'[t] = "prepare"
  BY <1>1, <1>2 DEF TypeOK, Finalize, CursorOK, Statements
<1>6. KindOK(t)' /\ GotOf(t)'
  BY <1>1, <1>2, <1>3, <1>5, GotKept DEF KindOK, Inside, LoopPlaces
<1>7. ASSUME Alone(t)' PROVE CursorAt(t)' /\ CellsAt(t)'
  <2>1. pc[t] = "finalize" /\ CursorAt(t) /\ CellsAt(t)
    BY <1>1, <1>3, <1>7, InsideFacts DEF Finalize, Alone
  <2> QED
    BY <2>1, <1>3, <1>5 DEF CursorAt, CellsAt, LoopPlaces
<1> QED
  BY <1>1, <1>2, <1>3, <1>4, <1>5, <1>6, <1>7, LookupInv DEF TypeOK, LiveOK

LEMMA PrepareInv ==
  ASSUME DbInv, NEW t \in Threads, Prepare(t)
  PROVE  DbInv'
<1>1. Inside(t) /\ pc[t] = "prepare"
  BY DEF Prepare, Inside
<1>2. TypeOK /\ CursorOK /\ KindOK(t) /\ GotOf(t)
  BY <1>1, InsideFacts
<1>3. UNCHANGED <<hasRows, row, cells, got, kind, lookups, overlapped, fault>>
  BY DEF Prepare, Local
<1>4. PICK n \in 0 .. MaxRows :
        \/ stmt' = NoStatement /\ Goto(t, "unlock")
        \/ stmt' = [by |-> t, rows |-> n, at |-> 0, live |-> TRUE] /\ Goto(t, "step")
  BY BoundsAssumption DEF Prepare
<1>5. stmt' \in Statements /\ CursorOK' /\ stmt'.live
  <2>1. CASE stmt' = NoStatement
    BY <2>1, BoundsAssumption DEF NoStatement, Statements, CursorOK
  <2>2. CASE stmt' = [by |-> t, rows |-> n, at |-> 0, live |-> TRUE]
    <3>1. stmt' \in Statements /\ stmt'.live
      BY <2>2, BoundsAssumption DEF Statements
    <3>2. CursorOK'
      BY <2>2 DEF CursorOK, Threads
    <3> QED
      BY <3>1, <3>2
  <2> QED
    BY <1>4, <2>1, <2>2
<1>6. PICK p \in {"unlock", "step"} : pc' = [pc EXCEPT ![t] = p]
  BY <1>4 DEF Goto
<1>7. p \in Places /\ pc'[t] = p
  BY <1>2, <1>6 DEF TypeOK, Places
<1>8. KindOK(t)' /\ GotOf(t)'
  BY <1>1, <1>2, <1>3, <1>7, GotKept DEF KindOK, Inside, LoopPlaces
<1>9. ASSUME Alone(t)' PROVE CursorAt(t)' /\ CellsAt(t)'
  <2>1. CursorAt(t) /\ CellsAt(t)
    BY <1>1, <1>3, <1>9, InsideFacts DEF Alone
  <2>2. got'[t] = <<>> /\ cells'[t] = <<>> /\ Len(got'[t]) = 0
    BY <1>1, <1>3, <2>1 DEF CursorAt, CellsAt
  <2>3. CASE stmt' = NoStatement /\ Goto(t, "unlock")
    BY <2>2, <2>3, <1>2 DEF CursorAt, CellsAt, LoopPlaces, At, NoStatement, TypeOK, Goto
  <2>4. CASE stmt' = [by |-> t, rows |-> n, at |-> 0, live |-> TRUE] /\ Goto(t, "step")
    BY <2>2, <2>4, <1>2 DEF CursorAt, CellsAt, LoopPlaces, At, TypeOK, Goto
  <2> QED
    BY <1>4, <2>3, <2>4
<1> QED
  BY <1>1, <1>2, <1>3, <1>5, <1>6, <1>7, <1>8, <1>9, LookupInv DEF TypeOK, LiveOK

LEMMA StepInv ==
  ASSUME DbInv, NEW t \in Threads, Step(t)
  PROVE  DbInv'
<1> DEFINE p == IF pc[t] = "step" THEN "executed" ELSE "stepped"
<1>1. /\ Inside(t) /\ pc[t] \in {"step", "next"} /\ p \in Places
      /\ pc' = [pc EXCEPT ![t] = p]
  BY DEF Step, Goto, Inside, Places
<1>2. TypeOK /\ CursorOK /\ KindOK(t) /\ GotOf(t)
  BY <1>1, InsideFacts
<1>3. UNCHANGED <<hasRows, cells, got, kind, lookups, overlapped, fault>> /\ pc'[t] = p
  BY <1>1, <1>2 DEF Step, Local, TypeOK
<1>4. /\ stmt' = [stmt EXCEPT !.at = MovedTo] /\ stmt.live
      /\ row' = [row EXCEPT ![t] = stmt.at < stmt.rows]
  BY DEF Step
<1>5. stmt \in Statements /\ stmt.at <= stmt.rows /\ MovedTo \in 0 .. stmt.rows
  BY <1>2 DEF TypeOK, CursorOK, MovedTo, Statements
<1>6. stmt' \in Statements /\ stmt'.live
  <2>1. MovedTo \in 0 .. MaxRows
    BY <1>5, BoundsAssumption DEF Statements
  <2>2. stmt' \in Statements
    BY <1>4, <1>5, <2>1 DEF Statements
  <2>3. stmt'.live = stmt.live
    BY <1>4, <1>5 DEF Statements
  <2> QED
    BY <1>4, <2>2, <2>3
<1>7. CursorOK'
  BY <1>2, <1>4, <1>5 DEF CursorOK, Statements
<1>8. row' \in [Threads -> BOOLEAN]
  BY <1>2, <1>4 DEF TypeOK
<1>9. KindOK(t)' /\ GotOf(t)'
  <2>1. pc[t] = "next" => kind[t] \in Readers
    BY <1>2 DEF KindOK, LoopPlaces
  <2> QED
    BY <1>1, <1>2, <1>3, <2>1, GotKept DEF KindOK, Inside, LoopPlaces
<1>10. ASSUME Alone(t)' PROVE CursorAt(t)' /\ CellsAt(t)'
  <2>1. CursorAt(t) /\ CellsAt(t)
    BY <1>1, <1>3, <1>10, InsideFacts DEF Alone
  <2>2. stmt.at = Len(got[t]) /\ stmt.by = t /\ cells[t] = <<>>
    BY <1>1, <2>1 DEF CursorAt, CellsAt, LoopPlaces
  <2>3. At(t, row[t])'
    <3>1. CASE stmt.at < stmt.rows
      <4>1. stmt'.at = stmt.at + 1 /\ row'[t]
        BY <1>2, <1>4, <1>5, <3>1 DEF MovedTo, Statements, TypeOK
      <4> QED
        BY <4>1, <1>3, <2>2 DEF At
    <3>2. CASE ~(stmt.at < stmt.rows)
      <4>1. stmt'.rows = stmt.rows /\ stmt.rows = stmt.at
        BY <1>4, <1>5, <3>2 DEF Statements
      <4>2. ~row'[t]
        BY <1>2, <1>4, <3>2 DEF TypeOK
      <4> QED
        BY <4>1, <4>2, <1>3, <2>2 DEF At
    <3> QED
      BY <3>1, <3>2
  <2>4. stmt'.by = t
    BY <1>4, <1>5, <2>2 DEF Statements
  <2>5. p = "executed" => got[t] = <<>>
    BY <1>1, <2>1 DEF CursorAt
  <2>6. CursorAt(t)'
    BY <1>3, <2>3, <2>4, <2>5 DEF CursorAt, LoopPlaces
  <2>7. CellsAt(t)'
    BY <1>3, <2>2 DEF CellsAt
  <2> QED
    BY <2>6, <2>7
<1> HIDE DEF p
<1> QED
  BY <1>1, <1>2, <1>3, <1>6, <1>7, <1>8, <1>9, <1>10, LookupInv DEF TypeOK, LiveOK

LEMMA ExecutedInv ==
  ASSUME DbInv, NEW t \in Threads, Executed(t)
  PROVE  DbInv'
<1>1. /\ Inside(t) /\ pc[t] = "executed" /\ hasRows' = row[t]
      /\ UNCHANGED <<stmt, row, cells, got, lookups, overlapped, fault>>
  BY DEF Executed, Inside
<1>2. TypeOK /\ CursorOK /\ KindOK(t) /\ GotOf(t)
  BY <1>1, InsideFacts
<1>3. PICK p \in {"unlock", "check", "finalize"} :
        /\ pc' = [pc EXCEPT ![t] = p]
        /\ p = "check" => row[t] /\ kind[t] \in Readers
        /\ p = "unlock" /\ kind[t] \in Readers => ~row[t]
        /\ p = "finalize" => kind[t] = "record"
  <2>1. CASE ~row[t]
    BY <2>1 DEF Executed, Goto
  <2>2. CASE row[t] /\ kind[t] \in Readers
    <3>1. pc' = [pc EXCEPT ![t] = "check"]
      BY <1>2, <2>2 DEF Executed, Goto, ReadFirst, TypeOK, Readers
    <3> QED
      BY <2>2, <3>1
  <2>3. CASE row[t] /\ kind[t] = "record"
    BY <2>3 DEF Executed, Goto, Readers
  <2>4. CASE row[t] /\ kind[t] \notin Readers /\ kind[t] # "record"
    BY <2>4 DEF Executed, Goto
  <2> QED
    BY <2>1, <2>2, <2>3, <2>4
<1>4. p \in Places /\ pc'[t] = p
  BY <1>2, <1>3 DEF TypeOK, Places
<1>5. PICK k \in {kind[t], "insert"} :
        kind' = [kind EXCEPT ![t] = k] /\ (k # kind[t] => kind[t] = "record" /\ k = "insert")
  BY DEF Executed
<1>6. kind' \in [Threads -> Kinds] /\ kind'[t] = k
  BY <1>2, <1>5 DEF TypeOK, Kinds
<1>7. KindOK(t)'
  BY <1>1, <1>2, <1>3, <1>4, <1>5, <1>6
     DEF KindOK, Inside, LoopPlaces, Calls, Kinds, Threads, Readers
<1>8. GotOf(t)'
  <2>1. CASE k = kind[t]
    BY <1>1, <1>2, <1>6, <2>1, GotKept
  <2>2. CASE k = "insert"
    BY <1>6, <2>2 DEF GotOf, Readers
  <2> QED
    BY <1>5, <2>1, <2>2
<1>9. ASSUME Alone(t)' PROVE CursorAt(t)' /\ CellsAt(t)'
  <2>1. CursorAt(t) /\ CellsAt(t)
    BY <1>1, <1>9, InsideFacts DEF Alone
  <2>2. got[t] = <<>> /\ stmt.by = t /\ At(t, row[t]) /\ cells[t] = <<>>
    BY <1>1, <2>1 DEF CursorAt, CellsAt, LoopPlaces
  <2>3. p = "check" => At(t, hasRows)'
    BY <1>1, <1>3, <2>2 DEF At
  <2>4. p = "unlock" /\ kind'[t] \in Readers => At(t, FALSE)'
    BY <1>1, <1>3, <1>5, <1>6, <2>2 DEF At, Readers
  <2>5. CursorAt(t)'
    BY <1>1, <1>3, <1>4, <2>2, <2>3, <2>4 DEF CursorAt, LoopPlaces
  <2>6. CellsAt(t)'
    BY <1>1, <1>3, <1>4, <2>2 DEF CellsAt
  <2> QED
    BY <2>5, <2>6
<1>10. MutexOf(kind[t])' = MutexOf(kind[t])
  BY <1>5, <1>6 DEF MutexOf
<1>11. LiveOK'
  <2>1. PICK u \in Threads : stmt.live \/ pc[u] = "prepare"
    BY DEF DbInv, LiveOK, Threads
  <2>2. pc'[u] = pc[u] \/ u = t
    BY <1>2, <1>3 DEF TypeOK
  <2> QED
    BY <1>1, <2>1, <2>2 DEF LiveOK
<1>12. CursorOK' /\ hasRows' \in BOOLEAN
  BY <1>1, <1>2 DEF CursorOK, TypeOK
<1>13. \A u \in Threads \ {t} : kind'[u] = kind[u] /\ got'[u] = got[u]
  BY <1>1, <1>2, <1>5 DEF TypeOK
<1>14. kind'[t] \in {"record", "insert"} => kind[t] \in {"record", "insert"}
  BY <1>5, <1>6
<1> QED
  BY <1>1, <1>2, <1>3, <1>4, <1>6, <1>7, <1>8, <1>9, <1>10, <1>11, <1>12, <1>13, <1>14,
     LookupInv DEF TypeOK

\* The steps of a lookup that leave the statement, the functions and what was read
\* alone, and go on to p.
LEMMA OnwardInv ==
  ASSUME DbInv, NEW t \in Threads, Inside(t), pc[t] # "prepare", NEW p \in Places,
         pc' = [pc EXCEPT ![t] = p], hasRows' \in BOOLEAN,
         UNCHANGED <<stmt, kind, row, cells, got, lookups, overlapped, fault>>,
         p \in LoopPlaces => kind[t] \in Readers,
         Alone(t) /\ CursorAt(t) /\ CellsAt(t) => CursorAt(t)' /\ CellsAt(t)'
  PROVE  DbInv'
<1>1. TypeOK /\ CursorOK /\ KindOK(t) /\ GotOf(t)
  BY InsideFacts
<1>2. pc'[t] = p
  BY <1>1 DEF TypeOK
<1>3. KindOK(t)'
  BY <1>1, <1>2 DEF KindOK, Inside
<1>4. GotOf(t)'
  BY <1>1, GotKept
<1>5. CursorOK'
  BY <1>1 DEF CursorOK
<1>6. LiveOK'
  <2>1. stmt.live \/ \E u \in Threads : pc[u] = "prepare"
    BY DEF DbInv, LiveOK
  <2>2. \A u \in Threads : pc[u] = "prepare" => pc'[u] = "prepare"
    BY <1>1 DEF TypeOK
  <2> QED
    BY <2>1, <2>2 DEF LiveOK
<1>7. Alone(t)' => CursorAt(t)' /\ CellsAt(t)'
  BY InsideFacts DEF Alone
<1>8. MutexOf(kind[t])' = MutexOf(kind[t])
  BY DEF MutexOf
<1> QED
  BY <1>1, <1>3, <1>4, <1>5, <1>6, <1>7, <1>8, LookupInv DEF TypeOK

LEMMA SteppedInv ==
  ASSUME DbInv, NEW t \in Threads, Stepped(t)
  PROVE  DbInv'
<1>1. /\ Inside(t) /\ pc[t] = "stepped" /\ "check" \in Places /\ hasRows' = row[t]
      /\ pc' = [pc EXCEPT ![t] = "check"]
      /\ UNCHANGED <<stmt, kind, row, cells, got, lookups, overlapped, fault>>
  BY DEF Stepped, Inside, Places, Goto, Local
<1>2. TypeOK /\ KindOK(t)
  BY <1>1, InsideFacts
<1>3. hasRows' \in BOOLEAN /\ kind[t] \in Readers /\ pc'[t] = "check"
  BY <1>1, <1>2 DEF TypeOK, KindOK, LoopPlaces
<1>4. ASSUME CursorAt(t), CellsAt(t) PROVE CursorAt(t)' /\ CellsAt(t)'
  <2>1. stmt.by = t /\ At(t, row[t]) /\ cells[t] = <<>>
    BY <1>1, <1>4 DEF CursorAt, CellsAt, LoopPlaces
  <2>2. At(t, hasRows)'
    BY <1>1, <2>1 DEF At
  <2>3. CursorAt(t)'
    BY <1>1, <1>3, <2>1, <2>2 DEF CursorAt
  <2> QED
    BY <1>1, <1>3, <2>1, <2>3 DEF CellsAt
<1> QED
  BY <1>1, <1>3, <1>4, OnwardInv

LEMMA CheckInv ==
  ASSUME DbInv, NEW t \in Threads, Check(t)
  PROVE  DbInv'
<1> DEFINE p == IF hasRows THEN "read" ELSE "unlock"
<1>1. /\ Inside(t) /\ pc[t] = "check" /\ p \in Places
      /\ pc' = [pc EXCEPT ![t] = p]
      /\ UNCHANGED <<stmt, hasRows, kind, row, cells, got, lookups, overlapped, fault>>
  BY DEF Check, Inside, Places, Goto, Local
<1>2. TypeOK /\ KindOK(t)
  BY <1>1, InsideFacts
<1>3. hasRows' \in BOOLEAN /\ kind[t] \in Readers /\ pc'[t] = p
  BY <1>1, <1>2 DEF TypeOK, KindOK, LoopPlaces
<1>4. ASSUME CursorAt(t), CellsAt(t) PROVE CursorAt(t)' /\ CellsAt(t)'
  <2>1. stmt.by = t /\ At(t, hasRows) /\ cells[t] = <<>> /\ Len(cells[t]) = 0
    BY <1>1, <1>4 DEF CursorAt, CellsAt, LoopPlaces
  <2>2. IF hasRows THEN At(t, TRUE)' ELSE At(t, FALSE)'
    BY <1>1, <2>1 DEF At
  <2>3. CursorAt(t)'
    <3>1. CASE hasRows
      <4>1. pc'[t] = "read" /\ At(t, TRUE)' /\ stmt'.by = t
        BY <1>1, <1>3, <2>1, <2>2, <3>1
      <4> QED
        BY <4>1 DEF CursorAt
    <3>2. CASE ~hasRows
      <4>1. pc'[t] = "unlock" /\ At(t, FALSE)'
        BY <1>3, <2>2, <3>2
      <4> QED
        BY <4>1 DEF CursorAt, LoopPlaces
    <3> QED
      BY <3>1, <3>2
  <2>4. ColumnsOf(kind[t]) > 0
    BY ColumnsAssumption DEF ColumnsOf
  <2>5. CellsAt(t)'
    BY <1>1, <1>3, <2>1, <2>4 DEF CellsAt
  <2> QED
    BY <2>3, <2>5
<1> HIDE DEF p
<1> QED
  BY <1>1, <1>3, <1>4, OnwardInv

\* A list of equal cells, and one more, is a list of equal cells.
LEMMA AppendEqual ==
  ASSUME NEW S, NEW e \in S, NEW s \in Seq(S), \A c \in 1 .. Len(s) : s[c] = e
  PROVE  Append(s, e) = [c \in 1 .. Len(s) + 1 |-> e]
<1> DEFINE a == Append(s, e)
<1>1. a \in Seq(S) /\ Len(a) = Len(s) + 1
  OBVIOUS
<1>2. \A c \in 1 .. Len(s) + 1 : a[c] = e
  OBVIOUS
<1> HIDE DEF a
<1>3. a = [c \in 1 .. Len(a) |-> a[c]]
  BY <1>1
<1> QED
  BY <1>1, <1>2, <1>3 DEF a

LEMMA CellType ==
  ASSUME TypeOK, CursorOK, stmt.at > 0
  PROVE  Cell \in Cells
<1>1. stmt.at \in 0 .. MaxRows /\ stmt.rows \in 0 .. MaxRows
      /\ stmt.by \in Threads \cup {"nobody"}
  BY DEF TypeOK, Statements
<1>2. stmt.by \in Threads /\ stmt.at \in 1 .. MaxRows
  BY <1>1, BoundsAssumption DEF CursorOK
<1> QED
  BY <1>2 DEF Cell, Cells

LEMMA GetColumnTxtInv ==
  ASSUME DbInv, NEW t \in Threads, GetColumnTxt(t)
  PROVE  DbInv'
<1>1. /\ Inside(t) /\ pc[t] = "read" /\ stmt.live /\ stmt.at > 0
      /\ UNCHANGED <<stmt, hasRows, row, kind, lookups, overlapped, fault>>
  BY DEF GetColumnTxt, Inside, Local
<1>2. TypeOK /\ CursorOK /\ KindOK(t) /\ GotOf(t)
  BY <1>1, InsideFacts
<1>3. kind[t] \in Readers
  BY <1>1, <1>2 DEF KindOK, LoopPlaces
<1>4. CursorOK' /\ LiveOK' /\ MutexOf(kind[t])' = MutexOf(kind[t])
  BY <1>1, <1>2 DEF CursorOK, LiveOK, MutexOf
<1>5. /\ Cell \in Cells /\ Cell' = Cell
      /\ cells[t] \in Seq(Cells) /\ got[t] \in Seq(Seq(Cells))
  BY <1>1, <1>2, CellType DEF TypeOK, Cell
<1>6. Alone(t) => /\ stmt.by = t /\ stmt.at = Len(got[t]) + 1
                  /\ Len(cells[t]) < ColumnsOf(kind[t])
                  /\ \A c \in 1 .. Len(cells[t]) : cells[t][c] = Cell
  BY <1>1, InsideFacts DEF Alone, CursorAt, CellsAt, LoopPlaces, At
<1>7. CASE Len(cells[t]) + 1 < ColumnsOf(kind[t])
  <2>1. /\ cells' = [cells EXCEPT ![t] = Append(@, Cell)] /\ UNCHANGED <<got, pc>>
    BY <1>7 DEF GetColumnTxt
  <2>2. /\ cells' \in [Threads -> Seq(Cells)] /\ cells'[t] = Append(cells[t], Cell)
        /\ pc' = [pc EXCEPT ![t] = "read"] /\ "read" \in Places
    BY <1>1, <1>2, <1>5, <2>1 DEF TypeOK, Places
  <2>3. KindOK(t)' /\ GotOf(t)'
    BY <1>1, <1>2, <2>1, GotKept DEF KindOK, Inside
  <2>4. ASSUME Alone(t)' PROVE CursorAt(t)' /\ CellsAt(t)'
    <3>1. Alone(t)
      BY <1>1, <2>1, <2>4 DEF Alone, Inside
    <3>2. CursorAt(t)'
      <4>1. At(t, TRUE)' /\ pc'[t] = "read"
        BY <1>1, <1>6, <2>1, <3>1 DEF At
      <4> QED
        BY <1>1, <1>6, <3>1, <4>1 DEF CursorAt
    <3>3. /\ Len(cells'[t]) = Len(cells[t]) + 1
          /\ \A c \in 1 .. Len(cells'[t]) : cells'[t][c] = Cell
      BY <1>5, <1>6, <2>2, <3>1
    <3>4. CellsAt(t)'
      BY <1>1, <1>5, <1>7, <2>1, <3>3 DEF CellsAt
    <3> QED
      BY <3>2, <3>4
  <2> QED
    BY <1>1, <1>2, <1>4, <2>1, <2>2, <2>3, <2>4, LookupInv DEF TypeOK
<1>8. CASE ~(Len(cells[t]) + 1 < ColumnsOf(kind[t]))
  <2> DEFINE line == Append(cells[t], Cell)
  <2>1. /\ got' = [got EXCEPT ![t] = Append(@, line)]
        /\ cells' = [cells EXCEPT ![t] = <<>>]
        /\ pc' = [pc EXCEPT ![t] = "next"] /\ "next" \in Places
    BY <1>8 DEF GetColumnTxt, ThenStep, Goto, Places
  <2>2. line \in Seq(Cells)
    BY <1>5
  <2>3. Alone(t) => line = OwnRow(t, kind[t], Len(got[t]) + 1)
    <3>1. ColumnsOf(kind[t]) \in Nat /\ Len(cells[t]) \in Nat
      BY <1>5, ColumnsAssumption DEF ColumnsOf
    <3>2. Alone(t) => Len(cells[t]) + 1 = ColumnsOf(kind[t])
      BY <1>6, <1>8, <3>1
    <3>3. Alone(t) => line = [c \in 1 .. Len(cells[t]) + 1 |-> Cell]
      BY <1>5, <1>6, AppendEqual
    <3>4. Alone(t) => Cell = [by |-> t, row |-> Len(got[t]) + 1]
      BY <1>6 DEF Cell
    <3> QED
      BY <3>2, <3>3, <3>4 DEF OwnRow
  <2> HIDE DEF line
  <2>4. /\ got' \in [Threads -> Seq(Seq(Cells))] /\ got'[t] = Append(got[t], line)
        /\ cells' \in [Threads -> Seq(Cells)] /\ cells'[t] = <<>> /\ pc'[t] = "next"
    BY <1>2, <1>5, <2>1, <2>2 DEF TypeOK
  <2>5. KindOK(t)'
    BY <1>1, <1>2, <1>3, <2>4 DEF KindOK, Inside
  <2>6. Len(got'[t]) = Len(got[t]) + 1
    BY <1>5, <2>2, <2>4
  <2>7. GotOf(t)'
    <3> SUFFICES ASSUME ~overlapped[t], NEW i \in 1 .. Len(got'[t])
                 PROVE  got'[t][i] = OwnRow(t, kind[t], i)
      BY <1>1 DEF GotOf
    <3>1. Alone(t)
      BY <1>1 DEF Alone
    <3>2. CASE i = Len(got[t]) + 1
      BY <1>5, <2>2, <2>3, <2>4, <3>1, <3>2
    <3>3. CASE i # Len(got[t]) + 1
      <4>1. i \in 1 .. Len(got[t])
        BY <1>5, <2>6, <3>3
      <4>2. got[t][i] = OwnRow(t, kind[t], i)
        BY <1>2, <1>3, <4>1 DEF GotOf
      <4> QED
        BY <1>5, <2>2, <2>4, <4>1, <4>2
    <3> QED
      BY <3>2, <3>3
  <2>8. ASSUME Alone(t)' PROVE CursorAt(t)' /\ CellsAt(t)'
    <3>1. Alone(t)
      BY <1>1, <2>8 DEF Alone
    <3>2. CursorAt(t)'
      BY <1>1, <1>6, <2>4, <2>6, <3>1 DEF CursorAt
    <3> QED
      BY <2>4, <3>2 DEF CellsAt
  <2>9. \A u \in Threads \ {t} : kind'[u] = kind[u] /\ got'[u] = got[u]
    BY <1>1, <1>2, <2>1 DEF TypeOK
  <2> QED
    BY <1>1, <1>2, <1>4, <2>1, <2>4, <2>5, <2>7, <2>8, <2>9, LookupInv DEF TypeOK
<1> QED
  BY <1>7, <1>8

LEMMA UnlockInv ==
  ASSUME DbInv, NEW t \in Threads, Unlock(t)
  PROVE  DbInv'
<1>1. /\ Inside(t) /\ pc[t] = "unlock" /\ "idle" \in Places
      /\ pc' = [pc EXCEPT ![t] = "idle"]
      /\ UNCHANGED <<stmt, hasRows, kind, row, cells, got, lookups, overlapped, fault>>
  BY DEF Unlock, Inside, Places, Goto, Local
<1>2. TypeOK
  BY <1>1, InsideFacts
<1>3. hasRows' \in BOOLEAN /\ pc'[t] = "idle"
  BY <1>1, <1>2 DEF TypeOK
<1>4. ASSUME CursorAt(t), CellsAt(t) PROVE CursorAt(t)' /\ CellsAt(t)'
  BY <1>1, <1>3, <1>4 DEF CursorAt, CellsAt, LoopPlaces
<1> QED
  BY <1>1, <1>3, <1>4, OnwardInv DEF LoopPlaces

\* What a thread that begins a lookup finds: no lookup under the same mutex.
LEMMA LockInv ==
  ASSUME DbInv, ~fault, NEW t \in Threads, NEW k \in Kinds, Lock(t, k)
  PROVE  DbInv'
<1> DEFINE p == IF k = "nothing" THEN "unlock" ELSE "finalize"
<1>0. TypeOK /\ \A u \in Threads : KindOK(u) /\ GotOf(u)
  BY DEF DbInv
<1>1. /\ pc[t] = "idle" /\ lookups[t] < MaxLookups /\ k \in Asks[t] /\ p \in Places
      /\ \A u \in Threads : Inside(u) => MutexOf(kind[u]) # MutexOf(k)
      /\ UNCHANGED <<stmt, hasRows, row, fault>>
  BY DEF Lock, Places
<1>2. /\ pc' = [pc EXCEPT ![t] = p] /\ kind' = [kind EXCEPT ![t] = k]
      /\ got' = [got EXCEPT ![t] = <<>>] /\ cells' = [cells EXCEPT ![t] = <<>>]
      /\ lookups' = [lookups EXCEPT ![t] = @ + 1]
  BY DEF Lock, Goto
<1>3. overlapped' = [u \in Threads |-> IF u = t THEN \E v \in Threads : Inside(v)
                                                ELSE overlapped[u] \/ Inside(u)]
  BY DEF Lock
<1>4. overlapped'[t] <=> \E v \in Threads : Inside(v)
  BY <1>3
<1>5. ASSUME NEW u \in Threads, u # t
      PROVE  /\ overlapped'[u] <=> overlapped[u] \/ Inside(u)
             /\ pc'[u] = pc[u] /\ kind'[u] = kind[u] /\ got'[u] = got[u]
             /\ Inside(u)' <=> Inside(u)
  BY <1>0, <1>2, <1>3, <1>5 DEF TypeOK, Inside
<1>6. /\ pc'[t] = p /\ kind'[t] = k /\ got'[t] = <<>> /\ cells'[t] = <<>>
      /\ Inside(t)' /\ ~Inside(t)
  BY <1>0, <1>1, <1>2 DEF TypeOK, Inside
<1> HIDE DEF p
<1>7. TypeOK'
  <2>1. pc' \in [Threads -> Places] /\ kind' \in [Threads -> Kinds]
    BY <1>0, <1>1, <1>2 DEF TypeOK
  <2>2. cells' \in [Threads -> Seq(Cells)] /\ got' \in [Threads -> Seq(Seq(Cells))]
    BY <1>0, <1>2 DEF TypeOK
  <2>3. lookups' \in [Threads -> 0 .. MaxLookups]
    BY <1>0, <1>1, <1>2, BoundsAssumption DEF TypeOK
  <2>4. overlapped' \in [Threads -> BOOLEAN]
    <3>1. \A u \in Threads : overlapped'[u] \in BOOLEAN
      BY <1>0, <1>3 DEF TypeOK
    <3> QED
      BY <1>3, <3>1
  <2> QED
    BY <1>0, <1>1, <2>1, <2>2, <2>3, <2>4 DEF TypeOK
<1>8. k \in Calls[t] /\ (t = "manager" => k = "search")
  BY <1>1 DEF Asks, Calls, Threads, Kinds
<1>9. ASSUME NEW u \in Threads PROVE KindOK(u)' /\ GotOf(u)'
  <2>1. CASE u = t
    <3>1. KindOK(u)'
      BY <1>6, <1>8, <2>1 DEF KindOK, LoopPlaces, p, Calls
    <3>2. GotOf(u)'
      BY <1>6, <2>1 DEF GotOf
    <3> QED
      BY <3>1, <3>2
  <2>2. CASE u # t
    <3>1. KindOK(u)'
      BY <1>0, <1>5, <2>2 DEF KindOK, Calls
    <3>2. /\ GotOf(u) /\ got'[u] = got[u] /\ kind'[u] = kind[u]
          /\ overlapped[u] => overlapped'[u]
      BY <1>0, <1>5, <2>2
    <3>3. ASSUME kind[u] \in Readers, ~overlapped'[u], NEW i \in 1 .. Len(got[u])
          PROVE  got[u][i] = OwnRow(u, kind[u], i)
      BY <3>2, <3>3 DEF GotOf
    <3>4. GotOf(u)'
      BY <3>2, <3>3 DEF GotOf
    <3> QED
      BY <3>1, <3>4
  <2> QED
    BY <2>1, <2>2
<1>10. MutexOK'
  <2> SUFFICES ASSUME NEW u \in Threads, NEW v \in Threads, u # v,
                      Inside(u)', Inside(v)'
               PROVE  overlapped'[u] /\ MutexOf(kind[u])' # MutexOf(kind[v])'
    BY DEF MutexOK
  <2>1. MutexOf(kind[u])' = MutexOf(kind'[u]) /\ MutexOf(kind[v])' = MutexOf(kind'[v])
    BY DEF MutexOf
  <2>2. CASE u = t
    BY <1>1, <1>4, <1>5, <1>6, <2>1, <2>2
  <2>3. CASE v = t
    BY <1>1, <1>5, <1>6, <2>1, <2>3
  <2>4. CASE u # t /\ v # t
    BY <1>5, <2>1, <2>4 DEF DbInv, MutexOK
  <2> QED
    BY <2>2, <2>3, <2>4
<1>11. CursorOK' /\ LiveOK'
  BY <1>1, <1>5 DEF DbInv, CursorOK, LiveOK
<1>12. \A u \in Threads : overlapped'[u] => kind'[u] \notin {"record", "insert"}
  <2> SUFFICES ASSUME NEW u \in Threads, overlapped'[u],
                      kind'[u] \in {"record", "insert"}
               PROVE  FALSE
    OBVIOUS
  <2>1. PICK v \in Threads : v # u /\ (Inside(v) \/ v = t) /\ (Inside(u) \/ u = t)
    <3>1. CASE u = t
      BY <1>4, <1>6, <3>1
    <3>2. CASE u # t
      BY <1>5, <3>2 DEF DbInv, OverlapsAreFinds
    <3> QED
      BY <3>1, <3>2
  <2>2. kind'[u] \in Calls[u] /\ kind'[v] \in Calls[v]
    BY <1>9 DEF KindOK
  <2>3. u = "server" /\ v = "manager"
    BY <2>1, <2>2 DEF Calls, Threads
  <2>4. kind'[v] = "search"
    BY <1>9, <1>5, <1>6, <2>1, <2>3 DEF KindOK
  <2>5. MutexOf(kind'[u]) = MutexOf(kind'[v])
    BY <2>4 DEF MutexOf
  <2>6. CASE u = t
    BY <1>1, <1>5, <1>6, <2>1, <2>5, <2>6
  <2>7. CASE u # t
    BY <1>1, <1>5, <1>6, <2>1, <2>3, <2>5, <2>7 DEF Threads
  <2> QED
    BY <2>6, <2>7
<1>13. ASSUME NEW u \in Threads, Alone(u)' PROVE CursorAt(u)' /\ CellsAt(u)'
  <2>1. u = t
    BY <1>5, <1>13 DEF Alone
  <2>2. k = "nothing" => k \notin Readers
    BY DEF Readers
  <2> QED
    BY <1>6, <2>1, <2>2 DEF CursorAt, CellsAt, LoopPlaces, p
<1> QED
  BY <1>1, <1>7, <1>9, <1>10, <1>11, <1>12, <1>13 DEF DbInv, OverlapsAreFinds

LEMMA SameInv ==
  ASSUME DbInv, OverlapsAreFinds', fault' \in BOOLEAN,
         UNCHANGED <<stmt, hasRows, pc, kind, row, cells, got, lookups, overlapped>>
  PROVE  DbInv'
<1>1. TypeOK' /\ CursorOK' /\ MutexOK' /\ LiveOK'
  BY DEF DbInv, TypeOK, CursorOK, MutexOK, LiveOK, Inside, MutexOf
<1>2. ASSUME NEW u \in Threads
      PROVE  /\ KindOK(u)' /\ GotOf(u)'
             /\ Alone(u)' => CursorAt(u)' /\ CellsAt(u)'
  <2>1. KindOK(u) /\ GotOf(u) /\ (Alone(u) => CursorAt(u) /\ CellsAt(u))
    BY DEF DbInv
  <2>2. KindOK(u)' /\ GotOf(u)'
    BY <2>1, GotKept DEF KindOK, Inside, Calls
  <2>3. (Alone(u)' <=> Alone(u)) /\ (CursorAt(u)' <=> CursorAt(u))
    BY DEF Alone, Inside, CursorAt, At
  <2>4. CellsAt(u) => CellsAt(u)'
    BY DEF CellsAt, Cell
  <2> QED
    BY <2>1, <2>2, <2>3, <2>4
<1> QED
  BY <1>1, <1>2 DEF DbInv

LEMMA FaultyInv ==
  ASSUME DbInv, NEW t \in Threads, Faulty(t)
  PROVE  DbInv'
<1>1. /\ fault' = TRUE /\ Inside(t) /\ pc[t] # "prepare"
      /\ UNCHANGED <<stmt, hasRows, pc, kind, row, cells, got, lookups, overlapped>>
  BY DEF Faulty, threadVars, Inside
<1>2. ASSUME ~overlapped[t] PROVE FALSE
  <2>1. stmt.live /\ CursorAt(t) /\ TypeOK
    BY <1>1, <1>2, InsideFacts
  <2>2. pc[t] = "read" /\ stmt.at = 0
    BY <2>1 DEF Faulty
  <2>3. stmt.at = Len(got[t]) + 1
    BY <2>1, <2>2 DEF CursorAt, At
  <2>4. Len(got[t]) \in Nat
    BY <2>1 DEF TypeOK
  <2> QED
    BY <2>2, <2>3, <2>4
<1>3. OverlapsAreFinds'
  BY <1>1, <1>2 DEF OverlapsAreFinds, DbInv
<1> QED
  BY <1>1, <1>3, SameInv

-----------------------------------------------------------------------------
THEOREM DbInvariant == Spec => []DbInv
<1>1. DbInv /\ [Next]_vars => DbInv'
  <2> SUFFICES ASSUME DbInv, [Next]_vars PROVE DbInv'
    OBVIOUS
  <2>1. CASE UNCHANGED vars
    BY <2>1, SameInv DEF vars, threadVars, DbInv, TypeOK, OverlapsAreFinds
  <2>2. ASSUME ~fault, NEW t \in Threads, NEW k \in Kinds, Lock(t, k) PROVE DbInv'
    BY <2>2, LockInv
  <2>3. ASSUME NEW t \in Threads, Lookup(t) PROVE DbInv'
    BY <2>3, FinalizeInv, PrepareInv, StepInv, ExecutedInv, SteppedInv, CheckInv,
       GetColumnTxtInv, UnlockInv, FaultyInv DEF Lookup
  <2> QED
    BY <2>1, <2>2, <2>3 DEF Next, Ended
<1> QED
  BY <1>1, DbInit, PTL DEF Spec

\* Every variable of MessageDb keeps its type: what is read is always a cell of a row
\* of some statement (SQLiteDB.cpp:43-62).
THEOREM DbTypeCorrect == Spec => []TypeOK
<1>1. DbInv => TypeOK
  BY DEF DbInv
<1> QED
  BY <1>1, DbInvariant, PTL

\* A lookup during which there was no other gets exactly the rows of its query, for
\* any number of columns, rows and lookups (Server.cpp:341-351, 407-418, 434-453).
THEOREM AloneIsExact == Spec => []AloneExact
<1>1. DbInv => AloneExact
  <2> SUFFICES ASSUME DbInv, NEW t \in Threads, kind[t] \in Readers, ~overlapped[t]
               PROVE  /\ \A i \in 1 .. Len(got[t]) : got[t][i] = OwnRow(t, kind[t], i)
                      /\ pc[t] = "unlock" => Len(got[t]) = stmt.rows
    BY DEF AloneExact
  <2>1. \A i \in 1 .. Len(got[t]) : got[t][i] = OwnRow(t, kind[t], i)
    BY DEF DbInv, GotOf
  <2>2. ASSUME pc[t] = "unlock" PROVE Len(got[t]) = stmt.rows
    <3>1. CursorAt(t)
      BY <2>2, InsideFacts DEF Inside
    <3> QED
      BY <2>2, <3>1 DEF CursorAt, At
  <2> QED
    BY <2>1, <2>2
<1> QED
  BY <1>1, DbInvariant, PTL

\* Messages are searched for and recorded without an overlap, and without an overlap
\* no finalized statement and no missing row is used (Server.cpp:341, 386, 407, 434).
THEOREM OverlapsOnlyFinds == Spec => []OverlapsAreFinds
<1>1. DbInv => OverlapsAreFinds
  BY DEF DbInv
<1> QED
  BY <1>1, DbInvariant, PTL
=============================================================================
