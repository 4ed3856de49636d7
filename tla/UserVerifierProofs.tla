------------------------- MODULE UserVerifierProofs -------------------------
(* The login pipeline, for any number of connections and any orders: its type, that
   a connection that waits for its login message is with the verifier alone, that
   every other has one holder until a RESET drains, and that the pipeline does what
   LoginDesk promises. *)
EXTENDS UserVerifier, TLAPS

\* The queues of judged connections, which the manager pops.
Answers == {"verified", "rejected", "invalid"}

\* What a sequence holds.
Elems(s) == {s[i] : i \in 1 .. Len(s)}

\* The verdict of a connection in queue q.
VerdictOf(q) == IF q = "pending" THEN "none" ELSE q

\* A connection is filed by its verdict: in a queue, in a hand that came from that
\* queue, or with a server. A hand that is between two calls holds nothing. This
\* holds even while two threads pop the same queue.
Filed ==
    /\ \A q \in Queues : \A c \in Elems(queue[q]) \ {Gone} : verdict[c] = VerdictOf(q)
    /\ mhand # Gone => mpc \in {"pop", "send"} /\ verdict[mhand] = mq
    /\ vhand # Gone => vpc \in {"receive", "drainPop"} /\ verdict[vhand] = VerdictOf(vq)
    /\ vpc \in {"take", "receive"} => vq = "pending"
    /\ \A c \in served : verdict[c] = "verified"
    /\ \A c \in Conns : socket[c] = "backlog" => verdict[c] = "none"

\* A queue s that only one thread pops, whose hand is given, and which is popping
\* when it is between Front and PopFront: no element is there twice, and what the
\* hand has is at most in front, there or moved from, and about to be popped.
Whole(s, hand, popping) ==
    /\ \A i, j \in 1 .. Len(s) : s[i] = s[j] => i = j
    /\ Gone \in Elems(s) => popping /\ hand # Gone /\ s[1] = Gone
    /\ hand \in Elems(s) => popping /\ s[1] = hand
    /\ popping /\ hand # Gone => s # <<>> /\ s[1] \in {hand, Gone}

\* The pending queue is the verifier's, also while it drains: an unjudged connection
\* that was accepted and not closed is in it or in the verifier's hand.
Waiting ==
    /\ Whole(queue["pending"], IF vq = "pending" THEN vhand ELSE Gone,
             vq = "pending" /\ vpc = "drainPop")
    /\ vq = "pending" /\ vpc \in {"take", "drainFront"} => queue["pending"] # <<>>
    /\ vq = "pending" /\ vpc \in {"receive", "drainPop"} => vhand # Gone
    /\ \A c \in Conns :
         /\ c \in Elems(queue["pending"]) => socket[c] = "open"
         /\ vhand = c /\ vq = "pending" => socket[c] = "open"
         /\ verdict[c] = "none" /\ socket[c] = "open" =>
              vhand = c \/ c \in Elems(queue["pending"])

\* Until a RESET drains, the other queues are the manager's, and what they and its
\* hand hold is open and not served. HasInvalidConnections sends the manager to an
\* invalid queue that is empty, so that it may pop with nothing in hand: there alone.
DrainPlaces == {"drain", "drainFront", "drainPop", "drained"}
Kept ==
    ~drained =>
      /\ vpc \notin DrainPlaces
      /\ \A q \in Answers : Whole(queue[q], IF mq = q THEN mhand ELSE Gone,
                                  mq = q /\ mpc = "pop")
      /\ mq # "invalid" /\ mpc = "front" => queue[mq] # <<>>
      /\ mq # "invalid" /\ mpc = "pop" => mhand # Gone
      /\ \A q \in Answers : \A c \in Elems(queue[q]) \ {Gone} :
            socket[c] = "open" /\ c \notin served
      /\ mhand # Gone => socket[mhand] = "open" /\ mhand \notin served

PipelineInv == TypeOK /\ Filed /\ Waiting /\ Kept

-----------------------------------------------------------------------------
(* What push_back, pop_front and a move from the front do to a sequence. *)

\* The front element was moved from.
Cleared(s) == [s EXCEPT ![1] = Gone]

LEMMA FirstElement ==
    ASSUME NEW s \in Seq(Holders), s # <<>>
    PROVE  /\ Len(s) \in Nat /\ Len(s) >= 1
           /\ Head(s) = s[1] /\ s[1] \in Elems(s) /\ s[1] \in Holders
<1>1. Len(s) \in Nat /\ Len(s) >= 1 /\ Head(s) = s[1]
  OBVIOUS
<1>2. 1 \in 1 .. Len(s)
  BY <1>1
<1>3. s[1] \in Elems(s)
  BY <1>2 DEF Elems
<1>4. s[1] \in Holders
  BY <1>2
<1>5. QED
  BY <1>1, <1>3, <1>4

LEMMA ElementsTyped ==
    ASSUME NEW s \in Seq(Holders)
    PROVE  Elems(s) \subseteq Holders
BY DEF Elems

LEMMA ElementsAppended ==
    ASSUME NEW s \in Seq(Holders), NEW c \in Holders
    PROVE  /\ Append(s, c) \in Seq(Holders) /\ Append(s, c) # <<>>
           /\ Elems(Append(s, c)) = Elems(s) \cup {c}
<1>1. Append(s, c) \in Seq(Holders) /\ Len(Append(s, c)) = Len(s) + 1 /\ Len(s) \in Nat
  OBVIOUS
<1>2. \A i \in 1 .. Len(s) : Append(s, c)[i] = s[i]
  OBVIOUS
<1>3. Append(s, c)[Len(s) + 1] = c
  OBVIOUS
<1>4. ASSUME NEW x \in Elems(Append(s, c)) PROVE x \in Elems(s) \cup {c}
  <2>1. PICK i \in 1 .. Len(s) + 1 : x = Append(s, c)[i]
    BY <1>1, <1>4 DEF Elems
  <2>2. CASE i = Len(s) + 1
    BY <2>1, <2>2, <1>3
  <2>3. CASE i \in 1 .. Len(s)
    BY <2>1, <2>3, <1>2 DEF Elems
  <2>4. QED
    BY <1>1, <2>2, <2>3
<1>5. ASSUME NEW x \in Elems(s) PROVE x \in Elems(Append(s, c))
  <2>1. PICK i \in 1 .. Len(s) : x = s[i]
    BY <1>5 DEF Elems
  <2>2. i \in 1 .. Len(Append(s, c)) /\ x = Append(s, c)[i]
    BY <2>1, <1>1, <1>2
  <2>3. QED
    BY <2>2 DEF Elems
<1>6. c \in Elems(Append(s, c))
  <2>1. Len(s) + 1 \in 1 .. Len(Append(s, c))
    BY <1>1
  <2>2. QED
    BY <2>1, <1>3 DEF Elems
<1>7. Append(s, c) # <<>>
  BY <1>1
<1>8. QED
  BY <1>1, <1>4, <1>5, <1>6, <1>7

LEMMA ElementsLeft ==
    ASSUME NEW s \in Seq(Holders), s # <<>>
    PROVE  /\ Rest(s) \in Seq(Holders)
           /\ Elems(Rest(s)) \subseteq Elems(s)
           /\ Elems(s) \subseteq Elems(Rest(s)) \cup {s[1]}
           /\ \A i \in 1 .. Len(Rest(s)) : i + 1 \in 1 .. Len(s) /\ Rest(s)[i] = s[i + 1]
<1>1. Rest(s) \in Seq(Holders) /\ Len(Rest(s)) = Len(s) - 1 /\ Len(s) \in Nat
  BY DEF Rest
<1>2. \A i \in 1 .. Len(Rest(s)) : i + 1 \in 1 .. Len(s) /\ Rest(s)[i] = s[i + 1]
  BY <1>1 DEF Rest
<1>3. ASSUME NEW x \in Elems(Rest(s)) PROVE x \in Elems(s)
  BY <1>2 DEF Elems
<1>4. ASSUME NEW x \in Elems(s), x # s[1] PROVE x \in Elems(Rest(s))
  <2>1. PICK i \in 1 .. Len(s) : x = s[i]
    BY DEF Elems
  <2>2. i # 1 /\ i - 1 \in 1 .. Len(Rest(s))
    BY <1>1, <1>4, <2>1
  <2>3. Rest(s)[i - 1] = s[(i - 1) + 1]
    BY <1>2, <2>2
  <2>4. x = Rest(s)[i - 1]
    BY <2>1, <2>2, <2>3
  <2>5. QED
    BY <2>2, <2>4 DEF Elems
<1>5. QED
  BY <1>1, <1>2, <1>3, <1>4

LEMMA ElementsCleared ==
    ASSUME NEW s \in Seq(Holders), s # <<>>
    PROVE  /\ Cleared(s) \in Seq(Holders) /\ Cleared(s) # <<>>
           /\ Len(Cleared(s)) = Len(s) /\ Cleared(s)[1] = Gone
           /\ \A i \in 1 .. Len(s) : i # 1 => Cleared(s)[i] = s[i]
           /\ Elems(Cleared(s)) \subseteq Elems(s) \cup {Gone}
           /\ Elems(s) \subseteq Elems(Cleared(s)) \cup {s[1]}
<1>1. Len(s) \in Nat /\ Len(s) >= 1 /\ Gone \in Holders
  BY FirstElement DEF Holders
<1>2. /\ Cleared(s) \in Seq(Holders) /\ Len(Cleared(s)) = Len(s)
      /\ Cleared(s)[1] = Gone
      /\ \A i \in 1 .. Len(s) : i # 1 => Cleared(s)[i] = s[i]
  BY <1>1 DEF Cleared
<1>3. Cleared(s) # <<>>
  BY <1>1, <1>2
<1>4. ASSUME NEW x \in Elems(Cleared(s)) PROVE x \in Elems(s) \cup {Gone}
  BY <1>2 DEF Elems
<1>5. ASSUME NEW x \in Elems(s), x # s[1] PROVE x \in Elems(Cleared(s))
  BY <1>2, <1>5 DEF Elems
<1>6. QED
  BY <1>2, <1>3, <1>4, <1>5

-----------------------------------------------------------------------------
(* What they do to a queue that one thread pops. *)

\* A connection that is new to the queue is pushed.
LEMMA WholePushed ==
    ASSUME NEW s \in Seq(Holders), NEW hand \in Holders, NEW p \in BOOLEAN,
           NEW c \in Conns, c # hand, c \notin Elems(s), Whole(s, hand, p)
    PROVE  Whole(Append(s, c), hand, p)
<1>1. /\ Len(Append(s, c)) = Len(s) + 1 /\ Len(s) \in Nat
      /\ \A i \in 1 .. Len(s) : Append(s, c)[i] = s[i] /\ s[i] \in Elems(s)
      /\ Append(s, c)[Len(s) + 1] = c
  BY DEF Elems
<1>2. c # Gone /\ c \in Holders
  BY GoneAssumption DEF Holders
<1>3. Elems(Append(s, c)) = Elems(s) \cup {c} /\ Append(s, c) # <<>>
  BY <1>2, ElementsAppended
<1>4. s # <<>> => Append(s, c)[1] = s[1]
  OBVIOUS
<1>5. ASSUME NEW i \in 1 .. Len(Append(s, c)), NEW j \in 1 .. Len(Append(s, c)),
             Append(s, c)[i] = Append(s, c)[j]
      PROVE  i = j
  BY <1>1, <1>5 DEF Whole
<1>6. \A x \in Elems(s) : s # <<>>
  BY DEF Elems
<1>7. QED
  BY <1>2, <1>3, <1>4, <1>5, <1>6 DEF Whole

\* A thread takes the front.
LEMMA WholeFront ==
    ASSUME NEW s \in Seq(Holders), s # <<>>, Whole(s, Gone, FALSE)
    PROVE  /\ s[1] \in Conns
           /\ Whole(s, s[1], TRUE)
           /\ Whole(Cleared(s), s[1], TRUE)
<1>1. Len(s) \in Nat /\ Len(s) >= 1 /\ s[1] \in Elems(s) /\ s[1] \in Holders
  BY FirstElement
<1>2. Gone \notin Elems(s) /\ s[1] # Gone /\ s[1] \in Conns
  BY <1>1 DEF Whole, Holders
<1>3. \A i, j \in 1 .. Len(s) : s[i] = s[j] => i = j
  BY DEF Whole
<1>4. Whole(s, s[1], TRUE)
  BY <1>1, <1>2, <1>3 DEF Whole
<1>5. /\ Len(Cleared(s)) = Len(s) /\ Cleared(s)[1] = Gone /\ Cleared(s) # <<>>
      /\ \A i \in 1 .. Len(s) : i # 1 => Cleared(s)[i] = s[i] /\ s[i] \in Elems(s)
  BY ElementsCleared DEF Elems
<1>6. \A i, j \in 1 .. Len(Cleared(s)) : Cleared(s)[i] = Cleared(s)[j] => i = j
  BY <1>1, <1>2, <1>3, <1>5
<1>7. s[1] \notin Elems(Cleared(s))
  BY <1>1, <1>2, <1>3, <1>5 DEF Elems
<1>8. Whole(Cleared(s), s[1], TRUE)
  BY <1>2, <1>5, <1>6, <1>7 DEF Whole
<1>9. QED
  BY <1>2, <1>4, <1>8

\* It pops what it took, or, with nothing in hand, whatever is in front.
LEMMA WholePopped ==
    ASSUME NEW s \in Seq(Holders), NEW hand \in Holders, s # <<>>,
           Whole(s, hand, TRUE)
    PROVE  /\ Whole(Rest(s), hand, FALSE)
           /\ Whole(Rest(s), Gone, FALSE)
           /\ Elems(Rest(s)) = Elems(s) \ {s[1]}
<1>1. /\ Rest(s) \in Seq(Holders) /\ Len(s) \in Nat /\ Len(s) >= 1
      /\ Elems(Rest(s)) \subseteq Elems(s)
      /\ Elems(s) \subseteq Elems(Rest(s)) \cup {s[1]}
      /\ \A i \in 1 .. Len(Rest(s)) : i + 1 \in 1 .. Len(s) /\ Rest(s)[i] = s[i + 1]
  BY ElementsLeft, FirstElement
<1>2. \A i, j \in 1 .. Len(s) : s[i] = s[j] => i = j
  BY DEF Whole
<1>3. s[1] \notin Elems(Rest(s))
  BY <1>1, <1>2 DEF Elems
<1>4. Gone \notin Elems(Rest(s)) /\ hand \notin Elems(Rest(s))
  BY <1>1, <1>3 DEF Whole
<1>5. \A i, j \in 1 .. Len(Rest(s)) : Rest(s)[i] = Rest(s)[j] => i = j
  <2>1. SUFFICES ASSUME NEW i \in 1 .. Len(Rest(s)), NEW j \in 1 .. Len(Rest(s)),
                        Rest(s)[i] = Rest(s)[j]
                 PROVE  i = j
    OBVIOUS
  <2>2. i + 1 \in 1 .. Len(s) /\ j + 1 \in 1 .. Len(s) /\ s[i + 1] = s[j + 1]
    BY <1>1, <2>1
  <2>3. i + 1 = j + 1
    BY <1>2, <2>2
  <2>4. QED
    BY <2>3
<1>6. QED
  BY <1>1, <1>3, <1>4, <1>5 DEF Whole

\* It is between two pops.
LEMMA WholeReleased ==
    ASSUME NEW s, NEW hand, NEW p, ~p, Whole(s, hand, p)
    PROVE  Whole(s, Gone, FALSE) /\ Gone \notin Elems(s) /\ hand \notin Elems(s)
BY DEF Whole

-----------------------------------------------------------------------------
(* What they do to the queues, and Shutdown to the connections. *)

LEMMA PushEffect ==
    ASSUME TypeOK, NEW q \in Queues, NEW c \in Holders, Push(q, c)
    PROVE  /\ queue' \in [Queues -> Seq(Holders)]
           /\ queue'[q] = Append(queue[q], c)
           /\ queue'[q] # <<>>
           /\ Elems(queue'[q]) = Elems(queue[q]) \cup {c}
           /\ \A r \in Queues \ {q} : queue'[r] = queue[r]
<1>1. queue \in [Queues -> Seq(Holders)] /\ queue[q] \in Seq(Holders)
  BY DEF TypeOK
<1>2. /\ Append(queue[q], c) \in Seq(Holders) /\ Append(queue[q], c) # <<>>
      /\ Elems(Append(queue[q], c)) = Elems(queue[q]) \cup {c}
  BY <1>1, ElementsAppended
<1>3. queue' = [queue EXCEPT ![q] = Append(queue[q], c)]
  BY DEF Push
<1>4. QED
  BY <1>1, <1>2, <1>3

LEMMA FrontEffect ==
    ASSUME TypeOK, NEW q \in Queues, NEW h \in Holders, Front(q, h)
    PROVE  /\ queue' \in [Queues -> Seq(Holders)] /\ fault' \in BOOLEAN
           /\ \A r \in Queues \ {q} : queue'[r] = queue[r]
           /\ \/ queue[q] = <<>> /\ h = Gone /\ queue' = queue
              \/ /\ queue[q] # <<>> /\ h = queue[q][1]
                 /\ queue'[q] = queue[q] \/ queue'[q] = Cleared(queue[q])
<1>1. queue \in [Queues -> Seq(Holders)] /\ queue[q] \in Seq(Holders)
  BY DEF TypeOK
<1>2. CASE queue[q] = <<>>
  <2>1. queue' = queue /\ h = Gone /\ fault' \in BOOLEAN
    BY <1>2 DEF Front
  <2>2. QED
    BY <1>1, <1>2, <2>1
<1>3. CASE queue[q] # <<>>
  <2>1. h = Head(queue[q]) /\ fault' = fault
    BY <1>3 DEF Front
  <2>2. h = queue[q][1]
    BY <1>1, <1>3, <2>1, FirstElement
  <2>3. fault' \in BOOLEAN
    BY <2>1 DEF TypeOK
  <2>4. queue' = queue \/ queue' = [queue EXCEPT ![q] = Cleared(queue[q])]
    BY <1>3 DEF Front, Cleared
  <2>5. Cleared(queue[q]) \in Seq(Holders)
    BY <1>1, <1>3, ElementsCleared
  <2>6. QED
    BY <1>1, <1>3, <2>2, <2>3, <2>4, <2>5
<1>4. QED
  BY <1>2, <1>3

LEMMA PopEffect ==
    ASSUME TypeOK, NEW q \in Queues, PopFront(q)
    PROVE  /\ queue' \in [Queues -> Seq(Holders)] /\ fault' \in BOOLEAN
           /\ \A r \in Queues \ {q} : queue'[r] = queue[r]
           /\ \/ queue[q] = <<>> /\ queue' = queue
              \/ queue[q] # <<>> /\ queue'[q] = Rest(queue[q])
<1>1. queue \in [Queues -> Seq(Holders)] /\ queue[q] \in Seq(Holders)
  BY DEF TypeOK
<1>2. CASE queue[q] = <<>>
  <2>1. queue' = queue /\ fault' \in BOOLEAN
    BY <1>2 DEF PopFront
  <2>2. QED
    BY <1>1, <1>2, <2>1
<1>3. CASE queue[q] # <<>>
  <2>1. queue' = [queue EXCEPT ![q] = Rest(queue[q])] /\ fault' = fault
    BY <1>3 DEF PopFront
  <2>2. fault' \in BOOLEAN
    BY <2>1 DEF TypeOK
  <2>3. Rest(queue[q]) \in Seq(Holders)
    BY <1>1, <1>3, ElementsLeft
  <2>4. QED
    BY <1>1, <1>3, <2>1, <2>2, <2>3
<1>4. QED
  BY <1>2, <1>3

LEMMA CloseEffect ==
    ASSUME TypeOK, NEW c, socket' = Closed(c)
    PROVE  /\ socket' \in [Conns -> {"backlog", "open", "closed"}]
           /\ c \in Conns => socket'[c] = "closed"
           /\ \A d \in Conns : d # c => socket'[d] = socket[d]
BY DEF TypeOK, Closed

-----------------------------------------------------------------------------
(* The types. *)

LEMMA ManagerTyped ==
    ASSUME TypeOK,
           Manager \/ \E s \in Orders : EndOfIteration(s)
    PROVE  TypeOK'
<1>g. Gone \in Holders /\ Conns \subseteq Holders
  BY DEF Holders
<1>n. ToNextQueue => /\ mpc' \in ManagerPlaces
                     /\ mq' \in {"verified", "rejected", "invalid"}
  BY DEF ToNextQueue, AfterQueue, TypeOK, ManagerPlaces
<1>q. mq \in Queues
  BY DEF TypeOK, Queues
<1>1. ASSUME NEW c \in Conns, Accept(c) PROVE TypeOK'
  <2>1. queue' \in [Queues -> Seq(Holders)]
    BY <1>1, <1>g, PushEffect DEF Accept, Queues
  <2>2. QED
    BY <1>1, <2>1 DEF Accept, TypeOK, managerVars, verifierVars, history
<1>2. CASE AcceptedAll
  BY <1>2 DEF AcceptedAll, TypeOK, ManagerPlaces, verifierVars, history
<1>3. CASE Check
  <2>1. mpc' \in ManagerPlaces /\ mq' \in {"verified", "rejected", "invalid"}
    BY <1>3, <1>n DEF Check, TypeOK, ManagerPlaces
  <2>2. QED
    BY <1>3, <2>1 DEF Check, TypeOK, verifierVars, history
<1>4. CASE TakeFront
  <2>1. PICK h \in Holders : Front(mq, h) /\ mhand' = h
    BY <1>4 DEF TakeFront
  <2>2. queue' \in [Queues -> Seq(Holders)] /\ fault' \in BOOLEAN
    BY <1>q, <2>1, FrontEffect
  <2>3. QED
    BY <1>4, <2>1, <2>2 DEF TakeFront, TypeOK, ManagerPlaces, verifierVars, history
<1>5. CASE TakePop
  <2>1. queue' \in [Queues -> Seq(Holders)] /\ fault' \in BOOLEAN
    BY <1>5, <1>q, PopEffect DEF TakePop
  <2>2. QED
    BY <1>5, <2>1 DEF TakePop, TypeOK, ManagerPlaces, verifierVars, history
<1>6. CASE Answered
  <2>1. mhand \in Conns
    BY <1>6 DEF Answered, TypeOK, Holders
  <2>2. socket' \in [Conns -> {"backlog", "open", "closed"}]
    BY <1>6, CloseEffect DEF Answered, TypeOK
  <2>3. served' \subseteq Conns
    BY <1>6, <2>1 DEF Answered, TypeOK
  <2>4. QED
    BY <1>6, <1>g, <1>n, <2>2, <2>3 DEF Answered, TypeOK, verifierVars
<1>7. CASE Unanswered
  <2>1. socket' \in [Conns -> {"backlog", "open", "closed"}]
    BY <1>7, CloseEffect DEF Unanswered, TypeOK
  <2>2. queue' \in [Queues -> Seq(Holders)]
    <3>1. CASE Readd(mq, mhand)
      BY <3>1, <1>q, PushEffect DEF Readd, TypeOK
    <3>2. CASE queue' = queue
      BY <3>2 DEF TypeOK
    <3>3. QED
      BY <1>7, <3>1, <3>2 DEF Unanswered
  <2>3. QED
    BY <1>7, <1>g, <1>n, <2>1, <2>2 DEF Unanswered, TypeOK, verifierVars, history
<1>8. CASE Shutdown
  BY <1>8 DEF Shutdown, TypeOK, ManagerPlaces, ServerStates, verifierVars, history
<1>9. ASSUME NEW s \in Orders, EndOfIteration(s) PROVE TypeOK'
  <2>1. s \in ServerStates
    BY OrdersAssumption
  <2>2. mpc' \in ManagerPlaces
    BY <1>9, <2>1 DEF EndOfIteration, ManagerPlaces, ServerStates
  <2>3. QED
    BY <1>9, <2>1, <2>2 DEF EndOfIteration, TypeOK, verifierVars, history
<1>10. QED
  BY <1>1, <1>2, <1>3, <1>4, <1>5, <1>6, <1>7, <1>8, <1>9 DEF Manager

LEMMA VerifierTyped ==
    ASSUME PipelineInv, Verifier
    PROVE  TypeOK'
<1>t. TypeOK
  BY DEF PipelineInv
<1>g. Gone \in Holders /\ Conns \subseteq Holders /\ "pending" \in Queues /\ vq \in Queues
  BY <1>t DEF Holders, Queues, TypeOK
<1>h. vpc = "receive" => vhand \in Conns
  BY <1>t DEF PipelineInv, Waiting, Filed, TypeOK, Holders
<1>1. CASE RunStart
  BY <1>t, <1>1 DEF RunStart, TypeOK, ServerStates, VerifierPlaces, managerVars, history
<1>2. CASE RunTop
  <2>1. vpc' \in VerifierPlaces
    BY <1>2 DEF RunTop, VerifierPlaces
  <2>2. drained' \in BOOLEAN
    BY <1>t, <1>2 DEF RunTop, TypeOK
  <2>3. QED
    BY <1>t, <1>2, <1>g, <2>1, <2>2 DEF RunTop, TypeOK, managerVars
<1>3. CASE TakePending
  <2>1. vpc = "take" /\ vq = "pending" /\ queue["pending"] # <<>>
    BY <1>3 DEF TakePending, PipelineInv, Waiting, Filed
  <2>2. queue["pending"] \in Seq(Holders) /\ queue \in [Queues -> Seq(Holders)]
    BY <1>t, <1>g DEF TypeOK
  <2>3. Head(queue["pending"]) \in Holders /\ Rest(queue["pending"]) \in Seq(Holders)
    BY <2>1, <2>2, FirstElement, ElementsLeft
  <2>4. queue' \in [Queues -> Seq(Holders)]
    BY <1>3, <2>2, <2>3 DEF TakePending
  <2>5. QED
    BY <1>t, <1>3, <2>3, <2>4 DEF TakePending, TypeOK, VerifierPlaces, managerVars, history
<1>4. CASE NoData
  <2>1. queue' \in [Queues -> Seq(Holders)]
    BY <1>t, <1>4, <1>g, <1>h, PushEffect DEF NoData
  <2>2. QED
    BY <1>t, <1>4, <1>g, <2>1 DEF NoData, TypeOK, VerifierPlaces, managerVars, history
<1>5. CASE Broken
  <2>1. socket' \in [Conns -> {"backlog", "open", "closed"}]
    BY <1>t, <1>5, CloseEffect DEF Broken
  <2>2. QED
    BY <1>t, <1>5, <1>g, <2>1 DEF Broken, TypeOK, VerifierPlaces, managerVars, history
<1>6. CASE Judge
  <2>1. PICK v \in Answers : Push(v, vhand) /\ verdict' = [verdict EXCEPT ![vhand] = v]
    BY <1>6 DEF Judge, Answers
  <2>2. v \in Queues /\ vhand \in Holders
    BY <1>t, <2>1 DEF Answers, Queues, TypeOK
  <2>3. queue' \in [Queues -> Seq(Holders)]
    BY <1>t, <2>1, <2>2, PushEffect
  <2>4. verdict' \in [Conns -> {"none", "verified", "rejected", "invalid"}]
    BY <1>t, <2>1 DEF TypeOK, Answers
  <2>5. QED
    BY <1>t, <1>6, <1>g, <2>3, <2>4 DEF Judge, TypeOK, VerifierPlaces, managerVars
<1>7. CASE DrainCheck
  <2>1. vpc' \in VerifierPlaces /\ vq' \in Queues
    BY <1>7, <1>g DEF DrainCheck, VerifierPlaces, Drained, Queues
  <2>2. QED
    BY <1>t, <1>7, <2>1 DEF DrainCheck, TypeOK, managerVars, history
<1>8. CASE DrainFront
  <2>1. PICK h \in Holders : Front(vq, h) /\ vhand' = h
    BY <1>8 DEF DrainFront
  <2>2. queue' \in [Queues -> Seq(Holders)] /\ fault' \in BOOLEAN
    BY <1>t, <1>g, <2>1, FrontEffect
  <2>3. QED
    BY <1>t, <1>8, <2>1, <2>2 DEF DrainFront, TypeOK, VerifierPlaces, managerVars, history
<1>9. CASE DrainPop
  <2>1. queue' \in [Queues -> Seq(Holders)] /\ fault' \in BOOLEAN
    BY <1>t, <1>9, <1>g, PopEffect DEF DrainPop
  <2>2. socket' \in [Conns -> {"backlog", "open", "closed"}]
    BY <1>t, <1>9, CloseEffect DEF DrainPop
  <2>3. QED
    BY <1>t, <1>9, <1>g, <2>1, <2>2
       DEF DrainPop, TypeOK, VerifierPlaces, managerVars, history
<1>10. CASE DrainEnd
  BY <1>t, <1>10 DEF DrainEnd, TypeOK, VerifierPlaces, ServerStates, managerVars, history
<1>11. CASE RunRead
  BY <1>t, <1>11 DEF RunRead, TypeOK, VerifierPlaces, managerVars, history
<1>12. QED
  BY <1>1, <1>2, <1>3, <1>4, <1>5, <1>6, <1>7, <1>8, <1>9, <1>10, <1>11 DEF Verifier

-----------------------------------------------------------------------------
(* The manager's steps. *)

\* The verifier's pending connection and the manager's hand are never the same; what
\* is in the queues, where the threads look, are queues.
LEMMA HandsApart ==
    ASSUME PipelineInv
    PROVE  /\ mhand # Gone => mhand \in Conns /\ (vq = "pending" => mhand # vhand)
           /\ mq \in Answers /\ mq # "pending" /\ mq \in Queues /\ vq \in Queues
           /\ "pending" \in Queues /\ Answers \subseteq Queues
           /\ Queues = Answers \cup {"pending"} /\ "pending" \notin Answers
           /\ \A q \in Queues :
                queue[q] \in Seq(Holders) /\ Elems(queue[q]) \subseteq Holders
           /\ queue \in [Queues -> Seq(Holders)]
<1>1. mhand # Gone => mhand \in Conns /\ verdict[mhand] = mq
  BY DEF PipelineInv, TypeOK, Filed, Holders
<1>2. vhand # Gone => verdict[vhand] = VerdictOf(vq)
  BY DEF PipelineInv, Filed
<1>3. mq \in Answers /\ mq # "pending" /\ mq # "none" /\ mq \in Queues /\ vq \in Queues
  BY DEF PipelineInv, TypeOK, Answers, Queues
<1>4. /\ "pending" \in Queues /\ Answers \subseteq Queues
      /\ Queues = Answers \cup {"pending"} /\ "pending" \notin Answers
  BY DEF Queues, Answers
<1>5. queue \in [Queues -> Seq(Holders)]
  BY DEF PipelineInv, TypeOK
<1>6. \A q \in Queues : queue[q] \in Seq(Holders) /\ Elems(queue[q]) \subseteq Holders
  BY <1>5, ElementsTyped
<1>7. QED
  BY <1>1, <1>2, <1>3, <1>4, <1>5, <1>6 DEF VerdictOf

\* A step of the manager that touches no queue and holds nothing.
LEMMA ManagerQuiet ==
    ASSUME PipelineInv, TypeOK', UNCHANGED <<queue, socket, verifierVars, history>>,
           mhand = Gone, mhand' = Gone, mpc # "pop", mpc' # "pop",
           mq' # "invalid" /\ mpc' = "front" => queue[mq'] # <<>>
    PROVE  PipelineInv'
<1>1. Filed'
  BY DEF PipelineInv, Filed, verifierVars, history
<1>2. Waiting'
  BY DEF PipelineInv, Waiting, verifierVars, history
<1>3. Kept'
  <2>1. SUFFICES ASSUME ~drained PROVE Kept'
    BY DEF Kept, history
  <2>2. \A q \in Answers : Whole(queue[q], Gone, FALSE)
    BY <2>1 DEF PipelineInv, Kept
  <2>3. \A q \in Answers : Whole(queue'[q], IF mq' = q THEN mhand' ELSE Gone,
                                 mq' = q /\ mpc' = "pop")
    BY <2>2
  <2>4. QED
    BY <2>1, <2>3 DEF PipelineInv, Kept, verifierVars, history
<1>4. QED
  BY <1>1, <1>2, <1>3 DEF PipelineInv

\* A step of the verifier that touches no queue and holds nothing.
LEMMA VerifierQuiet ==
    ASSUME PipelineInv, TypeOK', UNCHANGED <<queue, socket, managerVars, verdict, served>>,
           vhand = Gone, vhand' = Gone,
           vpc \notin {"receive", "drainPop"}, vpc' \notin {"receive", "drainPop"},
           vpc' = "take" => vq' = "pending",
           vq' = "pending" /\ vpc' \in {"take", "drainFront"} => queue["pending"] # <<>>,
           ~drained' => ~drained /\ vpc' \notin DrainPlaces
    PROVE  PipelineInv'
<1>1. Filed'
  BY DEF PipelineInv, Filed, managerVars
<1>2. Waiting'
  <2>1. Whole(queue["pending"], Gone, FALSE)
    BY DEF PipelineInv, Waiting
  <2>2. Whole(queue'["pending"], IF vq' = "pending" THEN vhand' ELSE Gone,
              vq' = "pending" /\ vpc' = "drainPop")
    BY <2>1
  <2>3. QED
    BY <2>2, GoneAssumption DEF PipelineInv, Waiting
<1>3. Kept'
  BY DEF PipelineInv, Kept, managerVars
<1>4. QED
  BY <1>1, <1>2, <1>3 DEF PipelineInv

\* A step that changes nothing.
LEMMA StutterKeeps ==
    ASSUME PipelineInv, UNCHANGED vars
    PROVE  PipelineInv'
BY DEF PipelineInv, TypeOK, Filed, Waiting, Kept, vars, managerVars, verifierVars, history

\* The verifier and its queue are not disturbed by the manager's work with the
\* answers.
LEMMA WaitingUndisturbed ==
    ASSUME PipelineInv, UNCHANGED <<verifierVars, verdict>>,
           queue'["pending"] = queue["pending"],
           \A c \in Conns : verdict[c] = "none" => socket'[c] = socket[c]
    PROVE  Waiting'
<1>1. \A c \in Elems(queue["pending"]) \ {Gone} : verdict[c] = "none"
  BY HandsApart DEF PipelineInv, Filed, VerdictOf
<1>2. vq = "pending" /\ vhand # Gone => verdict[vhand] = "none"
  BY DEF PipelineInv, Filed, VerdictOf
<1>3. \A c \in Conns :
         /\ c \in Elems(queue["pending"]) => socket'[c] = "open"
         /\ vhand = c /\ vq = "pending" => socket'[c] = "open"
         /\ verdict[c] = "none" /\ socket'[c] = "open" =>
              vhand = c \/ c \in Elems(queue["pending"])
  BY <1>1, <1>2, GoneAssumption DEF PipelineInv, Waiting
<1>4. QED
  BY <1>3 DEF PipelineInv, Waiting, verifierVars

LEMMA AcceptKeeps ==
    ASSUME PipelineInv, TypeOK', NEW c \in Conns, Accept(c)
    PROVE  PipelineInv'
<1>u. /\ socket[c] = "backlog" /\ socket' = [socket EXCEPT ![c] = "open"]
      /\ Push("pending", c) /\ mpc = "accept"
      /\ UNCHANGED <<vstate, managerVars, verifierVars, history, fault>>
  BY DEF Accept
<1>t. TypeOK /\ c \in Holders /\ c # Gone
  BY GoneAssumption DEF PipelineInv, Holders
<1>s. socket'[c] = "open" /\ \A d \in Conns \ {c} : socket'[d] = socket[d]
  BY <1>u, <1>t DEF TypeOK
<1>1. /\ queue'["pending"] = Append(queue["pending"], c)
      /\ queue'["pending"] # <<>>
      /\ Elems(queue'["pending"]) = Elems(queue["pending"]) \cup {c}
      /\ \A r \in Queues \ {"pending"} : queue'[r] = queue[r]
  BY <1>u, <1>t, PushEffect, HandsApart
<1>2. verdict[c] = "none"
  BY <1>u DEF PipelineInv, Filed
<1>3. c \notin Elems(queue["pending"]) /\ ~(vhand = c /\ vq = "pending")
  BY <1>u DEF PipelineInv, Waiting
<1>4. Filed'
  <2>1. \A q \in Queues : \A d \in Elems(queue'[q]) \ {Gone} : verdict[d] = VerdictOf(q)
    BY <1>1, <1>2 DEF PipelineInv, Filed, VerdictOf
  <2>2. QED
    BY <1>u, <1>s, <2>1 DEF PipelineInv, Filed, managerVars, verifierVars, history
<1>5. Waiting'
  <2>1. queue["pending"] \in Seq(Holders) /\ vhand \in Holders /\ Gone \in Holders
    BY <1>t, HandsApart DEF TypeOK, Holders
  <2>2. Whole(queue'["pending"], IF vq = "pending" THEN vhand ELSE Gone,
              vq = "pending" /\ vpc = "drainPop")
    BY <1>1, <1>3, <1>t, <2>1, WholePushed DEF PipelineInv, Waiting
  <2>3. \A d \in Conns :
         /\ d \in Elems(queue'["pending"]) => socket'[d] = "open"
         /\ vhand = d /\ vq = "pending" => socket'[d] = "open"
         /\ verdict[d] = "none" /\ socket'[d] = "open" =>
              vhand = d \/ d \in Elems(queue'["pending"])
    BY <1>1, <1>s, <1>3 DEF PipelineInv, Waiting
  <2>4. QED
    BY <1>u, <1>1, <2>2, <2>3 DEF PipelineInv, Waiting, verifierVars, history
<1>6. Kept'
  <2>1. \A q \in Answers : queue'[q] = queue[q] /\ c \notin Elems(queue[q])
    BY <1>1, <1>2, <1>t, HandsApart DEF PipelineInv, Filed, VerdictOf, Answers
  <2>2. mhand # c /\ c # Gone
    BY <1>2, <1>t DEF PipelineInv, Filed, TypeOK
  <2>3. SUFFICES ASSUME ~drained PROVE Kept'
    BY <1>u DEF Kept, history
  <2>4. \A q \in Answers : \A d \in Elems(queue'[q]) \ {Gone} :
          socket'[d] = "open" /\ d \notin served
    BY <1>s, <2>1, <2>3, HandsApart DEF PipelineInv, Kept, Holders
  <2>5. mhand # Gone => socket'[mhand] = "open" /\ mhand \notin served
    BY <1>s, <2>2, <2>3, HandsApart DEF PipelineInv, Kept
  <2>6. \A q \in Answers : Whole(queue'[q], IF mq = q THEN mhand ELSE Gone,
                                  mq = q /\ mpc = "pop")
    BY <2>1, <2>3 DEF PipelineInv, Kept
  <2>7. QED
    BY <1>u, <2>4, <2>5, <2>6 DEF PipelineInv, Kept, managerVars, verifierVars, history
<1>7. QED
  BY <1>4, <1>5, <1>6 DEF PipelineInv

LEMMA TakeFrontKeeps ==
    ASSUME PipelineInv, TypeOK', TakeFront
    PROVE  PipelineInv'
<1>u. /\ mpc = "front" /\ mpc' = "pop"
      /\ UNCHANGED <<socket, vstate, asked, mq, verifierVars, history>>
  BY DEF TakeFront
<1>t. TypeOK /\ mhand = Gone
  BY <1>u DEF PipelineInv, Filed
<1>h. PICK h \in Holders : Front(mq, h) /\ mhand' = h
  BY DEF TakeFront
<1>q. \A r \in Queues \ {mq} : queue'[r] = queue[r]
  BY <1>t, <1>h, FrontEffect, HandsApart
<1>e. CASE queue[mq] = <<>> /\ h = Gone /\ queue' = queue
  <2>1. Filed'
    BY <1>u, <1>e, <1>h DEF PipelineInv, Filed, verifierVars, history
  <2>2. Waiting'
    BY <1>u, <1>e, WaitingUndisturbed DEF history
  <2>3. Kept'
    <3>1. SUFFICES ASSUME ~drained PROVE Kept'
      BY <1>u DEF Kept, history
    <3>2. mq = "invalid"
      BY <1>u, <1>e, <3>1 DEF PipelineInv, Kept
    <3>3. \A q \in Answers : Whole(queue[q], Gone, FALSE)
      BY <1>t, <1>u, <3>1 DEF PipelineInv, Kept
    <3>4. \A q \in Answers :
           Whole(queue'[q], IF mq = q THEN mhand' ELSE Gone, mq = q /\ TRUE)
      BY <3>3, <1>e, <1>h DEF Whole
    <3>5. QED
      BY <1>u, <1>e, <1>h, <3>1, <3>2, <3>4 DEF PipelineInv, Kept, verifierVars, history
  <2>4. QED
    BY <2>1, <2>2, <2>3 DEF PipelineInv
<1>f. CASE /\ queue[mq] # <<>> /\ h = queue[mq][1]
           /\ queue'[mq] = queue[mq] \/ queue'[mq] = Cleared(queue[mq])
  <2>1. /\ Elems(queue'[mq]) \subseteq Elems(queue[mq]) \cup {Gone}
        /\ h \in Elems(queue[mq])
    BY <1>f, HandsApart, FirstElement, ElementsCleared
  <2>2. h # Gone => verdict[h] = mq
    BY <2>1, HandsApart DEF PipelineInv, Filed, VerdictOf
  <2>3. \A q \in Queues : \A d \in Elems(queue'[q]) \ {Gone} : d \in Elems(queue[q])
    BY <1>q, <2>1
  <2>4. Filed'
    BY <1>u, <1>h, <2>2, <2>3 DEF PipelineInv, Filed, verifierVars, history
  <2>5. Waiting'
    BY <1>u, <1>q, HandsApart, WaitingUndisturbed DEF history
  <2>6. Kept'
    <3>1. SUFFICES ASSUME ~drained PROVE Kept'
      BY <1>u DEF Kept, history
    <3>2. \A q \in Answers : Whole(queue[q], Gone, FALSE)
      BY <1>t, <1>u, <3>1 DEF PipelineInv, Kept
    <3>3. h \in Conns /\ Whole(queue'[mq], h, TRUE)
      BY <1>f, <3>2, HandsApart, WholeFront
    <3>4. \A q \in Answers : Whole(queue'[q], IF mq = q THEN h ELSE Gone, mq = q /\ TRUE)
      BY <3>2, <3>3, <1>q, HandsApart
    <3>5. h # Gone /\ socket[h] = "open" /\ h \notin served
      BY <2>1, <3>1, <3>3, GoneAssumption, HandsApart DEF PipelineInv, Kept
    <3>6. \A q \in Answers : \A d \in Elems(queue'[q]) \ {Gone} :
           socket[d] = "open" /\ d \notin served
      BY <2>3, <3>1, HandsApart DEF PipelineInv, Kept
    <3>7. QED
      BY <1>u, <1>h, <3>1, <3>4, <3>5, <3>6 DEF PipelineInv, Kept, verifierVars, history
  <2>7. QED
    BY <2>4, <2>5, <2>6 DEF PipelineInv
<1>7. QED
  BY <1>t, <1>h, <1>e, <1>f, FrontEffect, HandsApart

LEMMA TakePopKeeps ==
    ASSUME PipelineInv, TypeOK', TakePop
    PROVE  PipelineInv'
<1>u. /\ mpc = "pop" /\ mpc' = "send" /\ PopFront(mq)
      /\ UNCHANGED <<socket, vstate, asked, mq, mhand, verifierVars, history>>
  BY DEF TakePop
<1>q. /\ \A r \in Queues \ {mq} : queue'[r] = queue[r]
      /\ \/ queue[mq] = <<>> /\ queue' = queue
         \/ queue[mq] # <<>> /\ queue'[mq] = Rest(queue[mq])
  BY <1>u, PopEffect, HandsApart DEF PipelineInv
<1>e. \A q \in Queues : \A d \in Elems(queue'[q]) : d \in Elems(queue[q])
  BY <1>q, HandsApart, ElementsLeft
<1>1. Filed'
  BY <1>u, <1>e DEF PipelineInv, Filed, verifierVars, history
<1>2. Waiting'
  BY <1>u, <1>q, HandsApart, WaitingUndisturbed DEF history
<1>3. Kept'
  <2>1. SUFFICES ASSUME ~drained PROVE Kept'
    BY <1>u DEF Kept, history
  <2>2. \A q \in Answers : Whole(queue[q], IF mq = q THEN mhand ELSE Gone, mq = q /\ TRUE)
    BY <1>u, <2>1 DEF PipelineInv, Kept
  <2>3. Whole(queue'[mq], mhand, FALSE)
    <3>1. Whole(queue[mq], mhand, TRUE) /\ mhand \in Holders
      BY <2>2, HandsApart DEF PipelineInv, TypeOK
    <3>2. CASE queue[mq] = <<>> /\ queue' = queue
      BY <3>1, <3>2 DEF Whole, Elems
    <3>3. CASE queue[mq] # <<>> /\ queue'[mq] = Rest(queue[mq])
      BY <3>1, <3>3, WholePopped, HandsApart
    <3>4. QED
      BY <1>q, <3>2, <3>3
  <2>4. \A q \in Answers : Whole(queue'[q], IF mq = q THEN mhand ELSE Gone, FALSE)
    <3>1. SUFFICES ASSUME NEW q \in Answers
                   PROVE  Whole(queue'[q], IF mq = q THEN mhand ELSE Gone, FALSE)
      OBVIOUS
    <3>2. CASE q = mq
      BY <2>3, <3>2
    <3>3. CASE q # mq
      BY <2>2, <1>q, <3>3, HandsApart
    <3>4. QED
      BY <3>2, <3>3
  <2>5. \A q \in Answers : \A d \in Elems(queue'[q]) \ {Gone} :
           socket[d] = "open" /\ d \notin served
    BY <1>e, <2>1, HandsApart DEF PipelineInv, Kept
  <2>6. QED
    BY <1>u, <2>1, <2>4, <2>5 DEF PipelineInv, Kept, verifierVars, history
<1>4. QED
  BY <1>1, <1>2, <1>3 DEF PipelineInv

\* When the manager's hand is empty again, its queues are whole, and what it held is in
\* none of them.
LEMMA AfterSend ==
    ASSUME PipelineInv, mpc = "send", ToNextQueue
    PROVE  /\ mpc' # "front" /\ mpc' # "pop"
           /\ ~drained => /\ \A q \in Answers : Whole(queue[q], Gone, FALSE)
                          /\ \A q \in Answers : mhand # Gone => mhand \notin Elems(queue[q])
<1>1. mpc' # "front" /\ mpc' # "pop"
  BY DEF ToNextQueue
<1>2. ASSUME ~drained, NEW q \in Answers
      PROVE  Whole(queue[q], Gone, FALSE) /\ (mhand # Gone => mhand \notin Elems(queue[q]))
  <2>1. Whole(queue[q], IF mq = q THEN mhand ELSE Gone, FALSE)
    BY <1>2 DEF PipelineInv, Kept
  <2>2. Whole(queue[q], Gone, FALSE)
    BY <2>1, WholeReleased
  <2>3. CASE mq = q
    BY <2>1, <2>2, <2>3, WholeReleased
  <2>4. CASE mq # q
    <3>1. q \in Queues /\ mq # q /\ q # "pending"
      BY <2>4, HandsApart
    <3>2. mhand # Gone => verdict[mhand] = mq
      BY DEF PipelineInv, Filed
    <3>3. \A d \in Elems(queue[q]) \ {Gone} : verdict[d] = q
      BY <3>1 DEF PipelineInv, Filed, VerdictOf
    <3>4. QED
      BY <2>2, <3>1, <3>2, <3>3
  <2>5. QED
    BY <2>3, <2>4
<1>3. QED
  BY <1>1, <1>2

LEMMA AnsweredKeeps ==
    ASSUME PipelineInv, TypeOK', Answered
    PROVE  PipelineInv'
<1>u. /\ mpc = "send" /\ mhand # Gone /\ mhand' = Gone /\ ToNextQueue
      /\ UNCHANGED <<queue, vstate, asked, verifierVars, verdict, drained, fault>>
  BY DEF Answered
<1>h. mhand \in Conns /\ verdict[mhand] = mq /\ mq # "none"
  BY <1>u, HandsApart DEF PipelineInv, Filed, TypeOK
<1>s. /\ mq = "verified" => served' = served \cup {mhand} /\ socket' = socket
      /\ mq # "verified" => /\ served' = served /\ socket'[mhand] = "closed"
                            /\ \A d \in Conns : d # mhand => socket'[d] = socket[d]
  BY <1>h, CloseEffect DEF Answered, PipelineInv
<1>1. Filed'
  BY <1>u, <1>h, <1>s DEF PipelineInv, Filed, verifierVars
<1>2. Waiting'
  BY <1>u, <1>h, <1>s, WaitingUndisturbed
<1>3. Kept'
  <2>1. SUFFICES ASSUME ~drained PROVE Kept'
    BY <1>u DEF Kept
  <2>2. \A q \in Answers : Whole(queue'[q], IF mq' = q THEN mhand' ELSE Gone,
                                  mq' = q /\ mpc' = "pop")
    BY <1>u, <2>1, AfterSend
  <2>3. \A q \in Answers : \A d \in Elems(queue'[q]) \ {Gone} :
           d # mhand /\ d \in Conns /\ socket[d] = "open" /\ d \notin served
    BY <1>u, <2>1, AfterSend, HandsApart DEF PipelineInv, Kept, Holders
  <2>4. \A q \in Answers : \A d \in Elems(queue'[q]) \ {Gone} :
           socket'[d] = "open" /\ d \notin served'
    BY <1>s, <2>3
  <2>5. QED
    BY <1>u, <2>1, <2>2, <2>4, AfterSend DEF PipelineInv, Kept, verifierVars
<1>4. QED
  BY <1>1, <1>2, <1>3 DEF PipelineInv

LEMMA UnansweredKeeps ==
    ASSUME PipelineInv, TypeOK', Unanswered
    PROVE  PipelineInv'
<1>u. /\ mpc = "send" /\ mhand' = Gone /\ ToNextQueue
      /\ UNCHANGED <<vstate, asked, verifierVars, history, fault>>
  BY DEF Unanswered
<1>h. mhand # Gone => mhand \in Conns /\ verdict[mhand] = mq /\ mq # "none"
  BY HandsApart DEF PipelineInv, Filed, TypeOK
<1>r. CASE mhand # Gone /\ Readd(mq, mhand) /\ UNCHANGED socket
  <2>p. /\ \A q \in Queues \ {mq} : queue'[q] = queue[q]
        /\ queue'[mq] = Append(queue[mq], mhand)
        /\ Elems(queue'[mq]) = Elems(queue[mq]) \cup {mhand}
    BY <1>r, <1>h, PushEffect, HandsApart DEF Readd, Holders, PipelineInv
  <2>1. Filed'
    <3>1. \A q \in Queues : \A d \in Elems(queue'[q]) \ {Gone} : verdict[d] = VerdictOf(q)
      <4>1. SUFFICES ASSUME NEW q \in Queues, NEW d \in Elems(queue'[q]) \ {Gone}
                     PROVE  verdict[d] = VerdictOf(q)
        OBVIOUS
      <4>2. CASE d \in Elems(queue[q])
        BY <4>2 DEF PipelineInv, Filed
      <4>3. CASE d \notin Elems(queue[q])
        <5>1. q = mq /\ d = mhand
          BY <2>p, <4>3
        <5>2. QED
          BY <5>1, <1>h, <1>r, HandsApart DEF VerdictOf
      <4>4. QED
        BY <4>2, <4>3
    <3>2. QED
      BY <1>u, <1>r, <3>1 DEF PipelineInv, Filed, verifierVars, history
  <2>2. Waiting'
    BY <1>u, <1>r, <2>p, HandsApart, WaitingUndisturbed DEF history
  <2>3. Kept'
    <3>1. SUFFICES ASSUME ~drained PROVE Kept'
      BY <1>u DEF Kept, history
    <3>2. Whole(queue'[mq], Gone, FALSE)
      <4>1. Whole(queue[mq], Gone, FALSE) /\ mhand \notin Elems(queue[mq])
        BY <1>u, <1>r, <3>1, AfterSend, HandsApart
      <4>2. queue[mq] \in Seq(Holders) /\ Gone \in Holders /\ mhand \in Conns
        BY <1>r, <1>h, HandsApart DEF Holders
      <4>3. QED
        BY <1>r, <2>p, <4>1, <4>2, WholePushed
    <3>3. \A q \in Answers : Whole(queue'[q], IF mq' = q THEN mhand' ELSE Gone,
                                    mq' = q /\ mpc' = "pop")
      BY <1>u, <2>p, <3>1, <3>2, AfterSend, HandsApart
    <3>4. \A q \in Answers : \A d \in Elems(queue'[q]) \ {Gone} :
             socket[d] = "open" /\ d \notin served
      BY <1>r, <2>p, <3>1, HandsApart DEF PipelineInv, Kept
    <3>5. QED
      BY <1>u, <1>r, <3>1, <3>3, <3>4, AfterSend
         DEF PipelineInv, Kept, verifierVars, history
  <2>4. QED
    BY <2>1, <2>2, <2>3 DEF PipelineInv
<1>c. CASE socket' = Closed(mhand) /\ UNCHANGED queue
  <2>s. /\ mhand # Gone => socket'[mhand] = "closed"
        /\ \A d \in Conns : d # mhand => socket'[d] = socket[d]
    BY <1>h, <1>c, CloseEffect DEF PipelineInv
  <2>1. Filed'
    <3>1. \A d \in Conns : socket'[d] = "backlog" => verdict[d] = "none"
      BY <1>h, <2>s, GoneAssumption DEF PipelineInv, Filed
    <3>2. QED
      BY <1>u, <1>c, <3>1 DEF PipelineInv, Filed, verifierVars, history
  <2>2. Waiting'
    BY <1>u, <1>h, <1>c, <2>s, GoneAssumption, WaitingUndisturbed DEF history
  <2>3. Kept'
    <3>1. SUFFICES ASSUME ~drained PROVE Kept'
      BY <1>u DEF Kept, history
    <3>2. \A q \in Answers : Whole(queue'[q], IF mq' = q THEN mhand' ELSE Gone,
                                    mq' = q /\ mpc' = "pop")
      BY <1>u, <1>c, <3>1, AfterSend
    <3>3. \A q \in Answers : \A d \in Elems(queue'[q]) \ {Gone} :
             d # mhand /\ d \in Conns /\ socket[d] = "open" /\ d \notin served
      BY <1>u, <1>c, <3>1, AfterSend, HandsApart DEF PipelineInv, Kept, Holders
    <3>4. QED
      BY <1>u, <1>c, <2>s, <3>1, <3>2, <3>3, AfterSend
         DEF PipelineInv, Kept, verifierVars, history
  <2>4. QED
    BY <2>1, <2>2, <2>3 DEF PipelineInv
<1>3. QED
  BY <1>r, <1>c DEF Unanswered

LEMMA ManagerKeeps ==
    ASSUME PipelineInv, Manager \/ \E s \in Orders : EndOfIteration(s)
    PROVE  PipelineInv'
<1>t. TypeOK'
  BY ManagerTyped DEF PipelineInv
<1>n. ToNextQueue => mpc' # "front" /\ mpc' # "pop"
  BY DEF ToNextQueue
<1>1. ASSUME NEW c \in Conns, Accept(c) PROVE PipelineInv'
  BY <1>t, <1>1, AcceptKeeps
<1>2. CASE AcceptedAll
  <2>1. mhand = Gone
    BY <1>2 DEF AcceptedAll, PipelineInv, Filed
  <2>2. QED
    BY <1>t, <1>2, <2>1, ManagerQuiet DEF AcceptedAll
<1>3. CASE Check
  <2>1. mhand = Gone /\ mpc = "check"
    BY <1>3 DEF Check, PipelineInv, Filed
  <2>2. mq' # "invalid" /\ mpc' = "front" => queue[mq'] # <<>>
    BY <1>3, <1>n DEF Check, Has
  <2>3. mpc' # "pop"
    BY <1>3, <1>n DEF Check
  <2>4. QED
    BY <1>t, <1>3, <2>1, <2>2, <2>3, ManagerQuiet DEF Check
<1>4. CASE TakeFront
  BY <1>t, <1>4, TakeFrontKeeps
<1>5. CASE TakePop
  BY <1>t, <1>5, TakePopKeeps
<1>6. CASE Answered
  BY <1>t, <1>6, AnsweredKeeps
<1>7. CASE Unanswered
  BY <1>t, <1>7, UnansweredKeeps
<1>8. CASE Shutdown
  <2>1. mhand = Gone /\ mpc = "shutdown" /\ mpc' # "front" /\ mpc' # "pop"
    BY <1>8 DEF Shutdown, PipelineInv, Filed
  <2>2. QED
    BY <1>t, <1>8, <2>1, ManagerQuiet DEF Shutdown
<1>9. ASSUME NEW s \in Orders, EndOfIteration(s) PROVE PipelineInv'
  <2>1. mhand = Gone /\ mpc = "end"
    BY <1>9 DEF EndOfIteration, PipelineInv, Filed
  <2>2. mpc' # "front" /\ mpc' # "pop"
    BY <1>9, OrdersAssumption DEF EndOfIteration, ServerStates
  <2>3. QED
    BY <1>t, <1>9, <2>1, <2>2, ManagerQuiet DEF EndOfIteration
<1>10. QED
  BY <1>1, <1>2, <1>3, <1>4, <1>5, <1>6, <1>7, <1>8, <1>9 DEF Manager

-----------------------------------------------------------------------------
(* The verifier's steps. *)

\* The manager and its queues are not disturbed by the verifier's work with the
\* pending queue.
LEMMA KeptUndisturbed ==
    ASSUME PipelineInv, UNCHANGED <<managerVars, served, drained>>,
           ~drained => vpc' \notin DrainPlaces,
           \A q \in Answers : queue'[q] = queue[q],
           \A c \in Conns : verdict[c] # "none" => socket'[c] = socket[c]
    PROVE  Kept'
<1>1. SUFFICES ASSUME ~drained PROVE Kept'
  BY DEF Kept
<1>2. \A q \in Answers : \A c \in Elems(queue[q]) \ {Gone} :
         c \in Conns /\ verdict[c] # "none"
  BY HandsApart DEF PipelineInv, Filed, VerdictOf, Holders, Answers
<1>3. mhand # Gone => mhand \in Conns /\ verdict[mhand] # "none"
  BY HandsApart DEF PipelineInv, Filed, Answers
<1>4. \A q \in Answers : \A c \in Elems(queue'[q]) \ {Gone} :
         socket'[c] = "open" /\ c \notin served
  BY <1>1, <1>2 DEF PipelineInv, Kept
<1>5. mhand # Gone => socket'[mhand] = "open" /\ mhand \notin served
  BY <1>1, <1>3 DEF PipelineInv, Kept
<1>6. mq' \in Answers => queue'[mq'] = queue[mq]
  BY DEF managerVars
<1>7. QED
  BY <1>1, <1>4, <1>5, <1>6, HandsApart DEF PipelineInv, Kept, managerVars

LEMMA TakePendingKeeps ==
    ASSUME PipelineInv, TypeOK', TakePending
    PROVE  PipelineInv'
<1>u. /\ vpc = "take" /\ vpc' = "receive" /\ vhand' = Head(queue["pending"])
      /\ queue' = [queue EXCEPT !["pending"] = Rest(@)]
      /\ UNCHANGED <<socket, vstate, managerVars, vsst, vq, history, fault>>
  BY DEF TakePending
<1>p. vq = "pending" /\ vhand = Gone /\ queue["pending"] # <<>>
  BY <1>u DEF PipelineInv, Filed, Waiting
<1>w. Whole(queue["pending"], Gone, FALSE)
  BY <1>u, <1>p DEF PipelineInv, Waiting
<1>h. /\ vhand' = queue["pending"][1] /\ vhand' \in Conns /\ vhand' # Gone
      /\ vhand' \in Elems(queue["pending"])
  BY <1>u, <1>p, <1>w, FirstElement, WholeFront, HandsApart, GoneAssumption
<1>r. /\ queue'["pending"] = Rest(queue["pending"])
      /\ Elems(queue'["pending"]) = Elems(queue["pending"]) \ {vhand'}
      /\ Whole(queue'["pending"], vhand', FALSE)
  BY <1>u, <1>p, <1>w, <1>h, WholeFront, WholePopped, HandsApart DEF Holders
<1>q. \A q \in Answers : queue'[q] = queue[q]
  BY <1>u, HandsApart
<1>v. verdict[vhand'] = "none"
  BY <1>h, HandsApart DEF PipelineInv, Filed, VerdictOf
<1>1. Filed'
  <2>1. \A q \in Queues : Elems(queue'[q]) \subseteq Elems(queue[q])
    BY <1>r, <1>q, HandsApart
  <2>2. QED
    BY <1>u, <1>p, <1>v, <2>1 DEF PipelineInv, Filed, VerdictOf, managerVars, history
<1>2. Waiting'
  <2>1. \A c \in Conns :
         /\ c \in Elems(queue'["pending"]) => socket[c] = "open"
         /\ vhand' = c => socket[c] = "open"
         /\ verdict[c] = "none" /\ socket[c] = "open" =>
              vhand' = c \/ c \in Elems(queue'["pending"])
    BY <1>p, <1>h, <1>r, GoneAssumption DEF PipelineInv, Waiting
  <2>2. QED
    BY <1>u, <1>p, <1>h, <1>r, <2>1 DEF Waiting, history
<1>3. Kept'
  BY <1>u, <1>q, KeptUndisturbed DEF DrainPlaces, history
<1>4. QED
  BY <1>1, <1>2, <1>3 DEF PipelineInv

\* What the verifier holds while it waits for a login message.
LEMMA Receiving ==
    ASSUME PipelineInv, vpc = "receive"
    PROVE  /\ vhand \in Conns /\ vhand # Gone /\ vq = "pending"
           /\ verdict[vhand] = "none" /\ socket[vhand] = "open" /\ mhand # vhand
           /\ Whole(queue["pending"], Gone, FALSE)
           /\ \A q \in Queues : vhand \notin Elems(queue[q])
<1>1. vhand \in Conns /\ vhand # Gone /\ vq = "pending"
  BY DEF PipelineInv, Waiting, Filed, TypeOK, Holders
<1>2. Whole(queue["pending"], vhand, FALSE)
  BY <1>1 DEF PipelineInv, Waiting
<1>3. verdict[vhand] = "none"
  BY <1>1 DEF PipelineInv, Filed, VerdictOf
<1>4. socket[vhand] = "open"
  BY <1>1 DEF PipelineInv, Waiting
<1>5. Whole(queue["pending"], Gone, FALSE) /\ vhand \notin Elems(queue["pending"])
  BY <1>2, WholeReleased
<1>6. \A q \in Answers : vhand \notin Elems(queue[q])
  BY <1>1, <1>3, HandsApart DEF PipelineInv, Filed, VerdictOf, Answers
<1>7. QED
  BY <1>1, <1>3, <1>4, <1>5, <1>6, HandsApart

LEMMA NoDataKeeps ==
    ASSUME PipelineInv, TypeOK', NoData
    PROVE  PipelineInv'
<1>u. /\ vpc = "receive" /\ vpc' = "read" /\ vhand' = Gone /\ Push("pending", vhand)
      /\ UNCHANGED <<socket, vstate, managerVars, vsst, vq, history, fault>>
  BY DEF NoData
<1>p. /\ queue'["pending"] = Append(queue["pending"], vhand)
      /\ Elems(queue'["pending"]) = Elems(queue["pending"]) \cup {vhand}
      /\ \A q \in Answers : queue'[q] = queue[q]
  BY <1>u, PushEffect, Receiving, HandsApart DEF PipelineInv, Holders
<1>1. Filed'
  <2>1. \A q \in Queues : \A c \in Elems(queue'[q]) \ {Gone} : verdict[c] = VerdictOf(q)
    <3>1. SUFFICES ASSUME NEW q \in Queues, NEW c \in Elems(queue'[q]) \ {Gone}
                   PROVE  verdict[c] = VerdictOf(q)
      OBVIOUS
    <3>2. CASE c \in Elems(queue[q])
      BY <3>2 DEF PipelineInv, Filed
    <3>3. CASE c \notin Elems(queue[q])
      <4>1. q = "pending"
        BY <1>p, <3>3 DEF Queues, Answers
      <4>2. c = vhand
        BY <1>p, <3>3, <4>1
      <4>3. QED
        BY <1>u, <4>1, <4>2, Receiving DEF VerdictOf
    <3>4. QED
      BY <3>2, <3>3
  <2>2. QED
    BY <1>u, <2>1, Receiving DEF PipelineInv, Filed, managerVars, history
<1>2. Waiting'
  <2>1. Whole(queue'["pending"], Gone, FALSE)
    <3>1. /\ vhand \in Conns /\ vhand # Gone /\ vhand \notin Elems(queue["pending"])
          /\ Whole(queue["pending"], Gone, FALSE)
      BY <1>u, Receiving, HandsApart
    <3>2. queue["pending"] \in Seq(Holders) /\ Gone \in Holders
      BY HandsApart DEF Holders
    <3>3. QED
      BY <1>p, <3>1, <3>2, WholePushed
  <2>2. \A c \in Conns :
         /\ c \in Elems(queue'["pending"]) => socket[c] = "open"
         /\ verdict[c] = "none" /\ socket[c] = "open" => c \in Elems(queue'["pending"])
    BY <1>u, <1>p, Receiving DEF PipelineInv, Waiting
  <2>3. QED
    BY <1>u, <2>1, <2>2, GoneAssumption DEF Waiting, history
<1>3. Kept'
  BY <1>u, <1>p, KeptUndisturbed DEF DrainPlaces, history
<1>4. QED
  BY <1>1, <1>2, <1>3 DEF PipelineInv

LEMMA BrokenKeeps ==
    ASSUME PipelineInv, TypeOK', Broken
    PROVE  PipelineInv'
<1>u. /\ vpc = "receive" /\ vpc' = "read" /\ vhand' = Gone /\ socket' = Closed(vhand)
      /\ UNCHANGED <<queue, vstate, managerVars, vsst, vq, history, fault>>
  BY DEF Broken
<1>s. /\ socket'[vhand] = "closed"
      /\ \A c \in Conns : c # vhand => socket'[c] = socket[c]
  BY <1>u, CloseEffect, Receiving DEF PipelineInv
<1>1. Filed'
  <2>1. \A c \in Conns : socket'[c] = "backlog" => verdict[c] = "none"
    BY <1>s DEF PipelineInv, Filed
  <2>2. QED
    BY <1>u, <2>1 DEF PipelineInv, Filed, managerVars, history
<1>2. Waiting'
  <2>1. \A c \in Conns :
         /\ c \in Elems(queue["pending"]) => socket'[c] = "open"
         /\ verdict[c] = "none" /\ socket'[c] = "open" => c \in Elems(queue["pending"])
    BY <1>u, <1>s, Receiving, HandsApart DEF PipelineInv, Waiting
  <2>2. QED
    BY <1>u, <2>1, Receiving, GoneAssumption DEF Waiting, history
<1>3. Kept'
  BY <1>u, <1>s, Receiving, KeptUndisturbed DEF DrainPlaces, history
<1>4. QED
  BY <1>1, <1>2, <1>3 DEF PipelineInv

LEMMA JudgeKeeps ==
    ASSUME PipelineInv, TypeOK', Judge
    PROVE  PipelineInv'
<1>u. /\ vpc = "receive" /\ vpc' = "read" /\ vhand' = Gone
      /\ UNCHANGED <<socket, vstate, managerVars, vsst, vq, served, drained, fault>>
  BY DEF Judge
<1>v. PICK v \in Answers : Push(v, vhand) /\ verdict' = [verdict EXCEPT ![vhand] = v]
  BY DEF Judge, Answers
<1>p. /\ queue'[v] = Append(queue[v], vhand) /\ queue'[v] # <<>>
      /\ Elems(queue'[v]) = Elems(queue[v]) \cup {vhand}
      /\ \A q \in Queues \ {v} : queue'[q] = queue[q]
  BY <1>u, <1>v, PushEffect, Receiving, HandsApart DEF PipelineInv, Holders
<1>w. verdict'[vhand] = v /\ \A c \in Conns : c # vhand => verdict'[c] = verdict[c]
  BY <1>u, <1>v, Receiving DEF PipelineInv, TypeOK
<1>1. Filed'
  <2>1. ASSUME NEW q \in Queues, NEW c \in Elems(queue'[q]) \ {Gone}
        PROVE  verdict'[c] = VerdictOf(q)
    <3>1. CASE c \in Elems(queue[q])
      BY <1>u, <1>w, <3>1, Receiving, HandsApart DEF PipelineInv, Filed, Holders
    <3>2. CASE c \notin Elems(queue[q])
      <4>1. q = v /\ c = vhand
        BY <1>p, <3>2
      <4>2. QED
        BY <1>w, <4>1, HandsApart DEF VerdictOf
    <3>3. QED
      BY <3>1, <3>2
  <2>2. \A c \in served : verdict'[c] = "verified"
    BY <1>u, <1>w, Receiving DEF PipelineInv, Filed, TypeOK
  <2>3. \A c \in Conns : socket[c] = "backlog" => verdict'[c] = "none"
    BY <1>u, <1>w, Receiving DEF PipelineInv, Filed
  <2>4. mhand # Gone => mpc \in {"pop", "send"} /\ verdict'[mhand] = mq
    BY <1>u, <1>w, Receiving, HandsApart DEF PipelineInv, Filed
  <2>5. QED
    BY <1>u, <2>1, <2>2, <2>3, <2>4 DEF Filed, managerVars
<1>2. Waiting'
  <2>1. queue'["pending"] = queue["pending"]
    BY <1>p, HandsApart
  <2>2. \A c \in Conns :
         /\ c \in Elems(queue["pending"]) => socket[c] = "open"
         /\ verdict'[c] = "none" /\ socket[c] = "open" => c \in Elems(queue["pending"])
    BY <1>u, <1>w, Receiving, HandsApart DEF PipelineInv, Waiting, Answers
  <2>3. QED
    BY <1>u, <2>1, <2>2, Receiving, GoneAssumption DEF Waiting
<1>3. Kept'
  <2>1. SUFFICES ASSUME ~drained PROVE Kept'
    BY <1>u DEF Kept
  <2>2. \A q \in Answers : Whole(queue'[q], IF mq = q THEN mhand ELSE Gone,
                                  mq = q /\ mpc = "pop")
    <3>1. SUFFICES ASSUME NEW q \in Answers
                   PROVE  Whole(queue'[q], IF mq = q THEN mhand ELSE Gone,
                                mq = q /\ mpc = "pop")
      OBVIOUS
    <3>2. Whole(queue[q], IF mq = q THEN mhand ELSE Gone, mq = q /\ mpc = "pop")
      BY <2>1 DEF PipelineInv, Kept
    <3>3. CASE q # v
      BY <1>p, <3>2, <3>3, HandsApart
    <3>4. CASE q = v
      <4>1. /\ queue[v] \in Seq(Holders) /\ (IF mq = q THEN mhand ELSE Gone) \in Holders
            /\ vhand # (IF mq = q THEN mhand ELSE Gone) /\ vhand \notin Elems(queue[v])
            /\ vhand \in Conns /\ (mq = q /\ mpc = "pop") \in BOOLEAN
        BY <1>u, Receiving, HandsApart DEF Holders
      <4>2. QED
        BY <1>p, <3>2, <3>4, <4>1, WholePushed
    <3>5. QED
      BY <3>3, <3>4
  <2>3. \A c \in served : c # vhand
    BY <1>u, Receiving DEF PipelineInv, Filed
  <2>4. \A q \in Answers : \A c \in Elems(queue'[q]) \ {Gone} :
           socket[c] = "open" /\ c \notin served
    BY <1>u, <1>p, <2>1, <2>3, Receiving, HandsApart DEF PipelineInv, Kept
  <2>5. mq # "invalid" /\ mpc = "front" => queue'[mq] # <<>>
    BY <1>p, <2>1, HandsApart DEF PipelineInv, Kept
  <2>6. QED
    BY <1>u, <2>1, <2>2, <2>4, <2>5 DEF PipelineInv, Kept, managerVars, DrainPlaces
<1>4. QED
  BY <1>1, <1>2, <1>3 DEF PipelineInv

LEMMA DrainFrontKeeps ==
    ASSUME PipelineInv, TypeOK', DrainFront
    PROVE  PipelineInv'
<1>u. /\ vpc = "drainFront" /\ vpc' = "drainPop"
      /\ UNCHANGED <<socket, vstate, managerVars, vsst, vq, history>>
  BY DEF DrainFront
<1>d. drained /\ vhand = Gone
  BY <1>u DEF PipelineInv, Kept, Filed, DrainPlaces
<1>h. PICK h \in Holders : Front(vq, h) /\ vhand' = h
  BY DEF DrainFront
<1>q. /\ \A r \in Queues \ {vq} : queue'[r] = queue[r]
      /\ \/ queue[vq] = <<>> /\ h = Gone /\ queue' = queue
         \/ /\ queue[vq] # <<>> /\ h = queue[vq][1]
            /\ queue'[vq] = queue[vq] \/ queue'[vq] = Cleared(queue[vq])
  BY <1>h, FrontEffect, HandsApart DEF PipelineInv
<1>e. /\ \A q \in Queues : \A c \in Elems(queue'[q]) \ {Gone} : c \in Elems(queue[q])
      /\ h # Gone => h \in Elems(queue[vq])
  <2>1. CASE queue[vq] = <<>> /\ h = Gone /\ queue' = queue
    BY <2>1
  <2>2. CASE /\ queue[vq] # <<>> /\ h = queue[vq][1]
             /\ queue'[vq] = queue[vq] \/ queue'[vq] = Cleared(queue[vq])
    <3>1. /\ Elems(queue'[vq]) \subseteq Elems(queue[vq]) \cup {Gone}
          /\ h \in Elems(queue[vq])
      BY <2>2, HandsApart, FirstElement, ElementsCleared
    <3>2. QED
      BY <1>q, <3>1
  <2>3. QED
    BY <1>q, <2>1, <2>2
<1>1. Filed'
  <2>1. h # Gone => verdict[h] = VerdictOf(vq)
    BY <1>e, HandsApart DEF PipelineInv, Filed
  <2>2. QED
    BY <1>u, <1>h, <1>e, <2>1 DEF PipelineInv, Filed, managerVars, history
<1>2. Waiting'
  <2>1. CASE vq # "pending"
    <3>1. queue'["pending"] = queue["pending"]
      BY <1>q, <2>1, HandsApart
    <3>2. Whole(queue'["pending"], Gone, FALSE)
      BY <2>1, <3>1 DEF PipelineInv, Waiting
    <3>3. \A c \in Conns : verdict[c] = "none" /\ socket[c] = "open" =>
                              c \in Elems(queue["pending"])
      BY <1>d, GoneAssumption DEF PipelineInv, Waiting
    <3>4. QED
      BY <1>u, <2>1, <3>1, <3>2, <3>3 DEF PipelineInv, Waiting, history
  <2>2. CASE vq = "pending"
    <3>1. queue["pending"] # <<>> /\ Whole(queue["pending"], Gone, FALSE)
      BY <1>u, <1>d, <2>2 DEF PipelineInv, Waiting
    <3>2. h = queue["pending"][1] /\ h \in Conns /\ h # Gone
      BY <1>q, <2>2, <3>1, WholeFront, HandsApart, GoneAssumption
    <3>3. Whole(queue'["pending"], h, TRUE)
      BY <1>q, <2>2, <3>1, <3>2, WholeFront, HandsApart
    <3>4. Elems(queue["pending"]) \subseteq Elems(queue'["pending"]) \cup {h}
      BY <1>q, <2>2, <3>1, <3>2, ElementsCleared, HandsApart
    <3>5. \A c \in Conns :
         /\ c \in Elems(queue'["pending"]) => socket[c] = "open"
         /\ h = c => socket[c] = "open"
         /\ verdict[c] = "none" /\ socket[c] = "open" =>
              h = c \/ c \in Elems(queue'["pending"])
      BY <1>d, <1>e, <2>2, <3>2, <3>4, HandsApart, GoneAssumption DEF PipelineInv, Waiting
    <3>6. QED
      BY <1>u, <1>h, <2>2, <3>2, <3>3, <3>5 DEF Waiting, history
  <2>3. QED
    BY <2>1, <2>2
<1>3. Kept'
  BY <1>u, <1>d DEF Kept, history
<1>4. QED
  BY <1>1, <1>2, <1>3 DEF PipelineInv

LEMMA DrainPopKeeps ==
    ASSUME PipelineInv, TypeOK', DrainPop
    PROVE  PipelineInv'
<1>u. /\ vpc = "drainPop" /\ vpc' = "drain" /\ vhand' = Gone
      /\ PopFront(vq) /\ socket' = Closed(vhand)
      /\ UNCHANGED <<vstate, managerVars, vsst, vq, history>>
  BY DEF DrainPop
<1>d. drained
  BY <1>u DEF PipelineInv, Kept, DrainPlaces
<1>q. /\ \A r \in Queues \ {vq} : queue'[r] = queue[r]
      /\ \/ queue[vq] = <<>> /\ queue' = queue
         \/ queue[vq] # <<>> /\ queue'[vq] = Rest(queue[vq])
  BY <1>u, PopEffect, HandsApart DEF PipelineInv
<1>e. \A q \in Queues : \A c \in Elems(queue'[q]) : c \in Elems(queue[q])
  BY <1>q, HandsApart, ElementsLeft
<1>s. /\ vhand # Gone => socket'[vhand] = "closed"
      /\ \A c \in Conns : c # vhand => socket'[c] = socket[c]
  BY <1>u, CloseEffect DEF PipelineInv, TypeOK, Holders
<1>1. Filed'
  <2>1. \A c \in Conns : socket'[c] = "backlog" => verdict[c] = "none"
    BY <1>s, GoneAssumption DEF PipelineInv, Filed
  <2>2. QED
    BY <1>u, <1>e, <2>1 DEF PipelineInv, Filed, managerVars, history
<1>2. Waiting'
  <2>1. CASE vq # "pending"
    <3>1. queue'["pending"] = queue["pending"]
      BY <1>q, <2>1, HandsApart
    <3>2. Whole(queue'["pending"], Gone, FALSE)
      BY <2>1, <3>1 DEF PipelineInv, Waiting
    <3>3. \A c \in Conns : verdict[c] = "none" => c # vhand
      BY <2>1, GoneAssumption, HandsApart DEF PipelineInv, Filed, VerdictOf, Answers
    <3>4. \A c \in Conns :
         /\ c \in Elems(queue["pending"]) => socket'[c] = "open"
         /\ verdict[c] = "none" /\ socket'[c] = "open" => c \in Elems(queue["pending"])
      BY <1>s, <3>3, GoneAssumption, HandsApart DEF PipelineInv, Waiting, Filed, VerdictOf
    <3>5. QED
      BY <1>u, <2>1, <3>1, <3>2, <3>4 DEF Waiting, history
  <2>2. CASE vq = "pending"
    <3>1. vhand # Gone /\ vhand \in Conns
      BY <1>u, <2>2 DEF PipelineInv, Waiting, TypeOK, Holders
    <3>2. Whole(queue["pending"], vhand, TRUE)
      BY <1>u, <2>2 DEF PipelineInv, Waiting
    <3>3. queue["pending"] # <<>> /\ queue["pending"][1] \in {vhand, Gone}
      BY <3>1, <3>2 DEF Whole
    <3>4. queue'["pending"] = Rest(queue["pending"])
      BY <1>q, <2>2, <3>3
    <3>5. /\ Whole(queue'["pending"], vhand, FALSE) /\ Whole(queue'["pending"], Gone, FALSE)
          /\ Elems(queue'["pending"]) = Elems(queue["pending"]) \ {queue["pending"][1]}
      <4>1. queue["pending"] \in Seq(Holders) /\ vhand \in Holders
        BY <3>1, HandsApart DEF Holders
      <4>2. QED
        BY <4>1, <3>2, <3>3, <3>4, WholePopped
    <3>6. vhand \notin Elems(queue'["pending"])
      BY <3>5, WholeReleased
    <3>7. \A c \in Conns :
         /\ c \in Elems(queue'["pending"]) => socket'[c] = "open"
         /\ verdict[c] = "none" /\ socket'[c] = "open" => c \in Elems(queue'["pending"])
      BY <1>s, <3>1, <3>3, <3>5, <3>6, GoneAssumption DEF PipelineInv, Waiting
    <3>8. QED
      BY <1>u, <2>2, <3>5, <3>7, GoneAssumption DEF Waiting, history
  <2>3. QED
    BY <2>1, <2>2
<1>3. Kept'
  BY <1>u, <1>d DEF Kept, history
<1>4. QED
  BY <1>1, <1>2, <1>3 DEF PipelineInv

LEMMA VerifierKeeps ==
    ASSUME PipelineInv, Verifier
    PROVE  PipelineInv'
<1>t. TypeOK'
  BY VerifierTyped
<1>1. CASE RunStart
  <2>1. vhand = Gone
    BY <1>1 DEF RunStart, PipelineInv, Filed
  <2>2. QED
    BY <1>t, <1>1, <2>1, VerifierQuiet DEF RunStart, history, DrainPlaces
<1>2. CASE RunTop
  <2>1. vhand = Gone /\ vpc = "top"
    BY <1>2 DEF RunTop, PipelineInv, Filed
  <2>2. /\ vpc' \in {"done", "take", "read", "drain"}
        /\ vpc' = "take" => queue["pending"] # <<>>
        /\ vpc' = "drain" => vsst = "RESET"
    BY <1>2 DEF RunTop, Has
  <2>3. ~drained' => ~drained /\ vpc' \notin DrainPlaces
    BY <1>2, <2>2 DEF RunTop, DrainPlaces
  <2>4. QED
    BY <1>t, <1>2, <2>1, <2>2, <2>3, VerifierQuiet DEF RunTop
<1>3. CASE TakePending
  BY <1>t, <1>3, TakePendingKeeps
<1>4. CASE NoData
  BY <1>t, <1>4, NoDataKeeps
<1>5. CASE Broken
  BY <1>t, <1>5, BrokenKeeps
<1>6. CASE Judge
  BY <1>t, <1>6, JudgeKeeps
<1>7. CASE DrainCheck
  <2>1. vhand = Gone /\ vpc = "drain" /\ drained
    BY <1>7 DEF DrainCheck, PipelineInv, Filed, Kept, DrainPlaces
  <2>2. /\ vpc' \in {"drainFront", "drain", "drained"}
        /\ vpc' = "drainFront" /\ vq' = "pending" => queue["pending"] # <<>>
    BY <1>7 DEF DrainCheck, Has
  <2>3. QED
    BY <1>t, <1>7, <2>1, <2>2, VerifierQuiet DEF DrainCheck, history
<1>8. CASE DrainFront
  BY <1>t, <1>8, DrainFrontKeeps
<1>9. CASE DrainPop
  BY <1>t, <1>9, DrainPopKeeps
<1>10. CASE DrainEnd
  <2>1. vhand = Gone
    BY <1>10 DEF DrainEnd, PipelineInv, Filed
  <2>2. QED
    BY <1>t, <1>10, <2>1, VerifierQuiet DEF DrainEnd, history, DrainPlaces
<1>11. CASE RunRead
  <2>1. vhand = Gone
    BY <1>11 DEF RunRead, PipelineInv, Filed
  <2>2. QED
    BY <1>t, <1>11, <2>1, VerifierQuiet DEF RunRead, history, DrainPlaces
<1>12. QED
  BY <1>1, <1>2, <1>3, <1>4, <1>5, <1>6, <1>7, <1>8, <1>9, <1>10, <1>11 DEF Verifier

-----------------------------------------------------------------------------
(* The invariant and the type. *)

LEMMA InitiallyInv == Init => PipelineInv
<1>1. SUFFICES ASSUME Init PROVE PipelineInv
  OBVIOUS
<1>q. queue = [q \in Queues |-> <<>>] /\ <<>> \in Seq(Holders) /\ Elems(<<>>) = {}
  BY <1>1 DEF Init, Elems
<1>2. TypeOK
  <2>1. queue \in [Queues -> Seq(Holders)]
    BY <1>q
  <2>2. QED
    BY <1>1, <2>1
       DEF Init, TypeOK, Holders, Queues, ServerStates, ManagerPlaces, VerifierPlaces
<1>3. \A q \in Queues : queue[q] = <<>> /\ Elems(queue[q]) = {}
  BY <1>q
<1>4. \A q \in Queues : Whole(queue[q], Gone, FALSE)
  BY <1>3 DEF Whole
<1>5. Filed
  BY <1>1, <1>3 DEF Init, Filed
<1>6. Waiting
  BY <1>1, <1>3, <1>4, GoneAssumption DEF Init, Waiting, Queues
<1>7. Kept
  <2>1. \A q \in Answers : Whole(queue[q], IF mq = q THEN mhand ELSE Gone,
                                mq = q /\ mpc = "pop")
    BY <1>1, <1>4 DEF Init, Queues, Answers
  <2>2. \A q \in Answers : Elems(queue[q]) = {}
    BY <1>3 DEF Queues, Answers
  <2>3. QED
    BY <1>1, <2>1, <2>2 DEF Init, Kept, DrainPlaces
<1>8. QED
  BY <1>2, <1>5, <1>6, <1>7 DEF PipelineInv

LEMMA StepKeeps == PipelineInv /\ [Next]_vars => PipelineInv'
<1>1. SUFFICES ASSUME PipelineInv, [Next]_vars PROVE PipelineInv'
  OBVIOUS
<1>2. CASE Manager \/ \E s \in Orders : EndOfIteration(s)
  BY <1>1, <1>2, ManagerKeeps
<1>3. CASE Verifier
  BY <1>1, <1>3, VerifierKeeps
<1>4. CASE UNCHANGED vars
  BY <1>1, <1>4, StutterKeeps
<1>5. QED
  BY <1>1, <1>2, <1>3, <1>4 DEF Next, Ended

\* The strengthening all that follows rests on.
THEOREM Invariant == Spec => []PipelineInv
BY InitiallyInv, StepKeeps, PTL DEF Spec

\* Every variable of the login pipeline keeps its type, whatever the threads do
\* (UserVerifier::Run, ServerManager::Run).
THEOREM Typed == Spec => []TypeOK
<1>1. PipelineInv => TypeOK
  BY DEF PipelineInv
<1>2. QED
  BY <1>1, Invariant, PTL

-----------------------------------------------------------------------------
(* Where a connection is. *)

\* A position of At is one of the queue with the connection's verdict.
LEMMA Places ==
    ASSUME PipelineInv, NEW c \in Conns, NEW x \in At(c)
    PROVE  \E q \in Queues : \E i \in 1 .. Len(queue[q]) :
              /\ x = <<q, i>> /\ queue[q][i] = c /\ c \in Elems(queue[q]) /\ c # Gone
              /\ ~(i = 1 /\ HalfPopped(q, c)) /\ VerdictOf(q) = verdict[c]
<1>1. PICK q \in Queues : \E i \in 1 .. Len(queue[q]) :
              x = <<q, i>> /\ queue[q][i] = c /\ ~(i = 1 /\ HalfPopped(q, c))
  BY DEF At
<1>2. PICK i \in 1 .. Len(queue[q]) :
              x = <<q, i>> /\ queue[q][i] = c /\ ~(i = 1 /\ HalfPopped(q, c))
  BY <1>1
<1>3. c \in Elems(queue[q]) /\ c # Gone
  BY <1>2, GoneAssumption DEF Elems
<1>4. VerdictOf(q) = verdict[c]
  BY <1>3 DEF PipelineInv, Filed
<1>5. QED
  BY <1>2, <1>3, <1>4

LEMMA VerdictsDiffer ==
    ASSUME NEW q \in Queues, NEW r \in Queues
    PROVE  /\ VerdictOf(q) = VerdictOf(r) => q = r
           /\ VerdictOf(q) = "none" <=> q = "pending"
BY DEF VerdictOf, Queues

LEMMA WaitingAlone == PipelineInv => PendingExclusive
<1>1. SUFFICES ASSUME PipelineInv, NEW c \in Conns, NEW x \in At(c), x[1] = "pending"
               PROVE  /\ verdict[c] = "none" /\ c \notin served
                      /\ mhand # c /\ vhand # c /\ At(c) = {x}
  BY DEF PendingExclusive
<1>2. PICK i \in 1 .. Len(queue["pending"]) :
         /\ x = <<"pending", i>> /\ queue["pending"][i] = c /\ c # Gone
         /\ c \in Elems(queue["pending"])
         /\ ~(i = 1 /\ HalfPopped("pending", c)) /\ verdict[c] = "none"
  BY <1>1, Places DEF VerdictOf
<1>3. c \notin served
  BY <1>1, <1>2 DEF PipelineInv, Filed
<1>4. mhand # c
  BY <1>1, <1>2 DEF PipelineInv, Filed, TypeOK
<1>w. Whole(queue["pending"], IF vq = "pending" THEN vhand ELSE Gone,
            vq = "pending" /\ vpc = "drainPop")
  BY <1>1 DEF PipelineInv, Waiting
<1>u. \A j, k \in 1 .. Len(queue["pending"]) :
         queue["pending"][j] = queue["pending"][k] => j = k
  BY <1>w DEF Whole
<1>5. vhand # c
  <2>1. SUFFICES ASSUME vhand = c PROVE FALSE
    OBVIOUS
  <2>2. vq = "pending"
    BY <1>1, <1>2, <2>1, HandsApart, VerdictsDiffer DEF PipelineInv, Filed
  <2>3. vpc = "drainPop" /\ queue["pending"][1] = c
    BY <1>2, <1>w, <2>1, <2>2 DEF Whole
  <2>4. 1 \in 1 .. Len(queue["pending"])
    BY <1>1, <1>2, HandsApart
  <2>5. i = 1
    BY <1>2, <1>u, <2>3, <2>4
  <2>6. QED
    BY <1>2, <2>1, <2>2, <2>3, <2>5 DEF HalfPopped
<1>6. ASSUME NEW y \in At(c) PROVE y = x
  <2>1. PICK q \in Queues : \E j \in 1 .. Len(queue[q]) :
           y = <<q, j>> /\ queue[q][j] = c /\ VerdictOf(q) = verdict[c]
    BY <1>1, Places
  <2>2. q = "pending"
    BY <1>2, <2>1, VerdictsDiffer
  <2>3. QED
    BY <1>2, <1>u, <2>1, <2>2
<1>7. QED
  BY <1>1, <1>2, <1>3, <1>4, <1>5, <1>6

\* A connection that waits for its login message is with the verifier alone and was not
\* answered, even while a RESET drains (UserVerifier.cpp:100-165).
THEOREM PendingWaitsAlone == Spec => []PendingExclusive
BY WaitingAlone, Invariant, PTL

LEMMA OneHolder == PipelineInv => SingleHolder
<1>1. SUFFICES ASSUME PipelineInv, ~drained, NEW c \in Conns
               PROVE  /\ \A x, y \in At(c) : x = y
                      /\ At(c) # {} => mhand # c /\ vhand # c /\ c \notin served
                      /\ c \in served => mhand # c /\ vhand # c
                      /\ mhand = c => vhand # c
  BY DEF SingleHolder
<1>g. c # Gone
  BY GoneAssumption
<1>v. vhand = c => vq = "pending" /\ vpc = "receive" /\ verdict[c] = "none"
  BY <1>1, <1>g, Receiving DEF PipelineInv, Filed, Kept, DrainPlaces
<1>m. mhand = c => verdict[c] = mq /\ mq # "none" /\ VerdictOf(mq) = mq /\ c \notin served
  BY <1>1, <1>g, HandsApart DEF PipelineInv, Filed, TypeOK, Kept, VerdictOf
<1>w. \A q \in Queues : \A j, k \in 1 .. Len(queue[q]) : queue[q][j] = queue[q][k] => j = k
  BY <1>1, HandsApart DEF PipelineInv, Waiting, Kept, Whole
<1>2. ASSUME NEW x \in At(c), NEW y \in At(c) PROVE x = y
  <2>1. PICK q \in Queues : \E j \in 1 .. Len(queue[q]) :
           x = <<q, j>> /\ queue[q][j] = c /\ VerdictOf(q) = verdict[c]
    BY <1>1, Places
  <2>2. PICK r \in Queues : \E j \in 1 .. Len(queue[r]) :
           y = <<r, j>> /\ queue[r][j] = c /\ VerdictOf(r) = verdict[c]
    BY <1>1, Places
  <2>3. q = r
    BY <2>1, <2>2, VerdictsDiffer
  <2>4. QED
    BY <1>w, <2>1, <2>2, <2>3
<1>3. ASSUME NEW x \in At(c) PROVE mhand # c /\ vhand # c /\ c \notin served
  <2>1. PICK q \in Queues : \E j \in 1 .. Len(queue[q]) :
              /\ x = <<q, j>> /\ queue[q][j] = c /\ c \in Elems(queue[q]) /\ c # Gone
              /\ ~(j = 1 /\ HalfPopped(q, c)) /\ VerdictOf(q) = verdict[c]
    BY <1>1, Places
  <2>2. PICK j \in 1 .. Len(queue[q]) :
              /\ queue[q][j] = c /\ c \in Elems(queue[q])
              /\ ~(j = 1 /\ HalfPopped(q, c)) /\ VerdictOf(q) = verdict[c]
    BY <2>1
  <2>3. vhand # c
    <3>1. SUFFICES ASSUME vhand = c PROVE FALSE
      OBVIOUS
    <3>2. QED
      BY <1>1, <1>v, <2>2, <3>1, Receiving
  <2>4. mhand # c
    <3>1. SUFFICES ASSUME mhand = c PROVE FALSE
      OBVIOUS
    <3>2. q = mq
      BY <1>1, <1>m, <2>2, <3>1, HandsApart, VerdictsDiffer
    <3>3. Whole(queue[q], mhand, mpc = "pop")
      BY <1>1, <3>2, HandsApart DEF PipelineInv, Kept
    <3>4. mpc = "pop" /\ queue[q][1] = c
      BY <2>2, <3>1, <3>3 DEF Whole
    <3>5. 1 \in 1 .. Len(queue[q])
      BY <1>1, <2>2, HandsApart
    <3>6. j = 1
      BY <1>w, <2>2, <3>4, <3>5
    <3>7. QED
      BY <2>2, <3>1, <3>2, <3>4, <3>6 DEF HalfPopped
  <2>5. c \notin served
    <3>1. CASE q = "pending"
      BY <1>1, <2>2, <3>1 DEF PipelineInv, Filed, VerdictOf
    <3>2. CASE q # "pending"
      BY <1>1, <1>g, <2>2, <3>2, HandsApart DEF PipelineInv, Kept
    <3>3. QED
      BY <3>1, <3>2
  <2>6. QED
    BY <2>3, <2>4, <2>5
<1>4. c \in served => mhand # c /\ vhand # c
  BY <1>1, <1>v, <1>m DEF PipelineInv, Filed
<1>5. mhand = c => vhand # c
  BY <1>v, <1>m
<1>6. QED
  BY <1>2, <1>3, <1>4, <1>5

\* While both threads push and pop, a connection is in one place (UserVerifier.cpp:
\* 141-157, ServerManager.cpp:202-273): for any number of connections.
THEOREM HeldOnce == Spec => []SingleHolder
BY OneHolder, Invariant, PTL

-----------------------------------------------------------------------------
(* What LoginDesk sees: StatusOf, when the invariant holds. *)

\* A connection is held if it is in a queue or in a hand, half popped or not.
LEMMA HeldWhere ==
    ASSUME PipelineInv, NEW c \in Conns
    PROVE  Held(c) <=> \/ \E q \in Queues : c \in Elems(queue[q])
                       \/ mhand = c \/ vhand = c
<1>1. ASSUME NEW q \in Queues, c \in Elems(queue[q]), mhand # c, vhand # c
      PROVE  At(c) # {}
  <2>1. PICK i \in 1 .. Len(queue[q]) : queue[q][i] = c
    BY <1>1 DEF Elems
  <2>2. ~HalfPopped(q, c)
    BY <1>1 DEF HalfPopped
  <2>3. <<q, i>> \in At(c)
    BY <2>1, <2>2 DEF At
  <2>4. QED
    BY <2>3
<1>2. ASSUME NEW x \in At(c) PROVE \E q \in Queues : c \in Elems(queue[q])
  BY Places
<1>3. QED
  BY <1>1, <1>2 DEF Held

\* What StatusOf says, by the verdict, and where a held connection is.
Stands(c) ==
    /\ Held(c) <=> \/ \E q \in Queues : c \in Elems(queue[q])
                   \/ mhand = c \/ vhand = c
    /\ verdict[c] = "none" =>
         /\ socket[c] = "backlog" => StatusOf(c) = "new"
         /\ socket[c] = "open" => StatusOf(c) = "pending"
         /\ socket[c] = "closed" => StatusOf(c) = "closed"
    /\ verdict[c] # "none" =>
         /\ socket[c] \in {"open", "closed"} /\ StatusOf(c) \in Desk!Judged
         /\ c \in served => StatusOf(c) = "served"
         /\ c \notin served /\ socket[c] = "closed" => StatusOf(c) = "closed"
         /\ c \notin served /\ socket[c] = "open" /\ Held(c) => StatusOf(c) = verdict[c]
         /\ c \notin served /\ socket[c] = "open" /\ ~Held(c) => StatusOf(c) = "dropped"
AllStand == \A c \in Conns : Stands(c)

LEMMA Standing == PipelineInv => AllStand
<1>1. SUFFICES ASSUME PipelineInv, NEW c \in Conns PROVE Stands(c)
  BY DEF AllStand
<1>h. Held(c) <=> \/ \E q \in Queues : c \in Elems(queue[q])
                  \/ mhand = c \/ vhand = c
  BY <1>1, HeldWhere
<1>b. Held(c) \in BOOLEAN
  BY DEF Held
<1>s. socket[c] \in {"backlog", "open", "closed"}
      /\ verdict[c] \in {"none", "verified", "rejected", "invalid"}
  BY <1>1 DEF PipelineInv, TypeOK
<1>2. CASE verdict[c] = "none"
  <2>1. c \notin served
    BY <1>1, <1>2 DEF PipelineInv, Filed
  <2>2. socket[c] = "open" => Held(c)
    BY <1>1, <1>2, <1>h, HandsApart DEF PipelineInv, Waiting
  <2>3. socket[c] = "backlog" => StatusOf(c) = "new"
    BY <2>1 DEF StatusOf
  <2>4. socket[c] = "open" => StatusOf(c) = "pending"
    BY <1>2, <2>1, <2>2 DEF StatusOf
  <2>5. socket[c] = "closed" => StatusOf(c) = "closed"
    BY <2>1 DEF StatusOf
  <2>6. QED
    BY <1>2, <1>h, <2>3, <2>4, <2>5 DEF Stands
<1>3. CASE verdict[c] # "none"
  <2>1. socket[c] \in {"open", "closed"}
    BY <1>1, <1>3, <1>s DEF PipelineInv, Filed
  <2>2. c \in served => StatusOf(c) = "served"
    BY <2>1 DEF StatusOf
  <2>3. c \notin served /\ socket[c] = "closed" => StatusOf(c) = "closed"
    BY DEF StatusOf
  <2>4. c \notin served /\ socket[c] = "open" /\ Held(c) => StatusOf(c) = verdict[c]
    BY <1>3 DEF StatusOf
  <2>5. c \notin served /\ socket[c] = "open" /\ ~Held(c) => StatusOf(c) = "dropped"
    BY DEF StatusOf
  <2>6. StatusOf(c) \in Desk!Judged
    BY <1>3, <1>s, <1>b, <2>1, <2>2, <2>3, <2>4, <2>5 DEF Desk!Judged, Desk!Verdicts
  <2>7. QED
    BY <1>3, <1>h, <2>1, <2>2, <2>3, <2>4, <2>5, <2>6 DEF Stands
<1>4. QED
  BY <1>2, <1>3

LEMMA StandingNext == PipelineInv' => AllStand'
BY Standing, PTL

-----------------------------------------------------------------------------
(* Steps of LoginDesk, and the steps it does not see. *)

\* The state of LoginDesk.
StatusNow == [c \in Conns |-> StatusOf(c)]
DeskVars == <<StatusNow, drained>>

\* Where the pipeline holds c.
Somewhere(c) == (\E q \in Queues : c \in Elems(queue[q])) \/ mhand = c \/ vhand = c

\* LoginDesk does not see the step.
LEMMA DeskStutters ==
    ASSUME \A c \in Conns : StatusOf(c)' = StatusOf(c), UNCHANGED drained
    PROVE  UNCHANGED DeskVars
BY DEF DeskVars, StatusNow

\* One connection moves on.
LEMMA DeskMoves ==
    ASSUME NEW c \in Conns, NEW s, StatusOf(c)' = s, UNCHANGED drained,
           \A d \in Conns : d # c => StatusOf(d)' = StatusOf(d)
    PROVE  Desk!Becomes(c, s)
BY DEF Desk!Becomes

\* After a RESET the judged connections may change in any way.
LEMMA DeskDisturbed ==
    ASSUME drained, UNCHANGED drained,
           \A c \in Conns : \/ StatusOf(c)' = StatusOf(c)
                            \/ StatusOf(c) \in Desk!Judged /\ StatusOf(c)' \in Desk!Judged
    PROVE  Desk!Next
<1> DEFINE S == {c \in Conns : StatusOf(c) \in Desk!Judged /\ StatusOf(c)' \in Desk!Judged}
           to == [c \in S |-> StatusOf(c)']
<1>1. to \in [S -> Desk!Judged]
  OBVIOUS
<1>2. [c \in Conns |-> StatusOf(c)]' =
        [c \in Conns |-> IF c \in S THEN to[c] ELSE [d \in Conns |-> StatusOf(d)][c]]
  OBVIOUS
<1>3. \A c \in S : [d \in Conns |-> StatusOf(d)][c] \in Desk!Judged
  OBVIOUS
<1>4. S \in SUBSET Conns
  OBVIOUS
<1>5. Desk!Disturb(S)
  BY <1>1, <1>2, <1>3 DEF Desk!Disturb
<1>6. QED
  BY <1>4, <1>5 DEF Desk!Next

\* A connection whose socket, verdict and holders stay keeps its status; one that is not
\* judged, whatever its holders.
LEMMA SameStanding ==
    ASSUME PipelineInv, PipelineInv', NEW c \in Conns, verdict'[c] = verdict[c],
           verdict[c] = "none" => socket'[c] = socket[c],
           verdict[c] # "none" => /\ socket'[c] = socket[c]
                                  /\ c \in served' <=> c \in served
                                  /\ Somewhere(c)' <=> Somewhere(c)
    PROVE  StatusOf(c)' = StatusOf(c)
<1>1. Stands(c) /\ Stands(c)'
  BY Standing, StandingNext DEF AllStand
<1>2. CASE verdict[c] = "none"
  <2>1. socket[c] \in {"backlog", "open", "closed"}
    BY DEF PipelineInv, TypeOK
  <2>2. QED
    BY <1>1, <1>2, <2>1 DEF Stands
<1>3. CASE verdict[c] # "none"
  <2>1. (Held(c) <=> Somewhere(c)) /\ (Held(c)' <=> Somewhere(c)')
    BY <1>1 DEF Stands, Somewhere
  <2>2. socket[c] \in {"open", "closed"}
    BY <1>1, <1>3 DEF Stands
  <2>3. CASE c \in served
    BY <1>1, <1>3, <2>3 DEF Stands
  <2>4. CASE c \notin served /\ socket[c] = "closed"
    BY <1>1, <1>3, <2>4 DEF Stands
  <2>5. CASE c \notin served /\ socket[c] = "open" /\ Held(c)
    <3>1. StatusOf(c) = verdict[c]
      BY <1>1, <1>3, <2>5 DEF Stands
    <3>2. c \notin served' /\ socket'[c] = "open" /\ Held(c)' /\ verdict'[c] # "none"
      BY <1>3, <2>1, <2>5
    <3>3. StatusOf(c)' = verdict'[c]
      BY <1>1, <3>2 DEF Stands
    <3>4. QED
      BY <3>1, <3>3
  <2>6. CASE c \notin served /\ socket[c] = "open" /\ ~Held(c)
    <3>1. StatusOf(c) = "dropped"
      BY <1>1, <1>3, <2>6 DEF Stands
    <3>2. c \notin served' /\ socket'[c] = "open" /\ ~Held(c)' /\ verdict'[c] # "none"
      BY <1>3, <2>1, <2>6
    <3>3. StatusOf(c)' = "dropped"
      BY <1>1, <3>2 DEF Stands
    <3>4. QED
      BY <3>1, <3>3
  <2>7. QED
    BY <2>2, <2>3, <2>4, <2>5, <2>6
<1>4. QED
  BY <1>2, <1>3

\* Once a RESET drains, only what becomes of unjudged connections matters.
LEMMA DrainedStanding ==
    ASSUME PipelineInv, PipelineInv', drained, UNCHANGED <<drained, verdict>>,
           \A c \in Conns : verdict[c] = "none" => socket'[c] = socket[c]
    PROVE  Desk!Next
<1>1. \A c \in Conns : Stands(c) /\ Stands(c)'
  BY Standing, StandingNext DEF AllStand
<1>2. ASSUME NEW c \in Conns
      PROVE  \/ StatusOf(c)' = StatusOf(c)
             \/ StatusOf(c) \in Desk!Judged /\ StatusOf(c)' \in Desk!Judged
  <2>1. CASE verdict[c] = "none"
    BY <2>1, SameStanding
  <2>2. CASE verdict[c] # "none"
    BY <1>1, <2>2 DEF Stands
  <2>3. QED
    BY <2>1, <2>2
<1>3. QED
  BY <1>2, DeskDisturbed

\* A step that moves no connection.
LEMMA StillStanding ==
    ASSUME PipelineInv, PipelineInv', UNCHANGED <<socket, verdict, served, drained>>,
           \A c \in Conns : verdict[c] # "none" => (Somewhere(c)' <=> Somewhere(c))
    PROVE  UNCHANGED DeskVars
<1>1. \A c \in Conns : StatusOf(c)' = StatusOf(c)
  BY SameStanding
<1>2. QED
  BY <1>1, DeskStutters

\* What a connection is, to the pipeline and to the desk.
LEMMA StatusIs ==
    ASSUME PipelineInv, NEW c \in Conns
    PROVE  /\ verdict[c] = "none" /\ socket[c] = "backlog" => StatusOf(c) = "new"
           /\ verdict[c] = "none" /\ socket[c] = "open" => StatusOf(c) = "pending"
           /\ /\ verdict[c] # "none" /\ socket[c] = "open" /\ c \notin served
              /\ Somewhere(c)
              => StatusOf(c) = verdict[c]
<1>1. Stands(c)
  BY Standing DEF AllStand
<1>2. Held(c) <=> Somewhere(c)
  BY <1>1 DEF Stands, Somewhere
<1>3. QED
  BY <1>1, <1>2 DEF Stands

LEMMA StatusBecomes ==
    ASSUME PipelineInv', NEW c \in Conns
    PROVE  /\ verdict'[c] = "none" /\ socket'[c] = "open" => StatusOf(c)' = "pending"
           /\ c \notin served' /\ socket'[c] = "closed" => StatusOf(c)' = "closed"
           /\ verdict'[c] # "none" /\ c \in served' => StatusOf(c)' = "served"
           /\ /\ verdict'[c] # "none" /\ socket'[c] = "open" /\ c \notin served'
              /\ Somewhere(c)'
              => StatusOf(c)' = verdict'[c]
           /\ /\ verdict'[c] # "none" /\ socket'[c] = "open" /\ c \notin served'
              /\ ~Somewhere(c)'
              => StatusOf(c)' = "dropped"
<1>1. Stands(c)'
  BY StandingNext DEF AllStand
<1>2. Held(c)' <=> Somewhere(c)'
  BY <1>1 DEF Stands, Somewhere
<1>3. QED
  BY <1>1, <1>2 DEF Stands

-----------------------------------------------------------------------------
(* Each step of the pipeline is a step of LoginDesk or none. *)

LEMMA AcceptImplements ==
    ASSUME PipelineInv, PipelineInv', NEW c \in Conns, Accept(c)
    PROVE  Desk!Next
<1>u. /\ socket[c] = "backlog" /\ socket' = [socket EXCEPT ![c] = "open"]
      /\ Push("pending", c)
      /\ UNCHANGED <<vstate, managerVars, verifierVars, history, fault>>
  BY DEF Accept
<1>s. socket'[c] = "open" /\ \A d \in Conns : d # c => socket'[d] = socket[d]
  BY <1>u DEF PipelineInv, TypeOK
<1>v. verdict[c] = "none" /\ c \in Holders /\ verdict'[c] = "none"
  BY <1>u DEF PipelineInv, Filed, Holders, history
<1>q. /\ Elems(queue'["pending"]) = Elems(queue["pending"]) \cup {c}
      /\ \A q \in Queues \ {"pending"} : queue'[q] = queue[q]
  BY <1>u, <1>v, PushEffect, HandsApart DEF PipelineInv
<1>1. ASSUME NEW d \in Conns, d # c PROVE StatusOf(d)' = StatusOf(d)
  <2>1. \A q \in Queues : d \in Elems(queue'[q]) <=> d \in Elems(queue[q])
    BY <1>q, <1>1
  <2>2. Somewhere(d)' <=> Somewhere(d)
    BY <1>u, <2>1 DEF Somewhere, managerVars, verifierVars
  <2>3. QED
    BY <1>u, <1>s, <1>1, <2>2, SameStanding DEF history
<1>2. StatusOf(c) = "new" /\ StatusOf(c)' = "pending"
  BY <1>u, <1>s, <1>v, StatusIs, StatusBecomes
<1>3. Desk!Becomes(c, "pending")
  BY <1>u, <1>1, <1>2, DeskMoves DEF history
<1>4. Desk!Accept(c)
  BY <1>2, <1>3 DEF Desk!Accept
<1>5. QED
  BY <1>4 DEF Desk!Next

LEMMA TakeFrontImplements ==
    ASSUME PipelineInv, PipelineInv', TakeFront
    PROVE  UNCHANGED DeskVars
<1>u. /\ mpc = "front"
      /\ UNCHANGED <<socket, vstate, asked, mq, verifierVars, history>>
  BY DEF TakeFront
<1>g. mhand = Gone /\ mq \in Queues /\ queue[mq] \in Seq(Holders)
  BY <1>u, HandsApart DEF PipelineInv, Filed
<1>h. PICK h \in Holders : Front(mq, h) /\ mhand' = h
  BY DEF TakeFront
<1>q. /\ \A r \in Queues \ {mq} : queue'[r] = queue[r]
      /\ \/ queue[mq] = <<>> /\ h = Gone /\ queue' = queue
         \/ /\ queue[mq] # <<>> /\ h = queue[mq][1]
            /\ queue'[mq] = queue[mq] \/ queue'[mq] = Cleared(queue[mq])
  BY <1>g, <1>h, FrontEffect DEF PipelineInv
<1>1. ASSUME NEW c \in Conns PROVE Somewhere(c)' <=> Somewhere(c)
  <2>g. c # Gone
    BY GoneAssumption
  <2>1. CASE queue[mq] = <<>> /\ h = Gone /\ queue' = queue
    BY <1>u, <1>g, <1>h, <2>1 DEF Somewhere, verifierVars
  <2>2. CASE /\ queue[mq] # <<>> /\ h = queue[mq][1]
             /\ queue'[mq] = queue[mq] \/ queue'[mq] = Cleared(queue[mq])
    <3>1. /\ h \in Elems(queue[mq])
          /\ Elems(queue'[mq]) \subseteq Elems(queue[mq]) \cup {Gone}
          /\ Elems(queue[mq]) \subseteq Elems(queue'[mq]) \cup {h}
      BY <1>g, <2>2, FirstElement, ElementsCleared
    <3>2. \A q \in Queues : c \in Elems(queue'[q]) => c \in Elems(queue[q])
      BY <1>q, <2>g, <3>1
    <3>3. \A q \in Queues : c \in Elems(queue[q]) => c \in Elems(queue'[q]) \/ c = h
      BY <1>q, <3>1
    <3>4. QED
      BY <1>u, <1>g, <1>h, <2>g, <3>1, <3>2, <3>3 DEF Somewhere, verifierVars
  <2>3. QED
    BY <1>q, <2>1, <2>2
<1>2. QED
  BY <1>u, <1>1, StillStanding DEF history

\* The manager pops the element it took, or, from an invalid queue that was empty
\* when it looked, one it did not take: that connection is dropped.
LEMMA TakePopImplements ==
    ASSUME PipelineInv, PipelineInv', TakePop
    PROVE  Desk!Next \/ UNCHANGED DeskVars
<1>u. /\ mpc = "pop" /\ PopFront(mq)
      /\ UNCHANGED <<socket, vstate, asked, mq, mhand, verifierVars, history>>
  BY DEF TakePop
<1>g. mq \in Queues /\ mq \in Answers /\ queue[mq] \in Seq(Holders) /\ mhand \in Holders
  BY HandsApart DEF PipelineInv, TypeOK
<1>q. /\ \A r \in Queues \ {mq} : queue'[r] = queue[r]
      /\ \/ queue[mq] = <<>> /\ queue' = queue
         \/ queue[mq] # <<>> /\ queue'[mq] = Rest(queue[mq])
  BY <1>u, <1>g, PopEffect DEF PipelineInv
<1>1. CASE drained
  BY <1>u, <1>1, DrainedStanding DEF history
<1>2. CASE queue' = queue
  <2>1. \A c \in Conns : Somewhere(c)' <=> Somewhere(c)
    BY <1>u, <1>2 DEF Somewhere, verifierVars
  <2>2. QED
    BY <1>u, <2>1, StillStanding DEF history
<1>3. CASE ~drained /\ queue[mq] # <<>> /\ queue'[mq] = Rest(queue[mq])
  <2>1. Whole(queue[mq], mhand, TRUE)
    BY <1>u, <1>g, <1>3 DEF PipelineInv, Kept
  <2>2. Elems(queue'[mq]) = Elems(queue[mq]) \ {queue[mq][1]}
    BY <1>g, <1>3, <2>1, WholePopped
  <2>3. \A c \in Conns : c # queue[mq][1] =>
           \A q \in Queues : c \in Elems(queue'[q]) <=> c \in Elems(queue[q])
    BY <1>q, <2>2
  <2>4. \A c \in Conns : c # queue[mq][1] => (Somewhere(c)' <=> Somewhere(c))
    BY <1>u, <2>3 DEF Somewhere, verifierVars
  <2>5. CASE mhand # Gone
    <3>1. queue[mq][1] \in {mhand, Gone}
      BY <2>1, <2>5 DEF Whole
    <3>2. \A c \in Conns : c = queue[mq][1] => Somewhere(c)' /\ Somewhere(c)
      BY <1>u, <3>1, GoneAssumption DEF Somewhere
    <3>3. \A c \in Conns : Somewhere(c)' <=> Somewhere(c)
      BY <2>4, <3>2
    <3>4. QED
      BY <1>u, <3>3, StillStanding DEF history
  <2>6. CASE mhand = Gone
    <3>1. mq = "invalid"
      BY <1>u, <1>3, <2>6 DEF PipelineInv, Kept
    <3>2. PICK d \in Conns : d = queue[mq][1] /\ d \in Elems(queue[mq]) /\ d # Gone
      <4>1. queue[mq][1] \in Elems(queue[mq]) /\ queue[mq][1] \in Holders
        BY <1>g, <1>3, FirstElement
      <4>2. Gone \notin Elems(queue[mq])
        BY <2>1, <2>6 DEF Whole
      <4>3. QED
        BY <4>1, <4>2 DEF Holders
    <3>3. verdict[d] = "invalid"
      BY <1>g, <3>1, <3>2 DEF PipelineInv, Filed, VerdictOf
    <3>4. socket[d] = "open" /\ d \notin served
      BY <1>g, <1>3, <3>2 DEF PipelineInv, Kept
    <3>5. Somewhere(d)
      BY <1>g, <3>2 DEF Somewhere
    <3>6. ~Somewhere(d)'
      <4>1. \A q \in Queues : d \notin Elems(queue'[q])
        <5>1. d \notin Elems(queue'[mq])
          BY <2>2, <3>2
        <5>2. ASSUME NEW q \in Queues, q # mq PROVE d \notin Elems(queue[q])
          BY <3>1, <3>2, <3>3, <5>2 DEF PipelineInv, Filed, VerdictOf
        <5>3. QED
          BY <1>q, <5>1, <5>2
      <4>2. vhand # d
        BY <1>3, <3>2, <3>3, Receiving DEF PipelineInv, Filed, Kept, DrainPlaces
      <4>3. QED
        BY <1>u, <2>6, <3>2, <4>1, <4>2 DEF Somewhere, verifierVars
    <3>7. StatusOf(d) = "invalid"
      BY <3>3, <3>4, <3>5, StatusIs
    <3>8. verdict'[d] # "none" /\ socket'[d] = "open" /\ d \notin served'
      BY <1>u, <3>3, <3>4 DEF history
    <3>9. StatusOf(d)' = "dropped"
      BY <3>6, <3>8, StatusBecomes
    <3>10. ASSUME NEW c \in Conns, c # d PROVE StatusOf(c)' = StatusOf(c)
      BY <1>u, <2>4, <3>2, <3>10, SameStanding DEF history
    <3>11. Desk!Becomes(d, "dropped")
      BY <1>u, <3>9, <3>10, DeskMoves DEF history
    <3>12. Desk!Drop(d)
      BY <3>7, <3>11 DEF Desk!Drop
    <3>13. QED
      BY <3>12 DEF Desk!Next
  <2>7. QED
    BY <2>5, <2>6
<1>4. QED
  BY <1>q, <1>1, <1>2, <1>3

\* One connection is closed, and no other is moved.
LEMMA OneClosed ==
    ASSUME PipelineInv, PipelineInv', NEW c \in Conns, socket' = Closed(c), c \notin served,
           StatusOf(c) \in {"pending"} \cup Desk!Verdicts, UNCHANGED history,
           \A d \in Conns : d # c /\ verdict[d] # "none" => (Somewhere(d)' <=> Somewhere(d))
    PROVE  Desk!Next
<1>1. /\ socket'[c] = "closed"
      /\ \A d \in Conns : d # c => socket'[d] = socket[d]
  BY CloseEffect DEF PipelineInv
<1>2. StatusOf(c)' = "closed"
  BY <1>1, StatusBecomes DEF history
<1>3. ASSUME NEW d \in Conns, d # c PROVE StatusOf(d)' = StatusOf(d)
  BY <1>1, <1>3, SameStanding DEF history
<1>4. Desk!Becomes(c, "closed")
  BY <1>2, <1>3, DeskMoves DEF history
<1>5. Desk!Close(c)
  BY <1>4 DEF Desk!Close
<1>6. QED
  BY <1>5 DEF Desk!Next

\* What the manager has in hand, to the desk.
LEMMA InHand ==
    ASSUME PipelineInv, ~drained, mpc = "send", mhand # Gone
    PROVE  \E c \in Conns :
              /\ c = mhand /\ verdict[c] = mq /\ mq \in Answers /\ c \notin served
              /\ socket[c] = "open" /\ StatusOf(c) = mq
              /\ c # vhand /\ \A q \in Queues : c \notin Elems(queue[q])
<1>1. PICK c \in Conns : c = mhand
  BY HandsApart
<1>2. /\ verdict[c] = mq /\ mq \in Answers /\ mq # "none" /\ mq \in Queues
      /\ socket[c] = "open" /\ c \notin served /\ c # Gone
  BY <1>1, HandsApart DEF PipelineInv, Filed, Kept, Answers
<1>3. Somewhere(c)
  BY <1>1 DEF Somewhere
<1>4. StatusOf(c) = mq
  BY <1>2, <1>3, StatusIs
<1>5. c # vhand
  BY <1>2, Receiving DEF PipelineInv, Filed, Kept, DrainPlaces
<1>6. Whole(queue[mq], mhand, FALSE)
  BY <1>2 DEF PipelineInv, Kept
<1>7. c \notin Elems(queue[mq])
  BY <1>1, <1>6, WholeReleased
<1>8. ASSUME NEW q \in Queues, q # mq PROVE c \notin Elems(queue[q])
  BY <1>2, <1>8, VerdictsDiffer DEF PipelineInv, Filed, VerdictOf
<1>9. QED
  BY <1>1, <1>2, <1>4, <1>5, <1>7, <1>8

LEMMA AnsweredImplements ==
    ASSUME PipelineInv, PipelineInv', Answered
    PROVE  Desk!Next
<1>u. /\ mpc = "send" /\ mhand # Gone /\ mhand' = Gone
      /\ IF mq = "verified" THEN served' = served \cup {mhand} /\ UNCHANGED socket
                            ELSE socket' = Closed(mhand) /\ UNCHANGED served
      /\ UNCHANGED <<queue, vstate, asked, verifierVars, verdict, drained, fault>>
  BY DEF Answered
<1>1. CASE drained
  <2>1. ASSUME NEW c \in Conns, verdict[c] = "none" PROVE socket'[c] = socket[c]
    <3>1. c # mhand
      BY <1>u, <2>1, HandsApart DEF PipelineInv, Filed, TypeOK
    <3>2. QED
      BY <1>u, <3>1, CloseEffect, <2>1 DEF Closed, PipelineInv, TypeOK
  <2>2. QED
    BY <1>u, <1>1, <2>1, DrainedStanding
<1>2. CASE ~drained
  <2>1. PICK c \in Conns :
              /\ c = mhand /\ verdict[c] = mq /\ mq \in Answers /\ c \notin served
              /\ socket[c] = "open" /\ StatusOf(c) = mq
    BY <1>u, <1>2, InHand
  <2>2. ASSUME NEW d \in Conns, d # c PROVE Somewhere(d)' <=> Somewhere(d)
    BY <1>u, <2>1, <2>2, GoneAssumption DEF Somewhere, verifierVars
  <2>3. CASE mq = "verified"
    <3>1. verdict'[c] # "none" /\ c \in served'
      BY <1>u, <2>1, <2>3
    <3>2. StatusOf(c)' = "served"
      BY <3>1, StatusBecomes
    <3>3. ASSUME NEW d \in Conns, d # c PROVE StatusOf(d)' = StatusOf(d)
      BY <1>u, <2>1, <2>2, <2>3, <3>3, SameStanding
    <3>4. Desk!Becomes(c, "served")
      BY <1>u, <3>2, <3>3, DeskMoves
    <3>5. Desk!Serve(c)
      BY <2>1, <2>3, <3>4 DEF Desk!Serve
    <3>6. QED
      BY <3>5 DEF Desk!Next
  <2>4. CASE mq # "verified"
    <3>1. socket' = Closed(c) /\ UNCHANGED history
      BY <1>u, <2>1, <2>4 DEF history
    <3>2. StatusOf(c) \in Desk!Verdicts
      BY <2>1 DEF Desk!Verdicts, Answers
    <3>3. QED
      BY <2>1, <2>2, <3>1, <3>2, OneClosed
  <2>5. QED
    BY <2>3, <2>4
<1>3. QED
  BY <1>1, <1>2

LEMMA UnansweredImplements ==
    ASSUME PipelineInv, PipelineInv', Unanswered
    PROVE  Desk!Next \/ UNCHANGED DeskVars
<1>u. /\ mpc = "send" /\ mhand' = Gone
      /\ \/ mhand # Gone /\ Readd(mq, mhand) /\ UNCHANGED socket
         \/ socket' = Closed(mhand) /\ UNCHANGED queue
      /\ UNCHANGED <<vstate, asked, verifierVars, history, fault>>
  BY DEF Unanswered
<1>1. CASE drained
  <2>1. ASSUME NEW c \in Conns, verdict[c] = "none" PROVE socket'[c] = socket[c]
    <3>1. c # mhand
      BY <1>u, <2>1, GoneAssumption, HandsApart DEF PipelineInv, Filed, TypeOK
    <3>2. QED
      BY <1>u, <3>1, <2>1 DEF Closed
  <2>2. QED
    BY <1>u, <1>1, <2>1, DrainedStanding DEF history
<1>2. CASE ~drained /\ mhand # Gone /\ Readd(mq, mhand) /\ UNCHANGED socket
  <2>1. /\ Elems(queue'[mq]) = Elems(queue[mq]) \cup {mhand}
        /\ \A q \in Queues \ {mq} : queue'[q] = queue[q]
    BY <1>2, PushEffect, HandsApart DEF Readd, PipelineInv, Holders
  <2>2. ASSUME NEW d \in Conns PROVE Somewhere(d)' <=> Somewhere(d)
    <3>1. CASE d = mhand
      BY <2>1, <3>1, HandsApart DEF Somewhere
    <3>2. CASE d # mhand
      <4>1. \A q \in Queues : d \in Elems(queue'[q]) <=> d \in Elems(queue[q])
        BY <2>1, <3>2
      <4>2. d # mhand'
        BY <1>u, GoneAssumption
      <4>3. QED
        BY <1>u, <3>2, <4>1, <4>2 DEF Somewhere, verifierVars
    <3>3. QED
      BY <3>1, <3>2
  <2>3. QED
    BY <1>u, <1>2, <2>2, StillStanding DEF history
<1>3. CASE ~drained /\ mhand # Gone /\ socket' = Closed(mhand) /\ UNCHANGED queue
  <2>1. PICK c \in Conns :
              /\ c = mhand /\ mq \in Answers /\ c \notin served /\ StatusOf(c) = mq
    BY <1>u, <1>3, InHand
  <2>2. ASSUME NEW d \in Conns, d # c PROVE Somewhere(d)' <=> Somewhere(d)
    BY <1>u, <1>3, <2>1, <2>2, GoneAssumption DEF Somewhere, verifierVars
  <2>3. socket' = Closed(c) /\ StatusOf(c) \in Desk!Verdicts
    BY <1>3, <2>1 DEF Desk!Verdicts, Answers
  <2>4. QED
    BY <1>u, <2>1, <2>2, <2>3, OneClosed
<1>4. CASE ~drained /\ mhand = Gone
  <2>1. UNCHANGED <<queue, mhand>> /\ socket' = socket
    BY <1>u, <1>4, GoneAssumption DEF Closed, PipelineInv, TypeOK
  <2>2. \A d \in Conns : Somewhere(d)' <=> Somewhere(d)
    BY <1>u, <2>1 DEF Somewhere, verifierVars
  <2>3. QED
    BY <1>u, <2>1, <2>2, StillStanding DEF history
<1>5. QED
  BY <1>u, <1>1, <1>2, <1>3, <1>4

\* The verifier's work with the pending queue moves no connection that was judged.
LEMMA PendingWork ==
    ASSUME PipelineInv, UNCHANGED mhand,
           NEW c \in Conns, verdict[c] # "none",
           vhand = c <=> vhand' = c,
           \A q \in Answers : queue'[q] = queue[q],
           c \notin Elems(queue'["pending"])
    PROVE  Somewhere(c)' <=> Somewhere(c)
<1>1. c \notin Elems(queue["pending"])
  BY GoneAssumption, HandsApart DEF PipelineInv, Filed, VerdictOf
<1>2. \A q \in Queues : c \in Elems(queue'[q]) <=> c \in Elems(queue[q])
  BY <1>1, HandsApart
<1>3. QED
  BY <1>2 DEF Somewhere

LEMMA TakePendingImplements ==
    ASSUME PipelineInv, PipelineInv', TakePending
    PROVE  UNCHANGED DeskVars
<1>u. /\ vpc = "take" /\ vpc' = "receive"
      /\ queue' = [queue EXCEPT !["pending"] = Rest(@)]
      /\ UNCHANGED <<socket, vstate, managerVars, vsst, vq, history, fault>>
  BY DEF TakePending
<1>1. vhand = Gone
  BY <1>u DEF PipelineInv, Filed
<1>2. \A q \in Answers : queue'[q] = queue[q]
  BY <1>u, HandsApart
<1>3. ASSUME NEW c \in Conns, verdict[c] # "none"
      PROVE  vhand' # c /\ c \notin Elems(queue'["pending"])
  <2>1. vhand' # Gone => verdict'[vhand'] = VerdictOf(vq')
    BY DEF PipelineInv, Filed
  <2>2. vq' = "pending" /\ verdict' = verdict
    BY <1>u DEF PipelineInv, Filed, history
  <2>3. \A d \in Elems(queue'["pending"]) \ {Gone} : verdict'[d] = VerdictOf("pending")
    BY HandsApart DEF PipelineInv, Filed
  <2>4. QED
    BY <1>3, <2>1, <2>2, <2>3, GoneAssumption DEF VerdictOf
<1>4. ASSUME NEW c \in Conns, verdict[c] # "none" PROVE Somewhere(c)' <=> Somewhere(c)
  BY <1>u, <1>1, <1>2, <1>3, <1>4, GoneAssumption, PendingWork DEF managerVars
<1>5. QED
  BY <1>u, <1>4, StillStanding DEF history

LEMMA NoDataImplements ==
    ASSUME PipelineInv, PipelineInv', NoData
    PROVE  UNCHANGED DeskVars
<1>u. /\ vpc = "receive" /\ vhand' = Gone /\ Push("pending", vhand)
      /\ UNCHANGED <<socket, vstate, managerVars, vsst, vq, history, fault>>
  BY DEF NoData
<1>2. \A q \in Answers : queue'[q] = queue[q]
  BY <1>u, HandsApart DEF Push
<1>3. ASSUME NEW c \in Conns, verdict[c] # "none"
      PROVE  vhand # c /\ c \notin Elems(queue'["pending"])
  <2>1. \A d \in Elems(queue'["pending"]) \ {Gone} : verdict'[d] = VerdictOf("pending")
    BY HandsApart DEF PipelineInv, Filed
  <2>2. QED
    BY <1>u, <1>3, <2>1, GoneAssumption, Receiving DEF VerdictOf, history
<1>4. ASSUME NEW c \in Conns, verdict[c] # "none" PROVE Somewhere(c)' <=> Somewhere(c)
  BY <1>u, <1>2, <1>3, <1>4, GoneAssumption, PendingWork DEF managerVars
<1>5. QED
  BY <1>u, <1>4, StillStanding DEF history

LEMMA BrokenImplements ==
    ASSUME PipelineInv, PipelineInv', Broken
    PROVE  Desk!Next
<1>u. /\ vpc = "receive" /\ vhand' = Gone /\ socket' = Closed(vhand)
      /\ UNCHANGED <<queue, vstate, managerVars, vsst, vq, history, fault>>
  BY DEF Broken
<1>1. PICK c \in Conns : c = vhand
  BY <1>u, Receiving
<1>2. verdict[c] = "none" /\ socket[c] = "open" /\ StatusOf(c) = "pending"
  BY <1>u, <1>1, Receiving, StatusIs
<1>3. c \notin served
  BY <1>2 DEF PipelineInv, Filed
<1>4. ASSUME NEW d \in Conns, d # c PROVE Somewhere(d)' <=> Somewhere(d)
  BY <1>u, <1>1, <1>4, GoneAssumption DEF Somewhere, managerVars
<1>5. QED
  BY <1>u, <1>1, <1>2, <1>3, <1>4, OneClosed

LEMMA JudgeImplements ==
    ASSUME PipelineInv, PipelineInv', Judge
    PROVE  Desk!Next
<1>u. /\ vpc = "receive" /\ vhand' = Gone
      /\ UNCHANGED <<socket, vstate, managerVars, vsst, vq, served, drained, fault>>
  BY DEF Judge
<1>1. PICK c \in Conns : c = vhand
  BY <1>u, Receiving
<1>v. PICK v \in Answers : Push(v, c) /\ verdict' = [verdict EXCEPT ![c] = v]
  BY <1>1 DEF Judge, Answers
<1>2. verdict[c] = "none" /\ socket[c] = "open" /\ StatusOf(c) = "pending"
  BY <1>u, <1>1, Receiving, StatusIs
<1>3. c \notin served
  BY <1>2 DEF PipelineInv, Filed
<1>p. /\ Elems(queue'[v]) = Elems(queue[v]) \cup {c}
      /\ \A q \in Queues \ {v} : queue'[q] = queue[q]
  BY <1>v, PushEffect, HandsApart DEF PipelineInv, Holders
<1>w. verdict'[c] = v /\ v # "none" /\ \A d \in Conns : d # c => verdict'[d] = verdict[d]
  BY <1>v DEF PipelineInv, TypeOK, Answers
<1>4. StatusOf(c)' = v
  <2>1. Somewhere(c)'
    BY <1>p, HandsApart DEF Somewhere
  <2>2. verdict'[c] # "none" /\ socket'[c] = "open" /\ c \notin served'
    BY <1>u, <1>2, <1>3, <1>w
  <2>3. StatusOf(c)' = verdict'[c]
    BY <2>1, <2>2, StatusBecomes
  <2>4. QED
    BY <1>w, <2>3
<1>5. ASSUME NEW d \in Conns, d # c PROVE StatusOf(d)' = StatusOf(d)
  <2>1. \A q \in Queues : d \in Elems(queue'[q]) <=> d \in Elems(queue[q])
    BY <1>p, <1>5
  <2>2. Somewhere(d)' <=> Somewhere(d)
    BY <1>u, <1>1, <1>5, <2>1, GoneAssumption DEF Somewhere, managerVars
  <2>3. QED
    BY <1>u, <1>w, <1>5, <2>2, SameStanding
<1>6. Desk!Becomes(c, v)
  BY <1>u, <1>4, <1>5, DeskMoves
<1>7. Desk!Judge(c)
  BY <1>2, <1>6 DEF Desk!Judge, Desk!Verdicts, Answers
<1>8. QED
  BY <1>7 DEF Desk!Next

LEMMA DrainFrontImplements ==
    ASSUME PipelineInv, PipelineInv', DrainFront
    PROVE  Desk!Next
<1>1. drained
  BY DEF DrainFront, PipelineInv, Kept, DrainPlaces
<1>2. QED
  BY <1>1, DrainedStanding DEF DrainFront, history

LEMMA DrainPopImplements ==
    ASSUME PipelineInv, PipelineInv', DrainPop
    PROVE  Desk!Next
<1>u. /\ vpc = "drainPop" /\ vhand' = Gone
      /\ PopFront(vq) /\ socket' = Closed(vhand)
      /\ UNCHANGED <<vstate, managerVars, vsst, vq, history>>
  BY DEF DrainPop
<1>d. drained
  BY <1>u DEF PipelineInv, Kept, DrainPlaces
<1>1. CASE vq # "pending"
  <2>1. ASSUME NEW c \in Conns, verdict[c] = "none" PROVE socket'[c] = socket[c]
    <3>1. vhand # Gone => verdict[vhand] # "none"
      BY <1>1, HandsApart, VerdictsDiffer DEF PipelineInv, Filed
    <3>2. c # vhand
      BY <2>1, <3>1, GoneAssumption
    <3>3. QED
      BY <1>u, <3>2 DEF Closed
  <2>2. QED
    BY <1>u, <1>d, <2>1, DrainedStanding DEF history
<1>2. CASE vq = "pending"
  <2>1. PICK c \in Conns : c = vhand
    BY <1>u, <1>2 DEF PipelineInv, Waiting, TypeOK, Holders
  <2>2. verdict[c] = "none" /\ socket[c] = "open"
    BY <1>2, <2>1, GoneAssumption DEF PipelineInv, Filed, Waiting, VerdictOf
  <2>3. StatusOf(c) = "pending"
    BY <2>2, StatusIs
  <2>4. c \notin served
    BY <2>2 DEF PipelineInv, Filed
  <2>5. \A q \in Answers : queue'[q] = queue[q]
    BY <1>u, <1>2, PopEffect, HandsApart DEF PipelineInv
  <2>6. ASSUME NEW d \in Conns, d # c, verdict[d] # "none"
        PROVE  Somewhere(d)' <=> Somewhere(d)
    <3>1. \A e \in Elems(queue'["pending"]) \ {Gone} : verdict'[e] = VerdictOf("pending")
      BY HandsApart DEF PipelineInv, Filed
    <3>2. d \notin Elems(queue'["pending"])
      BY <1>u, <2>6, <3>1, GoneAssumption DEF VerdictOf, history
    <3>3. vhand = d <=> vhand' = d
      BY <1>u, <2>1, <2>6, GoneAssumption
    <3>4. QED
      BY <1>u, <2>5, <2>6, <3>2, <3>3, PendingWork DEF managerVars
  <2>7. QED
    BY <1>u, <2>1, <2>3, <2>4, <2>6, OneClosed
<1>3. QED
  BY <1>1, <1>2

LEMMA RunTopImplements ==
    ASSUME PipelineInv, PipelineInv', RunTop
    PROVE  Desk!Next \/ UNCHANGED DeskVars
<1>u. /\ drained' = (drained \/ vsst = "RESET")
      /\ UNCHANGED <<queue, socket, managerVars, vhand, verdict, served>>
  BY DEF RunTop
<1>1. \A c \in Conns : Somewhere(c)' <=> Somewhere(c)
  BY <1>u DEF Somewhere, managerVars
<1>2. \A c \in Conns : StatusOf(c)' = StatusOf(c)
  BY <1>u, <1>1, SameStanding
<1>3. CASE drained' = drained
  BY <1>2, <1>3, DeskStutters
<1>4. CASE ~drained /\ drained' = TRUE
  <2>1. [c \in Conns |-> StatusOf(c)]' = [c \in Conns |-> StatusOf(c)]
    BY <1>2
  <2>2. Desk!Reset
    BY <1>4, <2>1 DEF Desk!Reset
  <2>3. QED
    BY <2>2 DEF Desk!Next
<1>5. drained \in BOOLEAN
  BY DEF PipelineInv, TypeOK
<1>6. QED
  BY <1>u, <1>3, <1>4, <1>5

\* A step that touches neither a queue nor a connection.
LEMMA QuietImplements ==
    ASSUME PipelineInv, PipelineInv', UNCHANGED <<queue, socket, mhand, vhand, history>>
    PROVE  UNCHANGED DeskVars
<1>1. \A c \in Conns : Somewhere(c)' <=> Somewhere(c)
  BY DEF Somewhere
<1>2. QED
  BY <1>1, StillStanding DEF history

LEMMA StepImplements ==
    ASSUME PipelineInv, PipelineInv', [Next]_vars
    PROVE  Desk!Next \/ UNCHANGED DeskVars
<1>1. CASE \E c \in Conns : Accept(c)
  BY <1>1, AcceptImplements
<1>2. CASE \/ AcceptedAll \/ Check \/ Shutdown \/ \E s \in Orders : EndOfIteration(s)
           \/ RunStart \/ DrainCheck \/ DrainEnd \/ RunRead \/ UNCHANGED vars
  <2>1. UNCHANGED <<queue, socket, mhand, vhand, history>>
    BY <1>2 DEF AcceptedAll, Check, Shutdown, EndOfIteration, RunStart, DrainCheck,
                DrainEnd, RunRead, vars, managerVars, verifierVars
  <2>2. QED
    BY <2>1, QuietImplements
<1>3. CASE TakeFront
  BY <1>3, TakeFrontImplements
<1>4. CASE TakePop
  BY <1>4, TakePopImplements
<1>5. CASE Answered
  BY <1>5, AnsweredImplements
<1>6. CASE Unanswered
  BY <1>6, UnansweredImplements
<1>7. CASE RunTop
  BY <1>7, RunTopImplements
<1>8. CASE TakePending
  BY <1>8, TakePendingImplements
<1>9. CASE NoData
  BY <1>9, NoDataImplements
<1>10. CASE Broken
  BY <1>10, BrokenImplements
<1>11. CASE Judge
  BY <1>11, JudgeImplements
<1>12. CASE DrainFront
  BY <1>12, DrainFrontImplements
<1>13. CASE DrainPop
  BY <1>13, DrainPopImplements
<1>14. QED
  BY <1>1, <1>2, <1>3, <1>4, <1>5, <1>6, <1>7, <1>8, <1>9, <1>10, <1>11, <1>12, <1>13
     DEF Next, Manager, Verifier, Ended

LEMMA InitImplements == Init => Desk!Init
BY DEF Init, Desk!Init, StatusOf

\* For any number of connections, the pipeline implements LoginDesk: one verdict each,
\* service only after "verified", no loss but of connections judged invalid, before a
\* RESET drains; and afterwards still none for those not judged yet.
THEOREM DeskImplemented == Spec => ImplementsDesk
<1>1. Init => Desk!Init
  BY InitImplements
<1>2. PipelineInv /\ PipelineInv' /\ [Next]_vars =>
        [Desk!Next]_<<[c \in Conns |-> StatusOf(c)], drained>>
  BY StepImplements DEF DeskVars, StatusNow
<1>3. QED
  BY <1>1, <1>2, Invariant, PTL DEF Spec, ImplementsDesk, Desk!Spec

-----------------------------------------------------------------------------
(* What the RESET alone breaks. *)

\* Until a RESET drains, only connections judged invalid are dropped.
DroppedInvalid ==
    ~drained => \A c \in Conns : StatusOf(c) = "dropped" => verdict[c] = "invalid"

\* A verdict is final.
LEMMA VerdictStays ==
    ASSUME PipelineInv, [Next]_vars, NEW c \in Conns, verdict[c] # "none"
    PROVE  verdict'[c] = verdict[c]
<1>1. CASE Judge
  <2>1. vhand \in Conns /\ verdict[vhand] = "none"
    BY <1>1, Receiving DEF Judge
  <2>2. PICK v \in Answers : verdict' = [verdict EXCEPT ![vhand] = v]
    BY <1>1 DEF Judge, Answers
  <2>3. QED
    BY <2>1, <2>2 DEF PipelineInv, TypeOK
<1>2. CASE ~Judge
  <2>1. verdict' = verdict
    BY <1>2 DEF Next, Manager, Verifier, Ended, Accept, AcceptedAll, Check, TakeFront,
                TakePop, Answered, Unanswered, EndOfIteration, Shutdown, RunStart,
                RunTop, TakePending, NoData, Broken, DrainCheck, DrainFront, DrainPop,
                DrainEnd, RunRead, vars, history
  <2>2. QED
    BY <2>1
<1>3. QED
  BY <1>1, <1>2

LEMMA DroppedStep ==
    PipelineInv /\ PipelineInv' /\ DroppedInvalid /\ [Next]_vars => DroppedInvalid'
<1>1. SUFFICES ASSUME PipelineInv, PipelineInv', DroppedInvalid, [Next]_vars, ~drained',
                      NEW c \in Conns, StatusOf(c)' = "dropped"
               PROVE  verdict'[c] = "invalid"
  BY DEF DroppedInvalid
<1>2. ~drained
  BY <1>1 DEF Next, Manager, Verifier, Ended, Accept, AcceptedAll, Check, TakeFront,
              TakePop, Answered, Unanswered, EndOfIteration, Shutdown, RunStart,
              RunTop, TakePending, NoData, Broken, Judge, DrainCheck, DrainFront,
              DrainPop, DrainEnd, RunRead, vars, history
<1>3. Stands(c)
  BY <1>1, Standing DEF AllStand
<1>4. StatusOf(c) \in {"dropped", "invalid"}
  <2>1. CASE UNCHANGED DeskVars
    <3>1. [d \in Conns |-> StatusOf(d)]' = [d \in Conns |-> StatusOf(d)]
      BY <2>1 DEF DeskVars, StatusNow
    <3>2. StatusOf(c)' = StatusOf(c)
      BY <3>1
    <3>3. QED
      BY <1>1, <3>2
  <2>2. CASE Desk!Next
    <3> DEFINE now == [d \in Conns |-> StatusOf(d)]
    <3>1. now[c] = StatusOf(c) /\ now'[c] = "dropped"
      BY <1>1
    <3>2. ASSUME NEW d \in Conns, NEW s, Desk!Becomes(d, s),
                 s # "dropped" \/ now[d] = "invalid"
          PROVE  now[c] \in {"dropped", "invalid"}
      <4>1. now' = [now EXCEPT ![d] = s]
        BY <3>2 DEF Desk!Becomes
      <4>2. QED
        BY <3>1, <3>2, <4>1
    <3>3. ASSUME NEW d \in Conns,
                 \/ Desk!Accept(d) \/ Desk!Judge(d) \/ Desk!Serve(d)
                 \/ Desk!Close(d) \/ Desk!Drop(d)
          PROVE  now[c] \in {"dropped", "invalid"}
      <4>1. PICK s : Desk!Becomes(d, s) /\ (s # "dropped" \/ now[d] = "invalid")
        BY <3>3
           DEF Desk!Accept, Desk!Judge, Desk!Serve, Desk!Close, Desk!Drop, Desk!Verdicts
      <4>2. QED
        BY <3>2, <4>1
    <3>4. ~Desk!Reset /\ \A S \in SUBSET Conns : ~Desk!Disturb(S)
      BY <1>1, <1>2 DEF Desk!Reset, Desk!Disturb
    <3>5. now[c] \in {"dropped", "invalid"}
      BY <2>2, <3>3, <3>4 DEF Desk!Next
    <3>6. QED
      BY <3>1, <3>5
  <2>3. QED
    BY <1>1, <2>1, <2>2, StepImplements
<1>5. verdict[c] = "invalid"
  <2>1. CASE StatusOf(c) = "dropped"
    BY <1>1, <1>2, <2>1 DEF DroppedInvalid
  <2>2. CASE StatusOf(c) = "invalid"
    <3>1. verdict[c] # "none" /\ socket[c] = "open" /\ c \notin served /\ Held(c)
      <4>1. socket[c] \in {"backlog", "open", "closed"}
        BY <1>1 DEF PipelineInv, TypeOK
      <4>2. QED
        BY <1>3, <2>2, <4>1 DEF Stands
    <3>2. QED
      BY <1>3, <2>2, <3>1 DEF Stands
  <2>3. QED
    BY <1>4, <2>1, <2>2
<1>6. QED
  BY <1>1, <1>5, VerdictStays

\* A verified connection is lost only to a RESET: the comment "Remove all connections
\* and clients" (UserVerifier.cpp:103), refuted by the drain, holds until it begins.
THEOREM KeptUntilReset == Spec => [](~drained => VerifiedKept)
<1>1. Init => DroppedInvalid
  BY DEF Init, DroppedInvalid, StatusOf
<1>2. PipelineInv /\ DroppedInvalid => (~drained => VerifiedKept)
  <2>1. SUFFICES ASSUME PipelineInv, DroppedInvalid, ~drained, NEW c \in Conns,
                        verdict[c] = "verified", socket[c] = "open",
                        c \notin served, ~Held(c)
                 PROVE  FALSE
    BY DEF VerifiedKept
  <2>2. Stands(c)
    BY <2>1, Standing DEF AllStand
  <2>3. StatusOf(c) = "dropped"
    BY <2>1, <2>2 DEF Stands
  <2>4. QED
    BY <2>1, <2>3 DEF DroppedInvalid
<1>3. Spec => []DroppedInvalid
  BY <1>1, DroppedStep, Invariant, PTL DEF Spec
<1>4. QED
  BY <1>2, <1>3, Invariant, PTL
=============================================================================
