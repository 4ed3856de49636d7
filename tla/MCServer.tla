------------------------------ MODULE MCServer ------------------------------
(* Instances of Server for TLC. *)
EXTENDS Server

CONSTANTS alice, bob

\* What reaches AddClient today: every ClientInfo was moved, so every id is 0.
LostIds == [c \in Clients |-> 0]

\* What a caller that kept the database's ids would hand over.
OwnIds == [c \in Clients |-> IF c = alice THEN 1 ELSE 2]

One == [c \in Clients |-> 1]
TwoAndOne == [c \in Clients |-> IF c = alice THEN 2 ELSE 1]

AllStates == ServerStates
=============================================================================
