---------------------------- MODULE MCConnection ----------------------------
(* Instances of Connection for TLC. *)
EXTENDS Connection

Whole(code) == Text(code, Wanted[code])

\* A request of every kind that is parsed, and the two whose documented format is
\* not the one their Parse... function looks for.
EveryRequest ==
    {Whole(code) : code \in {"100", "201", "202", "204"}}
      \cup {Text(code, Documented[code]) : code \in DOMAIN Documented}

\* A login and then one of these requests.
LoginAndRequest ==
    {Whole("300") \o <<"null">> \o text \o <<"null">> : text \in EveryRequest}

\* For what does not depend on the texts: three characters, that is three pieces.
Short == {<<"other", "rest", "rest">>}
=============================================================================
