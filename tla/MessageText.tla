---------------------------- MODULE MessageText ----------------------------
(* The Parse... functions of Messages.cpp, as functions of the text.

   A text is a sequence of characters. A token is a code, a tag, a delimiter, "{e}",
   a null character or a letter of a value; only its first character has its name,
   the others are "rest". So positions and lengths count characters, as in the code,
   and a token is found where all of it is. A value holds no delimiter and no tag. *)
EXTENDS Messages, Sequences, SequencesExt

\* The fields each Parse... function looks for, in its order.
Wanted ==
    [code \in Texts \ {"other"} |->
       CASE code = "100" -> <<"f:", "t:", "m:", "d:", "s:">>
         [] code \in {"201", "304"} -> <<"u:">>
         [] code = "202" -> <<"f:", "w:">>
         [] code = "203" -> <<"u:", "f:">>
         [] code = "204" -> <<"f:", "t:">>
         [] code = "300" -> <<"u:", "p:">>]

\* The formats the comments of Messages.h give for two of them.
Documented == [code \in {"100", "202"} |->
                 IF code = "100" THEN <<"f:", "t:", "m:", "d:">> ELSE <<"u:", "w:">>]

Tags    == {"f:", "t:", "m:", "d:", "s:", "u:", "w:", "p:"}
Letters == {"v1", "v2", "v3", "v4", "v5"}
Chars   == Texts \cup Tags \cup Letters \cup {";", "{e}", "null", "rest"}

\* How many characters a token has.
Width(token) == IF token \in Texts \cup {"{e}"} THEN 3 ELSE IF token \in Tags THEN 2 ELSE 1
Spelt(token) == [i \in 1 .. Width(token) |-> IF i = 1 THEN token ELSE "rest"]

\* The value of the k-th field of every text. The second is longer than the room that
\* a first value of one character leaves it in ParseLoginMsg.
Value == << <<"v1">>, [i \in 1 .. 7 |-> "v2"], <<"v3">>, <<"v4">>, <<"v5">> >>

\* The text with these fields.
Text(code, tags) ==
    Spelt(code) \o <<";">>
      \o FlattenSeq([k \in 1 .. Len(tags) |-> Spelt(tags[k]) \o Value[k] \o <<";">>])
      \o Spelt("{e}")

\* string::find from a position; 0 is npos.
Find(text, token, from) ==
    LET found == {i \in from .. Len(text) - Width(token) + 1 :
                    SubSeq(text, i, i + Width(token) - 1) = Spelt(token)}
    IN IF found = {} THEN 0 ELSE Min(found)

\* msg.substr(0, 3) == code.
HasCode(text, code) == IsPrefix(Spelt(code), text)

\* Where the search for the next delimiter begins: after the last one, or, in
\* ParseLoginMsg and UserInfoRequest's ParseMessage, before it.
SearchFrom(code, delimiter) ==
    IF code \in {"300", "204"} THEN delimiter - 1 ELSE delimiter + 1

\* The delimiter found with the k-th field.
Delimiters(code, text) ==
    LET d[k \in 1 .. Len(Wanted[code])] ==
          IF k = 1 THEN Find(text, ";", 5)
                   ELSE IF d[k - 1] = 0 THEN 0
                        ELSE Find(text, ";", SearchFrom(code, d[k - 1]))
    IN d

\* Mutant: the end of the text is not looked for.
EndIgnored(text) == TRUE
\* msg.find(END_OF_MSG) != npos.
HasEnd(text) == Find(text, "{e}", 1) # 0

\* A field: substr from behind its tag, with the delimiter's index less one, counted
\* from 0, for a length.
Substr(text, tag, delimiter) ==
    SubSeq(text, tag + 2, Min({Len(text), tag + delimiter - 1}))

\* Parse... of the class whose code is code: are its members set, and to what?
Parse(code, text) ==
    LET tag == [k \in 1 .. Len(Wanted[code]) |-> Find(text, Wanted[code][k], 1)]
        delimiter == Delimiters(code, text)
        ok == /\ HasCode(text, code)
              /\ \A k \in DOMAIN tag : tag[k] # 0 /\ delimiter[k] # 0
              /\ HasEnd(text)
    IN [ok |-> ok,
        fields |-> IF ok THEN [k \in DOMAIN tag |-> Substr(text, tag[k], delimiter[k])]
                         ELSE <<>>]

\* What a default-constructed message has.
NotParsed == [ok |-> FALSE, fields |-> <<>>]

\* client_handler: the function called for a text received from a client.
ParseRequest(text) ==
    IF /\ text # <<>> /\ text[1] \in Texts /\ HasCode(text, text[1])
       /\ GetMessageType(text[1]) # "INVALID"
      THEN Parse(text[1], text)
      ELSE NotParsed

\* Does a text have what its function looks for?
Parseable(text) == text = Text(text[1], Wanted[text[1]])

\* What is left of the k-th value in a text of this code: all of it, but of a second
\* one whose end is searched from before the first delimiter, five characters more
\* than the first one has.
Left(code, k) ==
    IF k = 2 /\ code \in {"300", "204"}
      THEN SubSeq(Value[2], 1, Min({Len(Value[2]), Len(Value[1]) + 5}))
      ELSE Value[k]

\* Does each field begin with what is left of its value?
Begins(code, fields) == \A k \in DOMAIN fields : IsPrefix(Left(code, k), fields[k])
=============================================================================
