------------------------------ MODULE Messages ------------------------------
(* The message vocabulary of BlueSOD (Messages.h, Messages.cpp): the kinds of
   text a client can send, the type MessageBase::GetMessageType gives each, and
   the message object the Parse... function of that type returns.

   A text is abstracted to its first three characters, the only part
   GetMessageType looks at; the fields that follow are payload. *)
EXTENDS Naturals

\* message_t, without the two types (FILE, USER_INFO) no code ever builds.
MessageTypes ==
    {"MESSAGE_TO_USER", "REQUEST_CONVO_LISTS", "REQUEST_CONVO_MSGS", "LOGOUT",
     "INVALID", "REQUEST_FILE", "REQUEST_USER_INFO", "LOGIN",
     "CONVERSATION_MSGS", "CONVERSATION_LIST"}

\* The codes a client text can begin with; "other" is any other beginning.
Texts == {"100", "201", "202", "203", "204", "300", "304", "other"}

\* MessageBase::GetMessageType: five codes are compared, every other text,
\* "300" (login) and "304" (logout) included, is INVALID.
GetMessageType(text) ==
    CASE text = "100" -> "MESSAGE_TO_USER"
      [] text = "201" -> "REQUEST_CONVO_LISTS"
      [] text = "202" -> "REQUEST_CONVO_MSGS"
      [] text = "203" -> "REQUEST_FILE"
      [] text = "204" -> "REQUEST_USER_INFO"
      [] OTHER        -> "INVALID"

\* What a Parse... function can return for a text of type t, as Code() and
\* IsValid() show it. Every Parse... starts from the default constructor of its
\* class, which the repository declares and never defines, and assigns neither
\* field afterwards: the code is either the type's own or the base class's
\* INVALID, and the object is valid or not.
ParsedAs(t) ==
    {[code |-> "INVALID", valid |-> FALSE]}
      \cup (IF t = "INVALID" THEN {}
            ELSE {[code |-> t, valid |-> v] : v \in BOOLEAN})

\* The requests Server::Run hands to one of the Find... functions.
Requests ==
    {"REQUEST_CONVO_LISTS", "REQUEST_CONVO_MSGS", "REQUEST_FILE",
     "REQUEST_USER_INFO"}

\* The type of the reply FindConversationList and FindConversation queue.
\* FindFile and FindUserInformation queue none: they have no entry.
ReplyTo == [t \in {"REQUEST_CONVO_LISTS", "REQUEST_CONVO_MSGS"} |->
              IF t = "REQUEST_CONVO_LISTS" THEN "CONVERSATION_LIST"
                                           ELSE "CONVERSATION_MSGS"]
=============================================================================
