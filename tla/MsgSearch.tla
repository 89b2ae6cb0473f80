----------------------------- MODULE MsgSearch -----------------------------
(***************************************************************************)
(* How sys_msgrcv picks a message (ipc/msg.c): the translation of msgtyp   *)
(* and the flags into a search, the test of one message, and the message a *)
(* search of the whole queue ends with.  A message is [id, type, size].    *)
(***************************************************************************)
EXTENDS Integers, Sequences

SearchModes == {"any", "equal", "notequal", "lessequal"}

\* convert_mode: the search a msgtyp argument asks for.
convert_mode(msgtyp, except) ==
    IF msgtyp = 0 THEN [mode |-> "any", type |-> 0]
    ELSE IF msgtyp < 0 THEN [mode |-> "lessequal", type |-> -msgtyp]
    ELSE [mode |-> IF except THEN "notequal" ELSE "equal", type |-> msgtyp]

testmsg(msg, type, mode) ==
    CASE mode = "any"       -> TRUE
      [] mode = "lessequal" -> msg.type <= type
      [] mode = "equal"     -> msg.type = type
      [] mode = "notequal"  -> msg.type # type

\* One turn of the search loop of sys_msgrcv, at position i: msgtyp goes down with
\* each match of "lessequal", and any other match, or type 1, ends the search.
Turn_KeepType(messages, mode, at, i) ==   \* mutant: msgtyp = m_type
    IF at.stop \/ ~testmsg(messages[i], at.type, mode) THEN at
    ELSE [found |-> i, type |-> messages[i].type, stop |-> mode # "lessequal"]
Turn(messages, mode, at, i) ==
    IF at.stop \/ ~testmsg(messages[i], at.type, mode) THEN at
    ELSE IF mode = "lessequal" /\ messages[i].type # 1
    THEN [at EXCEPT !.found = i, !.type = messages[i].type - 1]
    ELSE [at EXCEPT !.found = i, !.stop = TRUE]

\* The loop over the whole queue, and the position it ends with, 0 for none.
Search(messages, type, mode) ==
    LET at[i \in 0 .. Len(messages)] ==
            IF i = 0 THEN [found |-> 0, type |-> type, stop |-> FALSE]
            ELSE Turn(messages, mode, at[i - 1], i)
    IN  at
FindMsg(messages, type, mode) == Search(messages, type, mode)[Len(messages)].found
=============================================================================
