---------------------------- MODULE MCChatSession ----------------------------
(* Small instances of the clients at work with the server.                   *)
EXTENDS ChatSession

\* What users type: commands with blanks around them, a room with a good name
\* and one with a bad name, no name, and texts.  With MAX_LEN = 9 the shortest
\* text, which has a colon in it, is delivered, the next can be sent and not
\* delivered, and the last cannot be sent.
Lines == {<<" ", "/join", " ", " ", "r1">>, <<"/join", " ", "-">>, <<"/join", " ">>,
          <<"/leave">>, <<"/quit", " ">>, <<" ">>,
          <<"a", ":">>, <<"a", "a", "a">>, <<"a", "a", "a", "a", "a", "a", "a">>}
===============================================================================
