----------------------------- MODULE MCChatClient -----------------------------
(* An instance of ChatClient for TLC.                                       *)
EXTENDS ChatClient

CONSTANTS c1, c2, c3, groq, gemini

\* Two calls of one provider, and one of another.
TwoProviders == [c \in Chats |-> IF c = c3 THEN gemini ELSE groq]

===============================================================================
