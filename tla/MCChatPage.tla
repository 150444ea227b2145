---------------------------- MODULE MCChatPage ----------------------------
(* A small instance of ChatPage: a longer talk, or more settings changed. *)
EXTENDS ChatPage

OneTag == {"docs"}
TalkOrTune == {[turns |-> 3, edits |-> 1], [turns |-> 2, edits |-> 2]}
LMStudio == {"lmstudio"}
=============================================================================
