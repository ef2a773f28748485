-------------------------- MODULE MCConversation --------------------------
(* Small instances of Conversation: a context of a few tokens that a third *)
(* message overflows, and one message no drop can make room for.           *)
EXTENDS Conversation, TLC

Sizes == {1, 3, 9}
AllFaults == {"prefill", "decode", "sample", "save"}
NoFaults == {}
BadGrammar == {"sample"}

===========================================================================
