----------------------------- MODULE MCChatPage -----------------------------
(***************************************************************************)
(* Three requests of a page that stays open, two of a page that is opened  *)
(* twice; the visitor may sign in during the first.                        *)
(***************************************************************************)
EXTENDS ChatPage

MCSelections == {"legacy", "mix"}
Staying == [requests |-> 3, generations |-> 3, mounts |-> 1, signsIn |-> TRUE]
Returning == [requests |-> 2, generations |-> 3, mounts |-> 2, signsIn |-> FALSE]
MCVisits == {Staying, Returning}
=============================================================================
