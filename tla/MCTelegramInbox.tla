--------------------------- MODULE MCTelegramInbox ---------------------------
(* An instance of the bot for TLC. *)
EXTENDS TelegramInbox

MCWorlds == {[mode |-> "polling", kind |-> <<"investigate", "pay">>],
             [mode |-> "webhook", kind |-> <<"pay", "investigate">>]}
==============================================================================
