-------------------------- MODULE CommandProcessor ---------------------------
(***************************************************************************)
(* src/src/commands/mod.rs: a table of handlers by command name, filled    *)
(* through register_handler before the node starts (main.rs registers      *)
(* none), and the dispatch of a gossiped command to its handler.  Handlers *)
(* are closures of whoever uses the crate: they may succeed or fail.       *)
(***************************************************************************)
CONSTANT Commands    \* the commands gossiped, by the name they dispatch to

ASSUME CommandAssumption ==
    Commands \subseteq {"share_generation", "sign_message", "update_state", "consensus_proposal"}

VARIABLE handlers    \* the names that have a handler

ProcessorInit == handlers = {}

RegisterHandler(name) == handlers' = handlers \cup {name}

\* handle_message: what its handler returns, or Ok without one.
CommandResults(name) == IF name \in handlers THEN {"ok", "err"} ELSE {"ok"}

=============================================================================
