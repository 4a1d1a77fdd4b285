--------------------------- MODULE MCMessageLoop ---------------------------
(* Budgets of 2 updates + 2 polls = 4 in place of 768 + 256 = 1024.           *)
EXTENDS MessageLoop
MCCommands == { <<>>, <<"message", "message">>, <<"perform">>, <<"after">>,
                <<"message", "quit", "perform">> }
FloodCommands == { [i \in 1..8 |-> "perform"] }
============================================================================
