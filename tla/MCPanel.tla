-------------------------------- MODULE MCPanel --------------------------------
EXTENDS Panel

CONSTANTS admin, mentor, hers, his, herAccount, hisAccount

(* An administrator, a mentor, and a conversation of each account *)
Accounts == [v \in {admin, mentor} |-> IF v = admin THEN NoAccount ELSE herAccount]
ChatAccounts == [c \in {hers, his} |-> IF c = hers THEN herAccount ELSE hisAccount]
================================================================================
