------------------------------ MODULE MCTokens ------------------------------
(* Small instances of Tokens: one token that lives shorter than the lead     *)
(* time and one that lives longer.                                           *)
EXTENDS Tokens

NoFaults == {}
AllFaults == {"transport", "reject", "revoke", "app", "omit"}
=============================================================================
