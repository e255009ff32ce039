------------------------------ MODULE MCConsole ------------------------------
(* Servers whose names differ in punctuation only, so that their tools share *)
(* a registered name, and one whose name was used before.                    *)
EXTENDS Console

MCServers == <<[name |-> "a-b", tools |-> <<"c">>],
               [name |-> "a_b", tools |-> <<"c">>],
               [name |-> "a-b", tools |-> <<"d">>]>>

MCWords == [n \in {"a-b", "a_b", "c", "d"} |->
              CASE n = "a-b" -> <<"a", "b">>
                [] n = "a_b" -> <<"a", "b">>
                [] OTHER -> <<n>>]

MCModels == {"m1", "m2"}

=============================================================================
