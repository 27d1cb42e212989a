----------------------------- MODULE MCSession -----------------------------
(* Instance of Session for TLC.  Slots and connections are interchangeable, *)
(* and so are servers and accounts.                                        *)
EXTENDS Session, TLC

Symmetry == Permutations(Ti) \union Permutations(Conn) \union Permutations(Server)
            \union Permutations(Account) \union Permutations(Char)
=============================================================================
