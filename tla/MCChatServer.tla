----------------------------- MODULE MCChatServer -----------------------------
(***************************************************************************)
(* ChatServer with the symmetry of its connections and nicknames, which no *)
(* step tells apart, for the runs that check state properties only.        *)
(***************************************************************************)
EXTENDS ChatServer, TLC

Symmetry == Permutations(Conns) \cup Permutations(Names \ {EmptyNick})
===============================================================================
