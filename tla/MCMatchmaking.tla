---------------------------- MODULE MCMatchmaking ----------------------------
(***************************************************************************)
(* Instances of Matchmaking for TLC.  Hosts, clients and codes are         *)
(* interchangeable, so that the safety runs identify permuted states.      *)
(***************************************************************************)
EXTENDS Matchmaking, TLC

Symmetry == Permutations(Hosts) \cup Permutations(Clients) \cup Permutations(Codes)

(* Bound of the run with two hosts: one host at most outlives its socket,  *)
(* and no client does before it has a session.                             *)
Outlived == {h \in Hosts : hostUp[h] = "up" /\ link[h] # "open"}
Stranded == {c \in Clients : clientUp[c] = "up" /\ link[c] # "open" /\ clientPc[c] # "open"}
FewOutages == Cardinality(Outlived) <= 1 /\ Stranded = {}
===============================================================================
