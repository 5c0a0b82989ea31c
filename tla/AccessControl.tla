----------------------------- MODULE AccessControl -----------------------------
(***************************************************************************)
(* What SyncPTY promises about who gets in, without sockets, frames,       *)
(* lobbies or locks: a client asks one host, the host rules on everyone    *)
(* who is waiting at once, each client gets at most one ruling, and a host *)
(* has at most one guest at a time, whom it admitted.                      *)
(***************************************************************************)
EXTENDS Sequences

CONSTANTS Hosts, Clients

VARIABLES
  serving,   \* serving[h]: has the host not started, started, or ended
  waiting,   \* waiting[h]: the clients whose request h has yet to rule on
  guests,    \* guests[h]: the clients h lets in, or is about to
  rulings    \* rulings[c]: the rulings on the request of c

accessVars == <<serving, waiting, guests, rulings>>

Init ==
  /\ serving = [h \in Hosts |-> "off"]
  /\ waiting = [h \in Hosts |-> {}]
  /\ guests = [h \in Hosts |-> {}]
  /\ rulings = [c \in Clients |-> <<>>]

Open(h) ==
  /\ serving[h] = "off"
  /\ serving' = [serving EXCEPT ![h] = "up"]
  /\ UNCHANGED <<waiting, guests, rulings>>

(* A client asks once, and one host.                                       *)
Ask(h, c) ==
  /\ serving[h] = "up"
  /\ rulings[c] = <<>> /\ \A g \in Hosts : c \notin waiting[g]
  /\ waiting' = [waiting EXCEPT ![h] = @ \cup {c}]
  /\ UNCHANGED <<serving, guests, rulings>>

(* The host rules on all who wait: those of S are admitted.                *)
Rule(h, S) ==
  /\ serving[h] = "up"
  /\ waiting' = [waiting EXCEPT ![h] = {}]
  /\ rulings' = [c \in Clients |->
                   IF c \in waiting[h] THEN Append(rulings[c], c \in S) ELSE rulings[c]]
  /\ UNCHANGED serving

RefuseAll(h) ==
  /\ Rule(h, {})
  /\ UNCHANGED guests

Admit(h, c) ==
  /\ c \in waiting[h]
  /\ guests[h] = {}
  /\ Rule(h, {c})
  /\ guests' = [guests EXCEPT ![h] = {c}]

(* The guest leaves, or never manages to come in.                          *)
Part(h) ==
  /\ guests' = [guests EXCEPT ![h] = {}]
  /\ UNCHANGED <<serving, waiting, rulings>>

(* The host ends; those who wait there get no ruling any more.             *)
Close(h) ==
  /\ serving[h] = "up"
  /\ serving' = [serving EXCEPT ![h] = "exited"]
  /\ waiting' = [waiting EXCEPT ![h] = {}]
  /\ guests' = [guests EXCEPT ![h] = {}]
  /\ UNCHANGED rulings

Next ==
  \E h \in Hosts :
    \/ Open(h)
    \/ RefuseAll(h)
    \/ Part(h)
    \/ Close(h)
    \/ \E c \in Clients : Ask(h, c) \/ Admit(h, c)

Spec == Init /\ [][Next]_accessVars
===============================================================================
