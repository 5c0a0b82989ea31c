-------------------------------- MODULE Protocol --------------------------------
(***************************************************************************)
(* packages/protocol/src/index.ts: the packets of a session.  What a shell *)
(* prints and what a user types is numbered, which is all the properties   *)
(* tell apart; RESIZE and HEARTBEAT change nothing they speak of.          *)
(***************************************************************************)
EXTENDS Naturals, Sequences

CONSTANTS
  Clients,     \* clients, and the sessions they have: each has one at most
  MaxOutput,   \* bound on what a shell prints
  MaxInput     \* bound on what a client types

ASSUME ProtocolAssumption == MaxOutput \in Nat /\ MaxInput \in Nat

(* The n-th output of the shell of c's session; the n-th input of c.       *)
Output(c, n) == [type |-> "OUTPUT", of |-> c, n |-> n]
Input(c, n)  == [type |-> "INPUT", of |-> c, n |-> n]
Knock(c)     == [type |-> "KNOCK", of |-> c]    \* an INPUT that reads "KNOCK:..."
Close        == [type |-> "CLOSE"]
Malformed    == [type |-> "MALFORMED"]

Outputs == {Output(c, n) : c \in Clients, n \in 1..MaxOutput}
Inputs  == {Input(c, n) : c \in Clients, n \in 1..MaxInput}
ToClient == Outputs \cup {Close}
ToHost   == Inputs \cup {Knock(c) : c \in Clients} \cup {Close}

(* deserialize: bytes that are one packet give it; a part of a packet, or  *)
(* several in a row, make unpack throw.                                    *)
Deserialized(packets, whole) ==
  IF whole /\ Len(packets) = 1 THEN Head(packets) ELSE Malformed
===============================================================================
