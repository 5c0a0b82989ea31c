------------------------------ MODULE RtcTransport ------------------------------
(***************************************************************************)
(* RTCTransport, packages/transport/src/rtc-transport.ts: the peer         *)
(* connection a host makes for the client it selected, the one that client *)
(* makes, and their negotiation over SIGNAL_FORWARD frames.                *)
(*                                                                         *)
(* node-datachannel is external: a connection accepts one remote           *)
(* description, in the state that expects it, and rejects the others with  *)
(* an exception the listener swallows; a data channel may open once both   *)
(* descriptions are in place, and may break at any time.  ICE candidates   *)
(* decide only whether it does open, which is left open here, so their     *)
(* frames are not modelled.                                                *)
(***************************************************************************)
EXTENDS Channels

VARIABLES
  hostPc,       \* hostPc[h][c]: the transport host h made for client c
  hostAnswer,   \* hostAnswer[h][c]: the author of the answer it accepted
  clientPc,     \* clientPc[d]: the transport of client d
  clientOffer   \* clientOffer[d]: the offer it accepted, as <<host, client>>

rtcVars == <<hostPc, hostAnswer, clientPc, clientOffer>>

(* "new": connect() called, no description yet; "offered"/"answered": the  *)
(* local description is out; "closed": closed, failed or its process gone. *)
HostPcStates == {"none", "new", "offered", "open", "closed"}
ClientPcStates == {"none", "new", "remote", "answered", "open", "closed"}

RtcTypeOK ==
  /\ hostPc \in [Hosts -> [Clients -> HostPcStates]]
  /\ hostAnswer \in [Hosts -> [Clients -> Clients \cup {None}]]
  /\ clientPc \in [Clients -> ClientPcStates]
  /\ clientOffer \in [Clients -> (Hosts \X Clients) \cup {None}]

RtcInit ==
  /\ hostPc = [h \in Hosts |-> [c \in Clients |-> "none"]]
  /\ hostAnswer = [h \in Hosts |-> [c \in Clients |-> None]]
  /\ clientPc = [c \in Clients |-> "none"]
  /\ clientOffer = [c \in Clients |-> None]

-----------------------------------------------------------------------------
(* The transports of host h that are being set up or in use.               *)
Live == {"new", "offered", "open"}
Engaged(h) == {c \in Clients : hostPc[h][c] \in Live}

(* Client d answered the offer of h for c, and h applied that answer.      *)
Linked(h, c, d) == hostAnswer[h][c] = d /\ clientOffer[d] = <<h, c>>

(* signal(): a description is written only if the socket is open.          *)
(* onLocalDescription, on the host: the offer.                             *)
HostSignalsOffer(h, c) ==
  /\ hostPc[h][c] = "new"
  /\ hostPc' = [hostPc EXCEPT ![h][c] = "offered"]
  /\ toServer' = Written(h, <<Offer(h, c)>>)
  /\ UNCHANGED <<hostAnswer, clientPc, clientOffer, link, toPeer>>

(* onLocalDescription, on the client: the answer to the offer it applied.  *)
ClientSignalsAnswer(d) ==
  /\ clientPc[d] = "remote"
  /\ clientPc' = [clientPc EXCEPT ![d] = "answered"]
  /\ toServer' = Written(d, <<Answer(d, clientOffer[d][1], clientOffer[d][2])>>)
  /\ UNCHANGED <<hostPc, hostAnswer, clientOffer, link, toPeer>>

(* A SIGNAL_FORWARD frame m on the socket of host h.  Every transport the  *)
(* host ever made still listens there, and each tries the description.     *)
HostAppliesSignal(h, m) ==
  /\ hostAnswer' =
       [hostAnswer EXCEPT ![h] =
          [c \in Clients |->
             IF m.sdp = "answer" /\ hostPc[h][c] = "offered" /\ @[c] = None
             THEN m.from ELSE @[c]]]
  /\ UNCHANGED <<hostPc, clientPc, clientOffer>>

(* A SIGNAL_FORWARD frame m on the socket of client d.  A client has a     *)
(* listener only once it has a transport.                                  *)
ClientAppliesSignal(d, m) ==
  /\ IF clientPc[d] = "new" /\ m.sdp = "offer"
     THEN /\ clientPc' = [clientPc EXCEPT ![d] = "remote"]
          /\ clientOffer' = [clientOffer EXCEPT ![d] = m.for]
     ELSE UNCHANGED <<clientPc, clientOffer>>
  /\ UNCHANGED <<hostPc, hostAnswer>>

(* When the data channel between h's transport for c and some client may   *)
(* open, seen from either end.                                             *)
HostMayOpen(h, c) ==
  /\ hostPc[h][c] = "offered"
  /\ \E d \in Clients : Linked(h, c, d) /\ clientPc[d] \in {"answered", "open"}

ClientMayOpen(d) ==
  /\ clientPc[d] = "answered"
  /\ \E h \in Hosts, c \in Clients :
       Linked(h, c, d) /\ hostPc[h][c] \in {"offered", "open"}

(* The channel of d is gone at the host's end.                             *)
HostEndClosed(d) ==
  /\ clientPc[d] = "open"
  /\ hostPc[clientOffer[d][1]][clientOffer[d][2]] = "closed"
===============================================================================
