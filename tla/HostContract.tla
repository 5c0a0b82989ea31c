----------------------------- MODULE HostContract -----------------------------
(***************************************************************************)
(* A host against what the signalling protocol lets the matchmaker send    *)
(* it: the knocks, the answers, and CLIENT_DISCONNECT for a client that    *)
(* left, which ws-host-share.ts handles and the 'close' handler of the     *)
(* matchmaker is written to send (index.ts:79-86) though its guard never   *)
(* holds.  Clients are reduced to what the host sees of them.              *)
(***************************************************************************)
EXTENDS HostAgent

VARIABLES
  guest,   \* guest[c]: has c not come, knocked, been approved, or left
  room     \* room[c]: the host whose session c found

contractVars == <<channelVars, rtcVars, hostVars, guest, room>>

ContractInit ==
  /\ ChannelInit
  /\ RtcInit
  /\ HostInit
  /\ guest = [c \in Clients |-> "away"]
  /\ room = [c \in Clients |-> None]

Deliver(h, m) == toPeer' = [toPeer EXCEPT ![h] = Append(@, m)]
Reachable(h) == hostUp[h] = "up" /\ link[h] = "open"

(* The request of a client that found the session reaches the host.        *)
Knock(h, c) ==
  /\ Reachable(h) /\ guest[c] = "away"
  /\ guest' = [guest EXCEPT ![c] = "knocked"]
  /\ room' = [room EXCEPT ![c] = h]
  /\ Deliver(h, ApprovalRequest(c))
  /\ UNCHANGED <<link, toServer, rtcVars>>

(* A client that knocked is gone; the host it knocked at is told.          *)
Leave(h, c) ==
  /\ Reachable(h) /\ room[c] = h /\ guest[c] \in {"knocked", "approved"}
  /\ guest' = [guest EXCEPT ![c] = "left"]
  /\ clientPc' = [clientPc EXCEPT ![c] = "closed"]
  /\ Deliver(h, ClientDisconnect(c))
  /\ UNCHANGED <<room, link, toServer, hostPc, hostAnswer, clientOffer>>

(* The other side takes a frame of the host; a client that is approved,    *)
(* and then gets an offer, answers it.                                     *)
Register(h) ==
  /\ Head(toServer[h]) = HostRegister
  /\ \E k \in Codes : Deliver(h, HostRegistered(k))
  /\ UNCHANGED <<guest, rtcVars>>

Judge(h, c) ==
  /\ \E b \in BOOLEAN :
       /\ Head(toServer[h]) = ApprovalResponse(c, b)
       /\ guest' = [guest EXCEPT ![c] =
                      IF @ # "knocked" THEN @ ELSE IF b THEN "approved" ELSE "left"]
  /\ UNCHANGED <<toPeer, rtcVars>>

AnswerOffer(h, c) ==
  /\ Head(toServer[h]) = Offer(h, c)
  /\ IF guest[c] = "approved"
     THEN /\ clientPc' = [clientPc EXCEPT ![c] = "answered"]
          /\ clientOffer' = [clientOffer EXCEPT ![c] = <<h, c>>]
          /\ Deliver(h, Answer(c, h, c))
     ELSE UNCHANGED <<clientPc, clientOffer, toPeer>>
  /\ UNCHANGED <<guest, hostPc, hostAnswer>>

Take(h) ==
  /\ Reachable(h) /\ toServer[h] # <<>>
  /\ toServer' = [toServer EXCEPT ![h] = Tail(@)]
  /\ UNCHANGED <<room, link>>
  /\ \/ Register(h)
     \/ \E c \in Clients : Judge(h, c) \/ AnswerOffer(h, c)

ContractNext ==
  \/ HostNext /\ UNCHANGED <<guest, room>>
  \/ /\ \E h \in Hosts :
          \/ \E c \in Clients : Knock(h, c) \/ Leave(h, c)
          \/ Take(h)
     /\ UNCHANGED hostVars

ContractSpec == ContractInit /\ [][ContractNext]_contractVars

-----------------------------------------------------------------------------
(* Every variable of the host keeps its type.                              *)
ContractTypeOK ==
  /\ ChannelTypeOK
  /\ RtcTypeOK
  /\ HostTypeOK
  /\ guest \in [Clients -> {"away", "knocked", "approved", "left"}]
  /\ room \in [Clients -> Hosts \cup {None}]

(* A client that left is out of the queue once its CLIENT_DISCONNECT has   *)
(* been read, wherever it stood and whatever the lobby was doing.          *)
LeaversAreForgotten ==
  \A h \in Hosts, c \in Clients :
    (c \in Queued(h) /\ guest[c] = "left" /\ link[h] = "open")
      => \E i \in DOMAIN toPeer[h] : toPeer[h][i] = ClientDisconnect(c)
===============================================================================
