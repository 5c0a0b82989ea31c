------------------------------ MODULE Matchmaking ------------------------------
(***************************************************************************)
(* The three programs together: hosts and clients that meet through the    *)
(* matchmaker, agree through it on who may join, and then talk to each     *)
(* other directly.                                                         *)
(***************************************************************************)
EXTENDS SignalingServer, HostAgent, ClientAgent

vars == <<channelVars, serverVars, rtcVars, hostVars, clientVars>>

Init ==
  /\ ChannelInit
  /\ ServerInit
  /\ RtcInit
  /\ HostInit
  /\ ClientInit

ServerSteps(s) == ServerHandles(s) /\ UNCHANGED <<rtcVars, hostVars, clientVars>>
HostSteps(h) == HostReacts(h) /\ UNCHANGED <<serverVars, clientVars>>
ClientSteps(c) == ClientReacts(c) /\ UNCHANGED <<serverVars, hostVars>>

Next ==
  \/ ServerNext /\ UNCHANGED <<rtcVars, hostVars, clientVars>>
  \/ HostNext /\ UNCHANGED <<serverVars, clientVars>>
  \/ ClientNext /\ UNCHANGED <<serverVars, hostVars>>

Spec == Init /\ [][Next]_vars

(* The event loops run: what has arrived is handled, and a continuation    *)
(* that is ready runs.  Nothing is assumed of users, operators, networks   *)
(* and shells.                                                             *)
Fairness ==
  /\ \A s \in Peers : WF_vars(ServerSteps(s))
  /\ \A h \in Hosts : WF_vars(HostSteps(h))
  /\ \A c \in Clients : WF_vars(ClientSteps(c))

FairSpec == Spec /\ Fairness

-----------------------------------------------------------------------------
(* Every variable keeps its type.                                          *)
TypeOK ==
  /\ ChannelTypeOK
  /\ ServerTypeOK
  /\ RtcTypeOK
  /\ HostTypeOK
  /\ ClientTypeOK

(* If codes come back, and the socket of the host whose code a client      *)
(* looked up is gone, or every socket with the matchmaker, the client may  *)
(* get to another host with its old code, or with what it was told there.  *)
Orphaned(c) == ReissueCodes /\ \A h \in Hosts : matchedHost[c] = h => link[h] = "closed"

(* Only the client an operator selected gets a shell: it was approved, it  *)
(* is the author of the answer its transport accepted, and no client makes *)
(* a transport, or accepts an offer, that is not meant for it, unless it   *)
(* was left behind in a room whose code another host has drawn.            *)
GuestWasSelected ==
  /\ \A h \in Hosts, c \in Clients : hostPc[h][c] = "open" =>
       /\ verdicts[c] = <<TRUE>>
       /\ hostAnswer[h][c] = c \/ \E d \in Clients : hostAnswer[h][c] = d /\ Orphaned(d)
  /\ \A d \in Clients :
       /\ clientPc[d] # "none" => verdicts[d] = <<TRUE>>
       /\ clientOffer[d] # None => clientOffer[d][2] = d \/ Orphaned(d)

(* A knock, and what comes of it, stays with the host whose code the       *)
(* client looked up: no other host sees the client in its queue or makes a *)
(* transport for it (the broadcast to the sockets of one code), unless the *)
(* client was left behind.                                                 *)
KnocksStayInRoom ==
  \A h \in Hosts, c \in Clients :
    (c \in Queued(h) \/ c \in Engaged(h)) => matchedHost[c] \in {h, None} \/ Orphaned(c)

(* A knock leaves the queue of a host that stays up only with a verdict.   *)
NoSilentDrop ==
  [][\A h \in Hosts, c \in Clients :
       (c \in Queued(h) /\ c \notin Queued(h)' /\ hostUp'[h] = "up")
         => verdicts'[c] # verdicts[c]]_vars

-----------------------------------------------------------------------------
(* The three programs implement the abstract access control: the queue of  *)
(* a host is who waits there, its transports in use are its guests, and    *)
(* the responses it wrote are its rulings.  Whatever frames are lost,      *)
(* broadcast or handled late, a host rules on its whole queue at once, on  *)
(* a client that asked it and no one before, and only with no guest there. *)
Serving == [h \in Hosts |-> IF hostUp[h] = "crashed" THEN "exited" ELSE hostUp[h]]

Access == INSTANCE AccessControl WITH
  serving <- Serving,
  waiting <- [h \in Hosts |-> Queued(h)],
  guests <- [h \in Hosts |-> Engaged(h)],
  rulings <- verdicts

ImplementsAccessControl == Access!Spec

-----------------------------------------------------------------------------
HostCutOff == \E h \in Hosts : hostUp[h] # "off" /\ link[h] # "open"

(* No client waits for an answer that does not come: a client that runs    *)
(* gets into the queue of a host, is approved, or ends.  Its request is    *)
(* written after the lookup, for which the matchmaker finds the room anew, *)
(* and neither the request nor a verdict, which cross the room of everyone *)
(* who waits, are repeated.  No one tells the clients of a host that is    *)
(* gone.                                                                   *)
Waits(c) == \E h \in Hosts : c \in Queued(h)
NoClientHangs ==
  \A c \in Clients : (clientUp[c] = "up")
    ~> (Waits(c) \/ verdicts[c] = <<TRUE>> \/ clientUp[c] = "exited" \/ HostCutOff)

(* An approved client is negotiated with: the offer never overtakes the    *)
(* approval, before which no one listens for it, so that the host gets the *)
(* answer unless an end fails or the host's connection does.               *)
Negotiated(c) == \E h \in Hosts : hostPc[h][c] = "closed" \/ hostAnswer[h][c] = c
ApprovedClientsAnswer ==
  \A c \in Clients :
    (verdicts[c] = <<TRUE>>) ~> (Negotiated(c) \/ HostCutOff \/ link[c] # "open")

(* "If the Client drops (or gets denied and exits), unlock the room"       *)
(* (index.ts:73) and "Remove the dead client" (ws-host-share.ts:143): a    *)
(* client that is gone does not stay in the queue of a connected host.     *)
DeadRequestsLeaveQueue ==
  \A h \in Hosts, c \in Clients :
    (c \in Queued(h) /\ clientUp[c] = "exited") ~> (c \notin Queued(h) \/ HostCutOff)
===============================================================================
