------------------------------- MODULE Channels -------------------------------
(***************************************************************************)
(* The WebSocket connections between the matchmaker and its peers, as      *)
(* apps/signaling-server, apps/host-agent and apps/cli-client use them     *)
(* through the "ws" library.                                               *)
(*                                                                         *)
(* A process opens one socket, never reconnects, and is identified with    *)
(* that socket.  Each direction is a FIFO queue.  A frame written to a     *)
(* socket that is not open disappears.  When a peer ends, what it had      *)
(* written may reach the server only up to some prefix, and the server's   *)
(* 'close' event comes after the frames that did arrive.                   *)
(***************************************************************************)
EXTENDS Naturals, Sequences, FiniteSets

CONSTANTS
  Hosts,     \* "syncpty share" processes
  Clients,   \* "syncpty connect" processes; a client is also its random clientId
  Codes,     \* the 6-digit session codes
  None       \* null / undefined

ASSUME PeersAssumption ==
  /\ Hosts \cap Clients = {}
  /\ None \notin Hosts \cup Clients \cup Codes

Peers == Hosts \cup Clients

VARIABLES
  link,      \* link[p]: state of p's socket
  toServer,  \* toServer[p]: frames p wrote that the server has not read
  toPeer     \* toPeer[p]: frames the server wrote that p has not read

channelVars == <<link, toServer, toPeer>>

-----------------------------------------------------------------------------
(* The signalling frames (enum SignalType and the payloads it goes with).  *)

HostRegister           == [type |-> "HOST_REGISTER"]
HostRegistered(code)   == [type |-> "HOST_REGISTERED", code |-> code]
ClientLookup(code)     == [type |-> "CLIENT_LOOKUP", code |-> code]
MatchSuccess           == [type |-> "MATCH_SUCCESS"]
MatchFailed            == [type |-> "MATCH_FAILED"]
ApprovalRequest(c)     == [type |-> "APPROVAL_REQUEST", clientId |-> c]
ApprovalResponse(c, b) == [type |-> "APPROVAL_RESPONSE", clientId |-> c, approved |-> b]
ClientDisconnect(c)    == [type |-> "CLIENT_DISCONNECT", clientId |-> c]

(* The SDP of an offer names the connection that made it (the one host h   *)
(* created for client c); the SDP of an answer names its author and the    *)
(* offer it answers.  The frame itself says neither who sent it nor whom   *)
(* it is for.                                                              *)
Offer(h, c)     == [type |-> "SIGNAL_FORWARD", sdp |-> "offer", for |-> <<h, c>>]
Answer(d, h, c) == [type |-> "SIGNAL_FORWARD", sdp |-> "answer", for |-> <<h, c>>,
                    from |-> d]

Requests  == {ApprovalRequest(c) : c \in Clients}
Responses == {ApprovalResponse(c, b) : c \in Clients, b \in BOOLEAN}
Offers    == {Offer(h, c) : h \in Hosts, c \in Clients}
Answers   == {Answer(d, h, c) : d \in Clients, h \in Hosts, c \in Clients}
Forwarded == Requests \cup Responses \cup Offers \cup Answers

FramesToServer ==
  {HostRegister} \cup {ClientLookup(k) : k \in Codes} \cup Forwarded

FramesToPeer ==
  {HostRegistered(k) : k \in Codes} \cup {MatchSuccess, MatchFailed}
    \cup {ClientDisconnect(c) : c \in Clients} \cup Forwarded

LinkStates == {"new", "open", "closing", "closed"}

ChannelTypeOK ==
  /\ link \in [Peers -> LinkStates]
  /\ toServer \in [Peers -> Seq(FramesToServer)]
  /\ toPeer \in [Peers -> Seq(FramesToPeer)]

ChannelInit ==
  /\ link = [p \in Peers |-> "new"]
  /\ toServer = [p \in Peers |-> <<>>]
  /\ toPeer = [p \in Peers |-> <<>>]

-----------------------------------------------------------------------------
(* The socket is established and the peer's "open" callback writes frame.  *)
Connect(p, frame) ==
  /\ link[p] = "new"
  /\ link' = [link EXCEPT ![p] = "open"]
  /\ toServer' = [toServer EXCEPT ![p] = Append(@, frame)]
  /\ UNCHANGED toPeer

(* toServer after peer p calls ws.send for each frame of fs in turn.       *)
Written(p, fs) ==
  IF link[p] = "open" THEN [toServer EXCEPT ![p] = @ \o fs] ELSE toServer

(* Peer p reads the next frame written to it, which satisfies the test.    *)
Reads(p, type) ==
  /\ toPeer[p] # <<>>
  /\ Head(toPeer[p]).type = type
  /\ toPeer' = [toPeer EXCEPT ![p] = Tail(@)]

(* ws.close(): what was written still arrives.                             *)
Hangup(p) ==
  /\ link' = [link EXCEPT ![p] = IF @ = "open" THEN "closing" ELSE @]
  /\ toPeer' = [toPeer EXCEPT ![p] = <<>>]
  /\ UNCHANGED toServer

(* The process of peer p ends, or its network does.                        *)
Cut(p) ==
  /\ link' = [link EXCEPT ![p] = IF @ = "open" THEN "closing" ELSE @]
  /\ toPeer' = [toPeer EXCEPT ![p] = <<>>]
  /\ \E n \in 0..Len(toServer[p]) :
       toServer' = [toServer EXCEPT ![p] = SubSeq(@, 1, n)]
===============================================================================
