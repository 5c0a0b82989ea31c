------------------------------ MODULE ClientAgent ------------------------------
(***************************************************************************)
(* "syncpty connect <code>", apps/cli-client/src/ws-client-connect.ts.     *)
(* The callback of the socket keeps no state of its own: what a frame does *)
(* depends only on the frame and on whether a transport exists.            *)
(***************************************************************************)
EXTENDS RtcTransport

VARIABLE clientUp   \* clientUp[c]: is the process of c not started, up, or exited

clientVars == clientUp

ClientTypeOK == clientUp \in [Clients -> {"off", "up", "exited"}]

ClientInit == clientUp = [c \in Clients |-> "off"]

-----------------------------------------------------------------------------
(* The process ends: process.exit, a signal, or an empty event loop.       *)
ClientExits(c) ==
  /\ clientUp' = [clientUp EXCEPT ![c] = "exited"]
  /\ clientPc' = [clientPc EXCEPT ![c] = IF @ = "none" THEN @ ELSE "closed"]
  /\ clientOffer' = [clientOffer EXCEPT ![c] = None]
  /\ Cut(c)
  /\ UNCHANGED <<hostPc, hostAnswer>>

(* The socket opens: look up the code the user typed.                      *)
ClientStart(c) ==
  /\ clientUp[c] = "off"
  /\ clientUp' = [clientUp EXCEPT ![c] = "up"]
  /\ \E k \in Codes : Connect(c, ClientLookup(k))
  /\ UNCHANGED rtcVars

ClientOnMatchFailed(c) ==
  /\ clientUp[c] = "up"
  /\ toPeer[c] # <<>> /\ Head(toPeer[c]) = MatchFailed
  /\ ClientExits(c)

ClientOnMatchSuccess(c) ==
  /\ clientUp[c] = "up"
  /\ Reads(c, "MATCH_SUCCESS")
  /\ toServer' = Written(c, <<ApprovalRequest(c)>>)
  /\ UNCHANGED <<link, clientUp, rtcVars>>

(* APPROVAL_RESPONSE: every client in the room reads it, the one it is     *)
(* addressed to acts on it.  (The first form leaves the address out.)      *)
Anyones(m, c) == TRUE
Addressed(m, c) == m.clientId = c

ClientOnDenied(c) ==
  /\ clientUp[c] = "up"
  /\ toPeer[c] # <<>> /\ Head(toPeer[c]).type = "APPROVAL_RESPONSE"
  /\ Addressed(Head(toPeer[c]), c) /\ ~Head(toPeer[c]).approved
  /\ ClientExits(c)

(* startBinarySession up to its await: the transport listens from now on.  *)
ClientOnApproved(c) ==
  /\ clientUp[c] = "up"
  /\ Reads(c, "APPROVAL_RESPONSE")
  /\ Addressed(Head(toPeer[c]), c) /\ Head(toPeer[c]).approved
  /\ clientPc' = [clientPc EXCEPT ![c] = "new"]
  /\ UNCHANGED <<link, toServer, clientUp, hostPc, hostAnswer, clientOffer>>

(* Frames the callback does nothing with: a response or a request that is  *)
(* someone else's.                                                         *)
ClientIgnores(c) ==
  /\ clientUp[c] = "up"
  /\ \/ Reads(c, "APPROVAL_REQUEST")
     \/ Reads(c, "APPROVAL_RESPONSE") /\ ~Addressed(Head(toPeer[c]), c)
  /\ UNCHANGED <<link, toServer, clientUp, rtcVars>>

ClientOnSignal(c) ==
  /\ clientUp[c] = "up"
  /\ Reads(c, "SIGNAL_FORWARD")
  /\ ClientAppliesSignal(c, Head(toPeer[c]))
  /\ UNCHANGED <<link, toServer, clientUp>>

ClientAnswers(c) ==
  /\ clientUp[c] = "up"
  /\ ClientSignalsAnswer(c)
  /\ UNCHANGED clientUp

(* The data channel opens: connect() resolves, the socket is closed, and   *)
(* ClientSession.startApproved takes over.                                 *)
ClientSessionStarts(c) ==
  /\ clientUp[c] = "up"
  /\ ClientMayOpen(c)
  /\ clientPc' = [clientPc EXCEPT ![c] = "open"]
  /\ Hangup(c)
  /\ UNCHANGED <<clientUp, hostPc, hostAnswer, clientOffer>>

(* Ctrl+] in the session.                                                  *)
ClientDetaches(c) ==
  /\ clientUp[c] = "up"
  /\ clientPc[c] = "open"
  /\ ClientExits(c)

(* The host's end is closed: onDisconnect ends the process.                *)
ClientSessionEnds(c) ==
  /\ clientUp[c] = "up"
  /\ HostEndClosed(c)
  /\ ClientExits(c)

(* Without a socket or a transport nothing keeps the event loop alive.     *)
ClientDrains(c) ==
  /\ clientUp[c] = "up"
  /\ link[c] \in {"closing", "closed"} /\ toPeer[c] = <<>>
  /\ clientPc[c] = "none"
  /\ ClientExits(c)

(* The socket drops while the process lives on.                            *)
ClientLosesSocket(c) ==
  /\ clientUp[c] = "up"
  /\ link[c] = "open"
  /\ Cut(c)
  /\ UNCHANGED <<clientUp, rtcVars>>

ClientCrashes(c) ==
  /\ clientUp[c] = "up"
  /\ ClientExits(c)

(* What the client's process does by itself: user, network and crash aside. *)
ClientReacts(c) ==
  \/ ClientOnMatchFailed(c)
  \/ ClientOnMatchSuccess(c)
  \/ ClientOnDenied(c)
  \/ ClientOnApproved(c)
  \/ ClientIgnores(c)
  \/ ClientOnSignal(c)
  \/ ClientAnswers(c)
  \/ ClientSessionEnds(c)
  \/ ClientDrains(c)

ClientNext ==
  \E c \in Clients : \/ ClientStart(c)
                     \/ ClientReacts(c)
                     \/ ClientSessionStarts(c)
                     \/ ClientDetaches(c)
                     \/ ClientLosesSocket(c)
                     \/ ClientCrashes(c)
===============================================================================
