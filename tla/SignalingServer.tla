---------------------------- MODULE SignalingServer ----------------------------
(***************************************************************************)
(* The matchmaker, apps/signaling-server/src/index.ts: three maps and the  *)
(* handlers of its sockets' "message" and "close" events.  The process is  *)
(* single-threaded, so a handler is one step.                              *)
(***************************************************************************)
EXTENDS Channels

CONSTANT
  ReissueCodes  \* may a code be drawn again once its session is destroyed?

ASSUME ReissueAssumption == ReissueCodes \in BOOLEAN

VARIABLES
  activeSessions,   \* Map code -> session
  socketToSession,  \* Map socket -> code
  socketToClient,   \* Map socket -> clientId
  issued,           \* history: the codes drawn so far
  matchedHost       \* history: the host whose code a connected client looked up

serverVars ==
  <<activeSessions, socketToSession, socketToClient, issued, matchedHost>>

Sessions == [hostSocket : Peers, clientSocket : Peers \cup {None}]

ASSUME SessionsAssumption == None \notin Sessions

ServerTypeOK ==
  /\ activeSessions \in [Codes -> Sessions \cup {None}]
  /\ socketToSession \in [Peers -> Codes \cup {None}]
  /\ socketToClient \in [Peers -> Clients \cup {None}]
  /\ issued \subseteq Codes
  /\ matchedHost \in [Clients -> Peers \cup {None}]

ServerInit ==
  /\ activeSessions = [k \in Codes |-> None]
  /\ socketToSession = [p \in Peers |-> None]
  /\ socketToClient = [p \in Peers |-> None]
  /\ issued = {}
  /\ matchedHost = [c \in Clients |-> None]

-----------------------------------------------------------------------------
(* The server's side of a socket.                                          *)

(* The server's next event on socket s is the frame m.                     *)
Receives(s, m) ==
  /\ link[s] \in {"open", "closing"}
  /\ toServer[s] # <<>>
  /\ m = Head(toServer[s])
  /\ toServer' = [toServer EXCEPT ![s] = Tail(@)]
  /\ UNCHANGED link

(* toPeer after the server writes m to every socket of S.  A peer that is  *)
(* gone, though its 'close' event is yet to come, reads nothing any more.  *)
Sent(S, m) ==
  [p \in Peers |-> IF p \in S /\ link[p] = "open" THEN Append(toPeer[p], m)
                   ELSE toPeer[p]]

-----------------------------------------------------------------------------
(* A code no session has; a code drawn twice in the life of the server     *)
(* needs ReissueCodes.  (The first form draws without looking.)            *)
AnyCode(k) == TRUE
FreeCode(k) == activeSessions[k] = None /\ (ReissueCodes \/ k \notin issued)

(* HOST_REGISTER: draw a code no session has.  With every code taken the   *)
(* loop of the handler does not end; no run is that short of codes.        *)
HandleHostRegister(s) ==
  /\ Receives(s, HostRegister)
  /\ \E k \in Codes :
       /\ FreeCode(k)
       /\ activeSessions' =
            [activeSessions EXCEPT ![k] = [hostSocket |-> s, clientSocket |-> None]]
       /\ socketToSession' = [socketToSession EXCEPT ![s] = k]
       /\ toPeer' = Sent({s}, HostRegistered(k))
       /\ issued' = issued \cup {k}
  /\ UNCHANGED <<socketToClient, matchedHost>>

(* CLIENT_LOOKUP: enter the room of the code, if there is one.             *)
HandleClientLookup(s) ==
  /\ \E k \in Codes :
       /\ Receives(s, ClientLookup(k))
       /\ IF activeSessions[k] = None
          THEN /\ toPeer' = Sent({s}, MatchFailed)
               /\ UNCHANGED <<socketToSession, matchedHost>>
          ELSE /\ toPeer' = Sent({s}, MatchSuccess)
               /\ socketToSession' = [socketToSession EXCEPT ![s] = k]
               /\ matchedHost' =
                    [matchedHost EXCEPT ![s] = activeSessions[k].hostSocket]
  /\ UNCHANGED <<activeSessions, socketToClient, issued>>

(* Every other socket in the room of s, or no one if s has no live room.   *)
(* (Three other readings of a broadcast: to every socket of the server, to *)
(* the host of the room only, and, of lines 207-211, to the paired client  *)
(* or from it.)                                                            *)
Everyone(s) == Peers \ {s}
RoomHostOf(s) ==
  IF socketToSession[s] = None \/ activeSessions[socketToSession[s]] = None THEN {}
  ELSE {activeSessions[socketToSession[s]].hostSocket} \ {s}
Paired(s) ==
  LET k == socketToSession[s] IN
  IF k = None \/ activeSessions[k] = None THEN {}
  ELSE IF activeSessions[k].hostSocket = s THEN {activeSessions[k].clientSocket} \ {None}
  ELSE IF activeSessions[k].clientSocket = s THEN {activeSessions[k].hostSocket}
  ELSE {}
RoomMates(s) ==
  IF socketToSession[s] = None \/ activeSessions[socketToSession[s]] = None THEN {}
  ELSE {t \in Peers \ {s} : socketToSession[t] = socketToSession[s]}

(* SIGNAL_FORWARD, APPROVAL_REQUEST and APPROVAL_RESPONSE are broadcast to *)
(* the room; a request first ties the client id to its socket.             *)
HandleForward(s) ==
  /\ \E m \in Forwarded :
       /\ Receives(s, m)
       /\ socketToClient' = IF m.type = "APPROVAL_REQUEST"
                            THEN [socketToClient EXCEPT ![s] = m.clientId]
                            ELSE socketToClient
       /\ toPeer' = Sent(RoomMates(s), m)
  /\ UNCHANGED <<activeSessions, socketToSession, issued, matchedHost>>

(* The 'close' event.  A host takes its session with it; a client frees    *)
(* the session it sits in and the host is told, but a client sits in a     *)
(* session only if its clientSocket is set, which no handler does.         *)
Owns(s, k) == activeSessions[k] # None /\ activeSessions[k].hostSocket = s
SitsIn(s, k) ==
  /\ activeSessions[k] # None
  /\ activeSessions[k].hostSocket # s
  /\ activeSessions[k].clientSocket = s

HandleClose(s) ==
  LET k == socketToSession[s] IN
  /\ link[s] = "closing"
  /\ toServer[s] = <<>>
  /\ link' = [link EXCEPT ![s] = "closed"]
  /\ activeSessions' =
       IF k = None THEN activeSessions
       ELSE IF Owns(s, k) THEN [activeSessions EXCEPT ![k] = None]
       ELSE IF SitsIn(s, k) THEN [activeSessions EXCEPT ![k].clientSocket = None]
       ELSE activeSessions
  /\ toPeer' = IF k # None /\ SitsIn(s, k) /\ socketToClient[s] # None
               THEN Sent({activeSessions[k].hostSocket},
                         ClientDisconnect(socketToClient[s]))
               ELSE toPeer
  /\ socketToSession' = [socketToSession EXCEPT ![s] = None]
  /\ socketToClient' = IF k = None THEN socketToClient
                       ELSE [socketToClient EXCEPT ![s] = None]
  /\ matchedHost' = [c \in Clients |-> IF c = s THEN None ELSE matchedHost[c]]
  /\ UNCHANGED <<toServer, issued>>

(* The matchmaker's process is restarted: its maps live in memory only,    *)
(* every socket drops, and no peer opens another.                          *)
ServerRestart ==
  /\ \E p \in Peers : link[p] \in {"open", "closing"}
  /\ link' = [p \in Peers |-> IF link[p] = "new" THEN "new" ELSE "closed"]
  /\ toServer' = [p \in Peers |-> <<>>]
  /\ activeSessions' = [k \in Codes |-> None]
  /\ socketToSession' = [p \in Peers |-> None]
  /\ socketToClient' = [p \in Peers |-> None]
  /\ matchedHost' = [c \in Clients |-> None]
  /\ UNCHANGED <<toPeer, issued>>

ServerHandles(s) ==
  \/ HandleHostRegister(s)
  \/ HandleClientLookup(s)
  \/ HandleForward(s)
  \/ HandleClose(s)

ServerNext ==
  \/ \E s \in Peers : ServerHandles(s)
  \/ ServerRestart

-----------------------------------------------------------------------------
(* Rooms are distinct.  The session of a code belongs to a host whose      *)
(* socket the server still has, and a host's code leads to that host: no   *)
(* host has two sessions, and no two hosts share a code or take it from    *)
(* each other (the collision-free code of HOST_REGISTER, and the teardown  *)
(* of 'close').                                                            *)
RoomsDistinct ==
  /\ \A k \in Codes : activeSessions[k] # None =>
       /\ socketToSession[activeSessions[k].hostSocket] = k
       /\ activeSessions[k].hostSocket \in Hosts
       /\ link[activeSessions[k].hostSocket] \in {"open", "closing"}
  /\ \A h \in Hosts : socketToSession[h] # None =>
       /\ activeSessions[socketToSession[h]] # None
       /\ activeSessions[socketToSession[h]].hostSocket = h

(* As long as the server has the socket of the host whose code a client    *)
(* looked up, that client is in this host's room and in no other's, even   *)
(* if codes come back: a code is free only once its session is gone.       *)
HostKeepsItsClients ==
  \A c \in Clients :
    (matchedHost[c] # None /\ link[matchedHost[c]] \in {"open", "closing"}) =>
      LET k == socketToSession[c] IN
      /\ k # None /\ activeSessions[k] # None
      /\ activeSessions[k].hostSocket = matchedHost[c]

(* "If the Host drops, the entire room is destroyed" (index.ts:69): the    *)
(* room a client is in is the room of the host whose code it looked up.    *)
RoomDiesWithHost ==
  \A c \in Clients :
    LET k == socketToSession[c] IN
    (k # None /\ activeSessions[k] # None)
       => activeSessions[k].hostSocket = matchedHost[c]
===============================================================================
