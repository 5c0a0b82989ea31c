------------------------------- MODULE LocalSharing -------------------------------
(***************************************************************************)
(* Sharing over the loopback: local-tcp-cli-share.ts and                   *)
(* local-tcp-cli-connect.ts, between them the two LocalTransports          *)
(* (packages/transport/src/local-transport.ts).                            *)
(*                                                                         *)
(* TCP keeps bytes in order, and not packets apart: what a 'data' event    *)
(* brings may be several packets, or a part of one.  Both programs take it *)
(* for one packet.  The end of a connection is noticed after what arrived  *)
(* before it, or, when the connection is reset, in place of it.            *)
(***************************************************************************)
EXTENDS Pty, ClientConsole

CONSTANT None

ASSUME NoneAssumption == None \notin Clients

VARIABLES
  hostUp,        \* does the host's process run
  isReadOnly,    \* --readonly
  socket,        \* the host transport's socket: whose connection it is
  terminated,    \* its flag of that name
  questions,     \* once-listeners of stdin that wait for y or N
  hostTty,       \* the mode the host's terminal is in
  hostProfile,   \* the mode saved for it
  conn,          \* conn[c]: the host's end of the connection c opened
  down,          \* down[c]: packets on their way to c
  up             \* up[c]: packets on their way from c

hostVars == <<hostUp, isReadOnly, socket, terminated, questions, hostTty, hostProfile>>
tcpVars == <<conn, down, up>>
vars == <<ptyVars, consoleVars, hostVars, tcpVars>>

Init ==
  /\ PtyInit
  /\ ConsoleInit("off")
  /\ hostUp = TRUE
  /\ isReadOnly \in BOOLEAN
  /\ socket = None
  /\ terminated = FALSE
  /\ questions = 0
  /\ hostTty = "cooked" /\ hostProfile = "none"
  /\ conn = [c \in Clients |-> "none"]
  /\ down = [c \in Clients |-> <<>>]
  /\ up = [c \in Clients |-> <<>>]

-----------------------------------------------------------------------------
(* A 'data' event takes the first n packets of q, or bytes of theirs that  *)
(* do not make up packets; the rest of a packet that is cut is as useless. *)
Chunk(q, n, whole) == Deserialized(SubSeq(q, 1, n), whole)
Unread(q, n) == SubSeq(q, n + 1, Len(q))

(* send: to the only socket the transport knows, if it is writable.        *)
SentDown(m) ==
  IF socket # None /\ conn[socket] = "open" THEN [down EXCEPT ![socket] = Append(@, m)]
  ELSE down
SentUp(c, m) == IF conn[c] # "closed" THEN [up EXCEPT ![c] = Append(@, m)] ELSE up

(* Has the operator approved someone: the handshake listener is then gone, *)
(* and the listeners of the session are there.                             *)
Sharing == \E c \in Clients : shell[c] # "none"

(* restoreTerminalState, after setRawMode(false).                          *)
HostRestores == \E mode \in {hostProfile, "cooked"} \ {"none"} : hostTty' = mode

(* The host's process ends; so do its shells and connections.              *)
HostGone ==
  /\ hostUp' = FALSE
  /\ questions' = 0
  /\ conn' = [c \in Clients |-> IF conn[c] = "none" THEN "none" ELSE "closed"]
  /\ ShellsEnd
  /\ UNCHANGED <<isReadOnly, socket, terminated, hostProfile, up, consoleVars>>

-----------------------------------------------------------------------------
(* The host's transport.                                                   *)

(* createServer: a second connection is destroyed, also when the first one *)
(* is over, since nothing resets socket.  (MayAccept's first form is       *)
(* without that test.)                                                     *)
AlwaysAccepts == TRUE
MayAccept == socket = None

HostAccepts(c) ==
  /\ hostUp
  /\ conn[c] = "dialled"
  /\ IF MayAccept
     THEN socket' = c /\ conn' = [conn EXCEPT ![c] = "open"]
     ELSE conn' = [conn EXCEPT ![c] = "closed"] /\ UNCHANGED socket
  /\ UNCHANGED <<hostUp, isReadOnly, terminated, questions, hostTty, hostProfile, down,
                 up, ptyVars, consoleVars>>

(* The handshake listener: a knock puts the question.                      *)
Asks(m) ==
  /\ IF m.type = "KNOCK"
     THEN questions' = questions + 1 /\ hostTty' = "raw"
     ELSE UNCHANGED <<questions, hostTty>>
  /\ UNCHANGED ptyVars

(* The listener of the session.  (MayWrite's first forms are without its   *)
(* tests, and without --readonly.)                                         *)
WritesAnything(m) == TRUE
WritesInput(m) == m.type = "INPUT"
MayWrite(m) == m.type = "INPUT" /\ ~isReadOnly
Executes(m) ==
  /\ IF MayWrite(m) THEN Hears(socket, m) ELSE UNCHANGED ptyVars
  /\ UNCHANGED <<questions, hostTty>>

HostReads(c) ==
  /\ hostUp
  /\ conn[c] = "open"
  /\ \E n \in 1..Len(up[c]), whole \in BOOLEAN :
       /\ up' = [up EXCEPT ![c] = Unread(@, n)]
       /\ LET m == Chunk(up[c], n, whole) IN
            IF Sharing THEN Executes(m) ELSE Asks(m)
  /\ UNCHANGED <<hostUp, isReadOnly, socket, terminated, hostProfile, conn, down,
                 consoleVars>>

(* 'end' or 'close': the close listeners are called, once.  Those of a     *)
(* session that starts later are not, and the question stays.              *)
(* (HandsBack's first form forgets the terminal.)                          *)
KeepsTerminal == UNCHANGED hostTty
HandsBack == HostRestores

HostNotices(c) ==
  /\ hostUp
  /\ conn[c] = "open"
  /\ clientUp[c] # "up"
  /\ conn' = [conn EXCEPT ![c] = "closed"]
  /\ terminated' = TRUE
  /\ IF ~terminated /\ Sharing THEN HandsBack ELSE UNCHANGED hostTty
  /\ UNCHANGED <<hostUp, isReadOnly, socket, questions, hostProfile, down, up, ptyVars,
                 consoleVars>>

-----------------------------------------------------------------------------
(* The operator and the shell.                                             *)

(* y: raw mode ends with the question; the profile is saved, the shell     *)
(* spawned, and the terminal made raw for the session.                     *)
HostApproves ==
  /\ hostUp /\ questions > 0
  /\ questions' = 0
  /\ hostProfile' \in {"cooked", "none"}
  /\ Spawns(socket)
  /\ hostTty' = "raw"
  /\ UNCHANGED <<hostUp, isReadOnly, socket, terminated, tcpVars, consoleVars>>

(* Any other key: CLOSE, and process.exit.                                 *)
HostRefuses ==
  /\ hostUp /\ questions > 0
  /\ hostTty' = "cooked"
  /\ down' = SentDown(Close)
  /\ HostGone

ShellPrints(c) ==
  /\ Emits(c)
  /\ down' = SentDown(Output(c, emitted[c] + 1))
  /\ UNCHANGED <<hostVars, conn, up, consoleVars>>

ShellExits(c) ==
  /\ shell[c] = "running"
  /\ down' = SentDown(Close)
  /\ HostRestores
  /\ HostGone

HostDies ==
  /\ hostUp
  /\ HostGone
  /\ UNCHANGED <<down, hostTty>>

-----------------------------------------------------------------------------
(* The client.                                                             *)

(* Connected: the socket's listeners are installed, then session.start     *)
(* subscribes and knocks.                                                  *)
ClientConnects(c) ==
  /\ clientUp[c] = "off"
  /\ hostUp
  /\ clientUp' = [clientUp EXCEPT ![c] = "up"]
  /\ conn' = [conn EXCEPT ![c] = "dialled"]
  /\ Starts(c)
  /\ up' = SentUp(c, Knock(c))
  /\ UNCHANGED <<isConsoleRawMode, tty, profile, shown, sent, hostVars, down, ptyVars>>

(* "Connection Failed": no host listens.                                   *)
ClientFails(c) ==
  /\ clientUp[c] = "off"
  /\ ~hostUp
  /\ clientUp' = [clientUp EXCEPT ![c] = "exited"]
  /\ UNCHANGED <<sessionVars, isConsoleRawMode, tty, profile, shown, sent, hostVars,
                 tcpVars, ptyVars>>

ClientReads(c) ==
  /\ clientUp[c] = "up"
  /\ listening[c]
  /\ \E n \in 1..Len(down[c]), whole \in BOOLEAN :
       /\ down' = [down EXCEPT ![c] = Unread(@, n)]
       /\ LET m == Chunk(down[c], n, whole) IN
            \/ m.type = "OUTPUT" /\ OnOutput(c, m)
            \/ m.type = "CLOSE" /\ OnDisconnect(c)
            \/ m = Malformed /\ UNCHANGED consoleVars
  /\ UNCHANGED <<hostVars, conn, up, ptyVars>>

ClientNotices(c) ==
  /\ clientUp[c] = "up"
  /\ conn[c] = "closed"
  /\ listening[c]
  /\ OnDisconnect(c)
  /\ UNCHANGED <<hostVars, tcpVars, ptyVars>>

ClientTypes(c) ==
  /\ clientUp[c] = "up"
  /\ Types(c)
  /\ up' = SentUp(c, Input(c, sent[c] + 1))
  /\ UNCHANGED <<hostVars, conn, down, ptyVars>>

(* Ctrl+]; before the first output, a client at a terminal has only Ctrl+C. *)
ClientDetaches(c) ==
  /\ clientUp[c] = "up"
  /\ MayDetach(c)
  /\ up' = SentUp(c, Close)
  /\ OnDisconnect(c)
  /\ UNCHANGED <<hostVars, conn, down, ptyVars>>

ClientCrashes(c) ==
  /\ Crashes(c)
  /\ UNCHANGED <<hostVars, tcpVars, ptyVars>>

-----------------------------------------------------------------------------
HostNext ==
  \/ \E c \in Clients : \/ HostAccepts(c)
                        \/ HostReads(c)
                        \/ HostNotices(c)
                        \/ ShellPrints(c)
                        \/ ShellExits(c)
  \/ HostApproves
  \/ HostRefuses
  \/ HostDies

ClientNext ==
  \E c \in Clients : \/ ClientConnects(c)
                     \/ ClientFails(c)
                     \/ ClientReads(c)
                     \/ ClientNotices(c)
                     \/ ClientTypes(c)
                     \/ ClientDetaches(c)
                     \/ ClientCrashes(c)

Next == HostNext \/ ClientNext

Spec == Init /\ [][Next]_vars

(* The kernels report a connection that was dialled and one that ended,    *)
(* and the event loops run; nothing is assumed of users and shells.        *)
Fairness ==
  \A c \in Clients :
    /\ WF_vars(HostAccepts(c))
    /\ WF_vars(HostNotices(c))
    /\ WF_vars(ClientNotices(c))

FairSpec == Spec /\ Fairness

-----------------------------------------------------------------------------
(* Every variable keeps its type.                                          *)
TypeOK ==
  /\ PtyTypeOK
  /\ ConsoleTypeOK
  /\ hostUp \in BOOLEAN /\ isReadOnly \in BOOLEAN /\ terminated \in BOOLEAN
  /\ socket \in Clients \cup {None}
  /\ questions \in Nat
  /\ hostTty \in Modes /\ hostProfile \in Modes \cup {"none"}
  /\ conn \in [Clients -> {"none", "dialled", "open", "closed"}]
  /\ down \in [Clients -> Seq(ToClient)]
  /\ up \in [Clients -> Seq(ToHost)]

(* The operator is asked once: one answer never decides on two clients,    *)
(* and no question is put over a session (requestHostPermission's listener *)
(* is a once-listener per knock; the transport takes one connection ever). *)
AskedOnce ==
  /\ questions <= 1
  /\ questions > 0 => ~Sharing /\ session[socket] # "IDLE"
  /\ \A c, d \in Clients : shell[c] # "none" /\ shell[d] # "none" => c = d

(* A client that takes itself for approved was approved: output is the     *)
(* only sign of it (session.ts:164), and none comes before the answer.     *)
ApprovedByOperator ==
  \A c \in Clients :
    approval[c] = "APPROVED" => c = socket /\ shell[c] # "none"

(* Packets that a chunk joins or cuts are lost, but what gets through is   *)
(* in order and nobody else's, at both ends; a read-only host's shell      *)
(* hears nothing.                                                          *)
InOrder(q) == \A i, j \in DOMAIN q : i < j => q[i].n < q[j].n
StreamsInOrder ==
  \A c \in Clients :
    /\ InOrder(shown[c]) /\ InOrder(heard[c])
    /\ \A i \in DOMAIN shown[c] : shown[c][i].of = c
    /\ \A i \in DOMAIN heard[c] : heard[c][i].of = c
    /\ isReadOnly => heard[c] = <<>>

(* The local path implements the shared shell, with gaps: a chunk that is  *)
(* not one packet is lost, but nothing is shown that was not printed       *)
(* before, nothing heard that was not typed, nothing twice, and nothing    *)
(* after the client or the shell ended (HostReads, ClientReads, send).     *)
Users == [c \in Clients |-> CASE clientUp[c] = "off" -> "away"
                             [] clientUp[c] = "up" -> "here"
                             [] OTHER -> "gone"]

Shared == INSTANCE SharedShell WITH user <- Users, Lossless <- FALSE

ImplementsSharedShell == Shared!Spec

(* "Local control restored": a client that goes during its session, or its *)
(* crash, gives the operator the terminal back.  One that goes before the  *)
(* answer has been noticed by then, and no one calls the listener.         *)
DepartureHandsBack ==
  \A c \in Clients :
    (shell[c] = "running" /\ conn[c] = "open" /\ clientUp[c] # "up")
      ~> (hostTty = "cooked" \/ ~hostUp)

(* A client that is refused, denied or left by its host ends, also when it *)
(* never reads the CLOSE packet (terminateSession on the transport's end). *)
ClientsEnd ==
  \A c \in Clients :
    (conn[c] = "closed" \/ (conn[c] = "dialled" /\ socket # None)) ~> clientUp[c] # "up"
===============================================================================
