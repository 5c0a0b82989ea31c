-------------------------------- MODULE Streaming --------------------------------
(***************************************************************************)
(* The sessions of one host over their data channels:                      *)
(* executeActiveStreamingSession of ws-host-share.ts and                   *)
(* startBinarySession of ws-client-connect.ts, between them the two        *)
(* RTCTransports.  Admission, negotiation and the operator's terminal are  *)
(* Matchmaking's; here a host that is not locked admits someone.           *)
(*                                                                         *)
(* A channel keeps messages whole and in order.  An end opens before       *)
(* messages arrive there, and its continuation subscribes before the       *)
(* process handles any other event.  On the host, where no shell runs      *)
(* before, the two are one step.  An end may close at any time, and what   *)
(* it had not read by then is lost.                                        *)
(***************************************************************************)
EXTENDS Pty, ClientConsole

VARIABLES
  hostUp,        \* does the host's process run
  isApproving,   \* its lock
  isReadOnly,    \* --readonly
  hostEnd,       \* hostEnd[c]: the host's end of the channel with c
  clientEnd,     \* clientEnd[c]: the other end
  down,          \* down[c]: packets on their way to c
  up             \* up[c]: packets on their way from c

vars == <<ptyVars, consoleVars, hostUp, isApproving, isReadOnly, hostEnd, clientEnd,
          down, up>>

channel == <<hostEnd, clientEnd, down, up>>
hostVars == <<hostUp, isApproving, isReadOnly>>

Init ==
  /\ PtyInit
  /\ ConsoleInit("up")
  /\ hostUp = TRUE
  /\ isApproving = FALSE
  /\ isReadOnly \in BOOLEAN
  /\ hostEnd = [c \in Clients |-> "none"]
  /\ clientEnd = [c \in Clients |-> "none"]
  /\ down = [c \in Clients |-> <<>>]
  /\ up = [c \in Clients |-> <<>>]

-----------------------------------------------------------------------------
(* RTCTransport.send: dropped once the own end is closed; what is sent to  *)
(* an end that is gone never arrives.                                      *)
SentDown(c, m) ==
  IF hostEnd[c] = "open" /\ clientEnd[c] # "closed"
  THEN [down EXCEPT ![c] = Append(@, m)] ELSE down
SentUp(c, m) ==
  IF clientEnd[c] = "open" /\ hostEnd[c] # "closed"
  THEN [up EXCEPT ![c] = Append(@, m)] ELSE up

ClientGone(c) == clientEnd' = [clientEnd EXCEPT ![c] = "closed"]

(* The host's process ends, from a session or from anywhere else.          *)
HostGone ==
  /\ hostUp' = FALSE
  /\ isApproving' = FALSE
  /\ hostEnd' = [c \in Clients |-> IF hostEnd[c] = "none" THEN "none" ELSE "closed"]
  /\ ShellsEnd
  /\ UNCHANGED <<isReadOnly, clientEnd, up, consoleVars>>

-----------------------------------------------------------------------------
(* The host.                                                               *)

HostAdmits(c) ==
  /\ hostUp /\ ~isApproving
  /\ hostEnd[c] = "none"
  /\ isApproving' = TRUE
  /\ hostEnd' = [hostEnd EXCEPT ![c] = "new"]
  /\ UNCHANGED <<hostUp, isReadOnly, clientEnd, down, up, ptyVars, consoleVars>>

HostOpens(c) ==
  /\ hostUp
  /\ hostEnd[c] = "new"
  /\ hostEnd' = [hostEnd EXCEPT ![c] = "open"]
  /\ Spawns(c)
  /\ UNCHANGED <<hostVars, clientEnd, down, up, consoleVars>>

(* sessionPTY.onData: for the host's screen and for the client.  Of a      *)
(* session that is over, only the former.  (Recipient's first form is a    *)
(* transport kept in a module-level variable, the latest one.)             *)
LatestRecipient(c) ==
  IF \E d \in Clients : hostEnd[d] = "open" THEN CHOOSE d \in Clients : hostEnd[d] = "open"
  ELSE c
Recipient(c) == c

ShellPrints(c) ==
  /\ Emits(c)
  /\ down' = SentDown(Recipient(c), Output(c, emitted[c] + 1))
  /\ UNCHANGED <<hostVars, hostEnd, clientEnd, up, consoleVars>>

(* transport.onData: INPUT goes to the shell unless the session is         *)
(* read-only; CLOSE has no case.  (MayWrite's first form is without either *)
(* test.)                                                                  *)
WritesAnything(m) == TRUE
MayWrite(m) == m.type = "INPUT" /\ ~isReadOnly

HostReceives(c) ==
  /\ hostUp
  /\ hostEnd[c] = "open"
  /\ up[c] # <<>>
  /\ up' = [up EXCEPT ![c] = Tail(@)]
  /\ IF MayWrite(Head(up[c])) THEN Hears(c, Head(up[c])) ELSE UNCHANGED ptyVars
  /\ UNCHANGED <<hostVars, hostEnd, clientEnd, down, consoleVars>>

(* transport.onClose: the host is unlocked, the shell goes on.  (Unlocked's *)
(* first form forgets the lock.)                                           *)
StaysLocked == isApproving
Unlocked == FALSE

HostOnClosed(c) ==
  /\ hostUp
  /\ hostEnd[c] = "open"
  /\ hostEnd' = [hostEnd EXCEPT ![c] = "closed"]
  /\ isApproving' = Unlocked
  /\ UNCHANGED <<hostUp, isReadOnly, clientEnd, down, up, ptyVars, consoleVars>>

(* sessionPTY.onExit, of this session's shell or of an earlier one's: a    *)
(* CLOSE packet for its own client, and the end of the process.            *)
ShellExits(c) ==
  /\ shell[c] = "running"
  /\ down' = SentDown(c, Close)
  /\ HostGone

HostDies ==
  /\ hostUp
  /\ HostGone
  /\ UNCHANGED down

-----------------------------------------------------------------------------
(* The client.                                                             *)

ClientOpens(c) ==
  /\ clientUp[c] = "up"
  /\ clientEnd[c] = "none" /\ hostEnd[c] # "none"
  /\ clientEnd' = [clientEnd EXCEPT ![c] = "open"]
  /\ UNCHANGED <<consoleVars, hostVars, hostEnd, down, up, ptyVars>>

(* What waits for the transport goes on: startBinarySession subscribes.    *)
ClientStarts(c) ==
  /\ clientUp[c] = "up"
  /\ clientEnd[c] = "open"
  /\ StartsApproved(c)
  /\ UNCHANGED <<clientUp, isConsoleRawMode, tty, profile, shown, sent, hostVars,
                 clientEnd, hostEnd, down, up, ptyVars>>

(* Continuations run before the next event.  (Started's first form is a      *)
(* client that waits for something else before it subscribes.)             *)
AnyTime(c) == TRUE
Started(c) == session[c] # "IDLE"

(* A message reaches the data listeners, if there are any.                 *)
ClientReceives(c) ==
  /\ clientUp[c] = "up"
  /\ clientEnd[c] = "open" /\ Started(c)
  /\ down[c] # <<>>
  /\ down' = [down EXCEPT ![c] = Tail(@)]
  /\ LET m == Head(down[c]) IN
       IF ~listening[c] THEN UNCHANGED <<consoleVars, clientEnd>>
       ELSE IF m.type = "OUTPUT" THEN OnOutput(c, m) /\ UNCHANGED clientEnd
       ELSE OnDisconnect(c) /\ ClientGone(c)
  /\ UNCHANGED <<hostVars, hostEnd, up, ptyVars>>

(* onClosed: handleTermination calls the close listeners.                  *)
ClientOnClosed(c) ==
  /\ clientUp[c] = "up"
  /\ clientEnd[c] = "open"
  /\ listening[c]
  /\ OnDisconnect(c)
  /\ ClientGone(c)
  /\ UNCHANGED <<hostVars, hostEnd, down, up, ptyVars>>

ClientTypes(c) ==
  /\ clientUp[c] = "up"
  /\ clientEnd[c] = "open"
  /\ Types(c)
  /\ up' = SentUp(c, Input(c, sent[c] + 1))
  /\ UNCHANGED <<hostVars, hostEnd, clientEnd, down, ptyVars>>

(* Ctrl+]: close() sends CLOSE and terminates the session.                 *)
ClientDetaches(c) ==
  /\ clientUp[c] = "up"
  /\ clientEnd[c] = "open" /\ Started(c)
  /\ MayDetach(c)
  /\ up' = SentUp(c, Close)
  /\ OnDisconnect(c)
  /\ ClientGone(c)
  /\ UNCHANGED <<hostVars, hostEnd, down, ptyVars>>

ClientCrashes(c) ==
  /\ Crashes(c)
  /\ ClientGone(c)
  /\ UNCHANGED <<hostVars, hostEnd, down, up, ptyVars>>

-----------------------------------------------------------------------------
HostNext ==
  \/ \E c \in Clients : \/ HostAdmits(c)
                        \/ HostOpens(c)
                        \/ ShellPrints(c)
                        \/ HostReceives(c)
                        \/ HostOnClosed(c)
                        \/ ShellExits(c)
  \/ HostDies

ClientNext ==
  \E c \in Clients : \/ ClientOpens(c)
                     \/ ClientStarts(c)
                     \/ ClientReceives(c)
                     \/ ClientOnClosed(c)
                     \/ ClientTypes(c)
                     \/ ClientDetaches(c)
                     \/ ClientCrashes(c)

Next == HostNext \/ ClientNext

Spec == Init /\ [][Next]_vars

(* Messages are delivered, and an end learns that the other one is gone:   *)
(* the event loops run, and the channel reports its closing or times out.  *)
(* Nothing is assumed of an end whose peer is there.                       *)
HostLearns(c) == clientEnd[c] = "closed" /\ HostOnClosed(c)
ClientLearns(c) == hostEnd[c] = "closed" /\ ClientOnClosed(c)

Fairness ==
  \A c \in Clients :
    /\ WF_vars(HostLearns(c))
    /\ WF_vars(ClientLearns(c))
    /\ WF_vars(ClientStarts(c))
    /\ WF_vars(ClientReceives(c))

FairSpec == Spec /\ Fairness

-----------------------------------------------------------------------------
(* The sessions implement the shared shell: what a client shows and what a *)
(* shell hears was printed or typed before, it comes next to what came     *)
(* before it, and a client that ended shows nothing more, a shell that     *)
(* ended hears nothing more (onData, send, onOutput, sendInput, write).    *)
Users == [c \in Clients |-> IF clientUp[c] = "up" THEN "here" ELSE "gone"]

Shared == INSTANCE SharedShell WITH user <- Users, Lossless <- TRUE

ImplementsSharedShell == Shared!Spec

-----------------------------------------------------------------------------
BothOpen(c) == hostEnd[c] = "open" /\ clientEnd[c] # "closed"

(* Every variable keeps its type.                                          *)
TypeOK ==
  /\ PtyTypeOK
  /\ ConsoleTypeOK
  /\ hostUp \in BOOLEAN /\ isApproving \in BOOLEAN /\ isReadOnly \in BOOLEAN
  /\ hostEnd \in [Clients -> {"none", "new", "open", "closed"}]
  /\ clientEnd \in [Clients -> {"none", "open", "closed"}]
  /\ down \in [Clients -> Seq(ToClient)]
  /\ up \in [Clients -> Seq(Inputs \cup {Close})]

(* A client at a terminal sees what the shell of its own session printed,  *)
(* from the first output on and in order; while both ends are open, what   *)
(* it has not seen is on the way.  No shell of an earlier session, which   *)
(* may still run, gets on its screen (onData, send, onOutput).             *)
ScreenFollowsShell ==
  \A c \in Terminals :
    /\ \A i \in DOMAIN shown[c] : shown[c][i] = Output(c, i)
    /\ \A i \in DOMAIN down[c] :
         down[c][i] = IF down[c][i] = Close THEN Close ELSE Output(c, Len(shown[c]) + i)
    /\ BothOpen(c) => Len(shown[c]) + Len(down[c]) = emitted[c]

(* A shell hears its own client, from the first input on and in order;     *)
(* while both ends are open and the host is not read-only, what it has not *)
(* heard is on the way.  It hears nothing at all of a read-only host's     *)
(* client (sendInput, send, onData, write).                                *)
ShellFollowsClient ==
  \A c \in Clients :
    /\ \A i \in DOMAIN heard[c] : heard[c][i] = Input(c, i)
    /\ isReadOnly => heard[c] = <<>>
    /\ hostEnd[c] = "open" /\ clientEnd[c] = "open" /\ ~isReadOnly
         => Len(heard[c]) + Len(up[c]) = sent[c]

(* A session ends at both ends: one that is left alone closes, which gives *)
(* the user of the client a prompt and unlocks the host (both onClose).    *)
SessionsEndTogether ==
  \A c \in Clients :
    /\ (hostEnd[c] = "closed" /\ clientEnd[c] = "open") ~> clientEnd[c] = "closed"
    /\ (clientEnd[c] = "closed" /\ hostEnd[c] = "open")
         ~> (hostEnd[c] = "closed" /\ ~isApproving)

(* What a shell prints gets on the screen, unless an end closes.           *)
ScreenCatchesUp ==
  \A c \in Terminals, n \in 1..MaxOutput :
    (emitted[c] >= n /\ hostEnd[c] = "open" /\ clientEnd[c] = "open")
      ~> (Len(shown[c]) >= n \/ hostEnd[c] = "closed" \/ clientEnd[c] = "closed")
===============================================================================
