------------------------------- MODULE HostAgent -------------------------------
(***************************************************************************)
(* "syncpty share", apps/host-agent/src/ws-host-share.ts: the approval     *)
(* queue, the lobby in which the operator picks a client, the decision,    *)
(* the peer-to-peer session with its shell, and the host's terminal.       *)
(*                                                                         *)
(* Every callback is one step.  processQueue awaits the lobby; its         *)
(* continuation is a microtask, so that once the lobby has settled nothing *)
(* else happens in the process before the continuation has run (HostIdle). *)
(***************************************************************************)
EXTENDS RtcTransport

VARIABLES
  hostUp,         \* is the process of h not started, up, exited, or killed
  approvalQueue,  \* clients whose request has not been decided, in order
  isApproving,    \* the module-level lock
  lobby,          \* currentLobby: its cursor and what it last rendered
  settled,        \* the value the lobby's promise was resolved with, if any
  shell,          \* shell[h][c]: the PTY spawned for the session with c
  stdin,          \* raw mode, data listeners, and the saved stty profile
  verdicts        \* history: the responses written for each client, in order

hostVars == <<hostUp, approvalQueue, isApproving, lobby, settled, shell, stdin,
              verdicts>>

Lobby == "lobby"   \* the lobby's listener on stdin; a session's is its client
Choices == Clients \cup {"REJECT_ALL", "EXIT", None}

(* A lobby holds selectedIndex and the last screen: the queue as it was    *)
(* painted and where the cursor was painted.                               *)
Lobbies == [selectedIndex : Nat, entries : Seq(Clients), cursor : Nat]
Settlements == [result : Choices, seen : Choices]
Stdins == [raw : BOOLEAN, readers : SUBSET (Clients \cup {Lobby}), saved : BOOLEAN]

ASSUME ChoicesAssumption ==
  /\ Clients \cap {"REJECT_ALL", "EXIT", Lobby} = {}
  /\ None \notin {"REJECT_ALL", "EXIT", Lobby}
  /\ None \notin Lobbies \cup Settlements

HostTypeOK ==
  /\ hostUp \in [Hosts -> {"off", "up", "exited", "crashed"}]
  /\ approvalQueue \in [Hosts -> Seq(Clients)]
  /\ isApproving \in [Hosts -> BOOLEAN]
  /\ lobby \in [Hosts -> Lobbies \cup {None}]
  /\ settled \in [Hosts -> Settlements \cup {None}]
  /\ shell \in [Hosts -> [Clients -> {"none", "running", "ended"}]]
  /\ stdin \in [Hosts -> Stdins]
  /\ verdicts \in [Clients -> Seq(BOOLEAN)]

CookedStdin == [raw |-> FALSE, readers |-> {}, saved |-> FALSE]

HostInit ==
  /\ hostUp = [h \in Hosts |-> "off"]
  /\ approvalQueue = [h \in Hosts |-> <<>>]
  /\ isApproving = [h \in Hosts |-> FALSE]
  /\ lobby = [h \in Hosts |-> None]
  /\ settled = [h \in Hosts |-> None]
  /\ shell = [h \in Hosts |-> [c \in Clients |-> "none"]]
  /\ stdin = [h \in Hosts |-> CookedStdin]
  /\ verdicts = [c \in Clients |-> <<>>]

-----------------------------------------------------------------------------
(* Helpers.                                                                *)

HostIdle(h) == hostUp[h] = "up" /\ settled[h] = None
Queued(h) == {approvalQueue[h][i] : i \in DOMAIN approvalQueue[h]}

(* The callback of "share" declares an isApproving of its own (line 45),   *)
(* which its message handler reads and no one ever sets.                   *)
CallbackIsApproving == FALSE

(* The lobby shows: render() with the queue q and the cursor at i.         *)
Rendered(q, i) == [selectedIndex |-> i, entries |-> q, cursor |-> i]

(* What the screen of lobby l highlights.                                  *)
Highlighted(l) ==
  IF l.cursor < Len(l.entries) THEN l.entries[l.cursor + 1]
  ELSE IF l.cursor = Len(l.entries) THEN "REJECT_ALL" ELSE None

(* prompt(): every other listener goes, the terminal turns raw.            *)
LobbyReads(h) ==
  stdin' = [stdin EXCEPT ![h].raw = TRUE, ![h].readers = {Lobby}]

(* finish(): the lobby lets go of stdin and its promise is resolved.       *)
Finish(h, result) ==
  /\ settled' = [settled EXCEPT ![h] = [result |-> result, seen |-> Highlighted(lobby[h])]]
  /\ stdin' = [stdin EXCEPT ![h].raw = FALSE, ![h].readers = @ \ {Lobby}]

(* processQueue up to its await, with q as the queue.  (The first form of  *)
(* its guard is without the lock.)                                         *)
PromptAlways(h, q) == q # <<>>
MayPrompt(h, q) == ~isApproving[h] /\ q # <<>>
ProcessQueue(h, q) ==
  IF MayPrompt(h, q)
  THEN /\ isApproving' = [isApproving EXCEPT ![h] = TRUE]
       /\ lobby' = [lobby EXCEPT ![h] = Rendered(q, 0)]
       /\ LobbyReads(h)
  ELSE UNCHANGED <<isApproving, lobby, stdin>>

(* redraw(): the cursor is kept within the queue q, and painted.           *)
Redraw(h, q) ==
  lobby' = [lobby EXCEPT ![h] =
              Rendered(q, IF @.selectedIndex > Len(q) THEN Len(q) ELSE @.selectedIndex)]

(* The process of h ends: its memory, its shells, its connections and its  *)
(* listeners go with it, and the terminal stays as raw as it is left.      *)
HostEnds(h, how, raw) ==
  /\ hostUp' = [hostUp EXCEPT ![h] = how]
  /\ approvalQueue' = [approvalQueue EXCEPT ![h] = <<>>]
  /\ isApproving' = [isApproving EXCEPT ![h] = FALSE]
  /\ lobby' = [lobby EXCEPT ![h] = None]
  /\ settled' = [settled EXCEPT ![h] = None]
  /\ shell' = [shell EXCEPT ![h] =
                 [c \in Clients |-> IF @[c] = "none" THEN "none" ELSE "ended"]]
  /\ stdin' = [stdin EXCEPT ![h].raw = raw, ![h].readers = {}]
  /\ hostPc' = [hostPc EXCEPT ![h] =
                  [c \in Clients |-> IF @[c] = "none" THEN "none" ELSE "closed"]]
  /\ hostAnswer' = [hostAnswer EXCEPT ![h] = [c \in Clients |-> None]]
  /\ Cut(h)
  /\ UNCHANGED <<verdicts, clientPc, clientOffer>>

HostExits(h) == HostEnds(h, "exited", stdin[h].raw)
HostDies(h) == HostEnds(h, "crashed", stdin[h].raw)

-----------------------------------------------------------------------------
(* The callbacks of the socket.                                            *)

HostStart(h) ==
  /\ hostUp[h] = "off"
  /\ hostUp' = [hostUp EXCEPT ![h] = "up"]
  /\ Connect(h, HostRegister)
  /\ UNCHANGED <<approvalQueue, isApproving, lobby, settled, shell, stdin,
                 verdicts, rtcVars>>

(* APPROVAL_REQUEST: a knock joins the end of the queue.  (The first form  *)
(* is an unshift in place of the push.)                                    *)
EnqueuedFirst(q, c) == <<c>> \o q
Enqueued(q, c) == Append(q, c)

HostOnRequest(h) ==
  /\ HostIdle(h)
  /\ Reads(h, "APPROVAL_REQUEST")
  /\ LET q == Enqueued(approvalQueue[h], Head(toPeer[h]).clientId) IN
     /\ approvalQueue' = [approvalQueue EXCEPT ![h] = q]
     /\ IF CallbackIsApproving /\ lobby[h] # None
        THEN Redraw(h, q) /\ UNCHANGED <<isApproving, stdin>>
        ELSE ProcessQueue(h, q)
  /\ UNCHANGED <<hostUp, settled, shell, verdicts, link, toServer, rtcVars>>

(* The queue q without its entry for client c, if it has one.  A client    *)
(* knocks once, so that no client has two (OneVerdict).  (The first form   *)
(* forgets the splice.)                                                    *)
KeepsEntry(q, c) == q
Without(q, c) ==
  IF \A i \in DOMAIN q : q[i] # c THEN q
  ELSE LET i == CHOOSE i \in DOMAIN q : q[i] = c
       IN  SubSeq(q, 1, i - 1) \o SubSeq(q, i + 1, Len(q))

(* CLIENT_DISCONNECT of a client in the queue, or of one that is not.      *)
HostOnDisconnect(h) ==
  /\ HostIdle(h)
  /\ Reads(h, "CLIENT_DISCONNECT")
  /\ LET c == Head(toPeer[h]).clientId
         q == Without(approvalQueue[h], c)
     IN IF c \notin Queued(h)
        THEN UNCHANGED <<approvalQueue, lobby, settled, stdin>>
        ELSE /\ approvalQueue' = [approvalQueue EXCEPT ![h] = q]
             /\ IF ~(CallbackIsApproving /\ lobby[h] # None)
                THEN UNCHANGED <<lobby, settled, stdin>>
                ELSE IF q = <<>> THEN Finish(h, None) /\ UNCHANGED lobby
                ELSE Redraw(h, q) /\ UNCHANGED <<settled, stdin>>
  /\ UNCHANGED <<hostUp, isApproving, shell, verdicts, link, toServer, rtcVars>>

(* SIGNAL_FORWARD: read by the listeners of the host's transports.         *)
HostOnSignal(h) ==
  /\ HostIdle(h)
  /\ Reads(h, "SIGNAL_FORWARD")
  /\ HostAppliesSignal(h, Head(toPeer[h]))
  /\ UNCHANGED <<hostVars, link, toServer>>

(* HOST_REGISTERED prints the code; other frames have no case.             *)
HostIgnores(h) ==
  /\ HostIdle(h)
  /\ \/ Reads(h, "HOST_REGISTERED")
     \/ Reads(h, "APPROVAL_RESPONSE")
  /\ UNCHANGED <<hostVars, rtcVars, link, toServer>>

-----------------------------------------------------------------------------
(* The operator at the lobby: DynamicLobby.handleInput.                    *)

Picking(h) == HostIdle(h) /\ lobby[h] # None

(* The arrow keys move the cursor and paint the queue as it is now.        *)
MovesTo(h, i) ==
  /\ Picking(h)
  /\ lobby' = [lobby EXCEPT ![h] = Rendered(approvalQueue[h], i)]
  /\ UNCHANGED <<hostUp, approvalQueue, isApproving, settled, shell, stdin,
                 verdicts, channelVars, rtcVars>>

(* The cursor one line up or down, between the first entry and "Deny All". *)
(* (The first form of each is without its bound.)                          *)
CursorOverTop(i) == i - 1
CursorAbove(i) == IF i = 0 THEN 0 ELSE i - 1
CursorPastEnd(q, i) == i + 1
CursorBelow(q, i) == IF i + 1 > Len(q) THEN Len(q) ELSE i + 1

HostKeyUp(h) ==
  /\ Picking(h)
  /\ MovesTo(h, CursorAbove(lobby[h].selectedIndex))

HostKeyDown(h) ==
  /\ Picking(h)
  /\ MovesTo(h, CursorBelow(approvalQueue[h], lobby[h].selectedIndex))

(* Enter reads the queue as it is now at selectedIndex; an index past      *)
(* "Deny All" is a TypeError that nothing catches.                         *)
HostKeyEnter(h) ==
  LET q == approvalQueue[h]
      i == lobby[h].selectedIndex
  IN /\ Picking(h)
     /\ IF i > Len(q) THEN HostDies(h)
        ELSE /\ Finish(h, IF i = Len(q) THEN "REJECT_ALL" ELSE q[i + 1])
             /\ UNCHANGED <<hostUp, approvalQueue, isApproving, lobby, shell,
                            verdicts, channelVars, rtcVars>>

HostKeyCtrlC(h) ==
  /\ Picking(h)
  /\ Finish(h, "EXIT")
  /\ UNCHANGED <<hostUp, approvalQueue, isApproving, lobby, shell, verdicts,
                 channelVars, rtcVars>>

-----------------------------------------------------------------------------
(* processQueue after its await.  (The first forms of Denials and of       *)
(* EmptyQueue send no denial, and forget the reset of the queue.)          *)

Denial(c) == ApprovalResponse(c, FALSE)
Approval(c) == ApprovalResponse(c, TRUE)
NoDenials(q) == <<>>
Denials(q) == [i \in DOMAIN q |-> Denial(q[i])]

(* The host writes these responses; the history keeps the verdicts.        *)
Told(frames, c, b) ==
  IF \E i \in DOMAIN frames : frames[i] = ApprovalResponse(c, b) THEN <<b>> ELSE <<>>

Reply(h, frames) ==
  /\ toServer' = Written(h, frames)
  /\ verdicts' = [c \in Clients |->
                    verdicts[c] \o Told(frames, c, FALSE) \o Told(frames, c, TRUE)]
  /\ UNCHANGED <<link, toPeer>>

LobbyDone(h) ==
  /\ settled' = [settled EXCEPT ![h] = None]
  /\ UNCHANGED <<hostUp, shell>>

KeepQueue(q) == q
EmptyQueue(q) == <<>>

(* "EXIT": process.exit, whoever is still in the queue.                    *)
HostResumesExit(h) ==
  /\ settled[h] # None /\ settled[h].result = "EXIT"
  /\ HostExits(h)

(* Cancelled, or "Deny All".                                               *)
HostResumesRejectAll(h) ==
  /\ settled[h] # None /\ settled[h].result \in {None, "REJECT_ALL"}
  /\ lobby' = [lobby EXCEPT ![h] = None]
  /\ Reply(h, Denials(approvalQueue[h]))
  /\ approvalQueue' = [approvalQueue EXCEPT ![h] = EmptyQueue(@)]
  /\ isApproving' = [isApproving EXCEPT ![h] = FALSE]
  /\ LobbyDone(h)
  /\ UNCHANGED <<stdin, rtcVars>>

(* A client was selected: the others are denied, the queue is emptied, the *)
(* client is approved and its transport made.  If it is no longer in the   *)
(* queue, the host unlocks and calls processQueue on the empty queue.      *)
HostResumesSelected(h) ==
  LET c == settled[h].result
      q == approvalQueue[h]
  IN /\ settled[h] # None /\ c \in Clients
     /\ lobby' = [lobby EXCEPT ![h] = None]
     /\ approvalQueue' = [approvalQueue EXCEPT ![h] = EmptyQueue(@)]
     /\ LobbyDone(h)
     /\ IF c \in Queued(h)
        THEN /\ Reply(h, Denials(Without(q, c)) \o <<Approval(c)>>)
             /\ hostPc' = [hostPc EXCEPT ![h][c] = "new"]
             /\ UNCHANGED isApproving
        ELSE /\ Reply(h, Denials(q))
             /\ isApproving' = [isApproving EXCEPT ![h] = FALSE]
             /\ UNCHANGED hostPc
     /\ UNCHANGED <<stdin, hostAnswer, clientPc, clientOffer>>

-----------------------------------------------------------------------------
(* The peer-to-peer session: executeActiveStreamingSession.                *)

HostOffers(h, c) ==
  /\ HostIdle(h)
  /\ HostSignalsOffer(h, c)
  /\ UNCHANGED hostVars

(* The data channel opens: save the terminal, spawn the shell, read stdin. *)
HostSessionStarts(h, c) ==
  /\ HostIdle(h)
  /\ HostMayOpen(h, c)
  /\ hostPc' = [hostPc EXCEPT ![h][c] = "open"]
  /\ shell' = [shell EXCEPT ![h][c] = "running"]
  /\ stdin' = [stdin EXCEPT ![h] =
                  [raw |-> TRUE, readers |-> @.readers \cup {c}, saved |-> @.raw]]
  /\ UNCHANGED <<hostUp, approvalQueue, isApproving, lobby, settled, verdicts,
                 channelVars, hostAnswer, clientPc, clientOffer>>

(* transport.onClose: the terminal is restored and the host unlocked.  The *)
(* shell goes on (the kill is commented out), and the clients that knocked *)
(* meanwhile stay in the queue (so is the call of processQueue).  (The     *)
(* first form forgets stdin.off.)                                          *)
KeepsListening(s, c) == [s EXCEPT !.raw = s.saved]
Released(s, c) == [s EXCEPT !.raw = s.saved, !.readers = @ \ {c}]

HostSessionCloses(h, c) ==
  /\ HostIdle(h)
  /\ hostPc[h][c] = "open"
  /\ hostPc' = [hostPc EXCEPT ![h][c] = "closed"]
  /\ stdin' = [stdin EXCEPT ![h] = Released(@, c)]
  /\ isApproving' = [isApproving EXCEPT ![h] = FALSE]
  /\ UNCHANGED <<hostUp, approvalQueue, lobby, settled, shell, verdicts,
                 channelVars, hostAnswer, clientPc, clientOffer>>

(* The connection fails before it opens: nothing listens for that, and     *)
(* the promise of connect() stays pending.                                 *)
HostNegotiationFails(h, c) ==
  /\ HostIdle(h)
  /\ hostPc[h][c] \in {"new", "offered"}
  /\ hostPc' = [hostPc EXCEPT ![h][c] = "closed"]
  /\ UNCHANGED <<hostVars, channelVars, hostAnswer, clientPc, clientOffer>>

(* onExit of any shell the host still runs, also one of an earlier session *)
(* while a lobby or another session has the terminal: setRawMode(false),   *)
(* the saved profile, process.exit.  (The first form does not restore.)    *)
LeftRaw(s) == s.raw
Restored(s) == s.saved

HostShellExits(h) ==
  /\ HostIdle(h)
  /\ \E c \in Clients : shell[h][c] = "running"
  /\ HostEnds(h, "exited", Restored(stdin[h]))

-----------------------------------------------------------------------------
(* The socket drops while the process lives on; no one handles that.       *)
HostLosesSocket(h) ==
  /\ HostIdle(h)
  /\ link[h] = "open"
  /\ Cut(h)
  /\ UNCHANGED <<hostVars, rtcVars>>

(* Nothing keeps the event loop alive.                                     *)
HostDrains(h) ==
  /\ HostIdle(h)
  /\ link[h] = "closed" /\ toPeer[h] = <<>>
  /\ lobby[h] = None /\ Engaged(h) = {}
  /\ \A c \in Clients : shell[h][c] # "running"
  /\ HostExits(h)

(* A signal, such as Ctrl+C while the terminal is cooked, or a crash.      *)
HostCrashes(h) ==
  /\ HostIdle(h)
  /\ HostDies(h)

(* What the process of h does by itself: frames, and the rest of           *)
(* processQueue.                                                           *)
HostReacts(h) ==
  \/ HostOnRequest(h)
  \/ HostOnDisconnect(h)
  \/ HostOnSignal(h)
  \/ HostIgnores(h)
  \/ HostResumesExit(h)
  \/ HostResumesRejectAll(h)
  \/ HostResumesSelected(h)
  \/ \E c \in Clients : HostOffers(h, c)

(* What its operator does in the lobby.                                    *)
OperatorActs(h) ==
  \/ HostKeyUp(h)
  \/ HostKeyDown(h)
  \/ HostKeyEnter(h)
  \/ HostKeyCtrlC(h)

(* What the network, the shell and the machine do to it.                   *)
HostSuffers(h) ==
  \/ \E c \in Clients : \/ HostSessionStarts(h, c)
                        \/ HostSessionCloses(h, c)
                        \/ HostNegotiationFails(h, c)
  \/ HostShellExits(h)
  \/ HostLosesSocket(h)
  \/ HostDrains(h)
  \/ HostCrashes(h)

HostNext ==
  \E h \in Hosts : \/ HostStart(h)
                   \/ HostReacts(h)
                   \/ OperatorActs(h)
                   \/ HostSuffers(h)

-----------------------------------------------------------------------------
(* The lock of processQueue covers everything from the lobby to the end of *)
(* the session: an unlocked host has neither a lobby nor a live transport, *)
(* a lobby excludes a live transport, and there is one guest at most.      *)
HostExclusive ==
  \A h \in Hosts :
    /\ ~isApproving[h] => lobby[h] = None /\ Engaged(h) = {}
    /\ lobby[h] # None => Engaged(h) = {}
    /\ \A c, d \in Engaged(h) : c = d

(* The terminal of the host has one reader at most, the lobby that is      *)
(* waiting or the session that is open.  Unless the process was killed,    *)
(* the terminal is raw exactly while it has one, so that the operator gets *)
(* a cooked terminal back, from whatever the process was doing when it     *)
(* exited (prompt, finish, executeActiveStreamingSession, onClose, onExit). *)
LobbyWaits(h) == lobby[h] # None /\ settled[h] = None
TerminalOwned ==
  \A h \in Hosts :
    /\ stdin[h].readers = (IF LobbyWaits(h) THEN {Lobby} ELSE {})
                             \cup {c \in Clients : hostPc[h][c] = "open"}
    /\ hostUp[h] # "crashed" => (stdin[h].raw <=> stdin[h].readers # {})
    /\ \A x, y \in stdin[h].readers : x = y

(* A client is judged once: a knock is in one queue or has been answered,  *)
(* never both, and never twice (the queue is emptied by each decision).    *)
Knocks(c) == UNION {{<<h, i>> : i \in {j \in DOMAIN approvalQueue[h] :
                                          approvalQueue[h][j] = c}} : h \in Hosts}
OneVerdict == \A c \in Clients : Len(verdicts[c]) + Cardinality(Knocks(c)) <= 1

(* Entering on a client that is highlighted on the screen selects that     *)
(* client, whoever knocked since the screen was painted (the queue grows   *)
(* at its end, the cursor is an index).                                    *)
HighlightedClientIsChosen ==
  \A h \in Hosts :
    (settled[h] # None /\ settled[h].seen \in Clients)
      => settled[h].result \in {settled[h].seen, "EXIT"}

(* Enter always finds an entry, or "Deny All": "Prevent cursor from going  *)
(* out of bounds if clients dropped" (ws-host-share.ts:294).  The queue    *)
(* may only grow while the lobby reads keys by an index.                   *)
CursorInReach ==
  \A h \in Hosts : LobbyWaits(h) => lobby[h].selectedIndex <= Len(approvalQueue[h])

(* Entering does what the screen says, "Deny All" included: "Instantly     *)
(* update the UI!" (ws-host-share.ts:133) when someone knocks.             *)
DecisionMatchesScreen ==
  \A h \in Hosts : settled[h] # None => settled[h].result \in {settled[h].seen, "EXIT"}

(* "kill the ghost shell" (ws-host-share.ts:570): a shell runs only in a   *)
(* session.                                                                *)
NoGhostShell ==
  \A h \in Hosts, c \in Clients : shell[h][c] = "running" => hostPc[h][c] = "open"

(* "Check if anyone else knocked while we were in the session"             *)
(* (ws-host-share.ts:581): an unlocked host has no one waiting.            *)
NoKnockLeftBehind ==
  \A h \in Hosts : ~isApproving[h] => approvalQueue[h] = <<>>
===============================================================================
