# SyncPTY in TLA+

SyncPTY shares a terminal: `syncpty share` registers at a matchmaker and gets a
6-digit code, `syncpty connect <code>` knocks, the operator of the host picks one
of the waiting clients in a lobby, and the two ends negotiate a WebRTC channel
over which a shell is streamed.  An older path does the same over a loopback TCP
connection, and a launcher written in Go unpacks and starts the whole.  These
modules model the matchmaker, the host, the client, their negotiation, what flows
through a session, the local path and the launcher; TLC checks them on small
instances, and TLAPS proves all the invariants, action properties and refinements
that TLC checks, for any number of hosts, clients, codes and packets.

## 1. Inventory

| Component | State it keeps | Operations | What is hard |
|---|---|---|---|
| Matchmaker, `apps/signaling-server/src/index.ts` | `activeSessions` (code → host socket, client socket), `socketToSession`, `socketToClient`, in memory only | HOST_REGISTER, CLIENT_LOOKUP, forwarding, `close` | rooms that outlive their host, codes that come back, restarts, sockets that close between two frames of one conversation |
| Host: queue, lobby, decision, `apps/host-agent/src/ws-host-share.ts` | `approvalQueue`, module-level `isApproving`, a shadowing `isApproving` inside `share`, `currentLobby` with `selectedIndex`, the screen, listeners and raw mode of stdin | message handler, `DynamicLobby`, `processQueue` before and after its `await` | the queue changes while the lobby waits; an index into a list the operator may not see; one lock from the lobby to the end of the session |
| Host: streaming session, same file | shell, stdin listener, saved stty profile, `--readonly` | `executeActiveStreamingSession`, `onData`, `onClose`, `onExit` | who owns the keyboard; a shell that outlives its session; what is left when one end goes |
| Client, `apps/cli-client/src/ws-client-connect.ts` | transport, raw mode, saved stty profile | lookup, knock, verdict, `startBinarySession`, detach | verdicts and offers are broadcast: each client must tell its own from the others'; output may come before anyone listens |
| RTC transport, `packages/transport/src/rtc-transport.ts` | peer connection, data channel, listeners | `connect`, signalling over the shared socket, `send`, `onClosed`, `close` | listeners that are never removed; a promise that may never settle; no retransmission |
| Client session, `packages/client-core/src/session.ts` | IDLE / CONNECTING / ACTIVE / CLOSED | `start`, `startApproved`, packets, `sendInput`, `close` | termination from three sides, approval inferred from output |
| Local TCP transport and its `share` / `connect` | server, one socket, `terminated`, the question on stdin | accept, data, end/close, `close` | one socket ever, double knocks, chunks that are not packets |
| Protocol, `packages/protocol` | none | `serialize`, `deserialize` | packet boundaries over a byte stream |
| PTY core, `packages/pty-core` | PTY handle, `isAlive`; stty profiles; process ids | `spawn`, `write`, `kill`, `onExit`; save/restore; `safeKill` | exit against the end of the session; stty that fails; a stale pid |
| Go launcher, `main.go` | the version cache on disk | `unpack`, run node | interrupted or concurrent unpacking |
| Scripts, CI, placeholder packages | – | – | nothing a model would explore |

Interaction: hosts and clients each open one WebSocket to the matchmaker and never
reconnect.  The matchmaker broadcasts a forwarded frame to every other socket whose
`socketToSession` entry is the sender's code.  After the verdict the same sockets
carry the SDP of the negotiation; once the data channel is open the client closes
its socket and the host keeps its own.  Inside a host everything runs in one event
loop: socket callbacks, keys, channel callbacks, and the continuation of
`processQueue`.  A session is a `ClientSession` over a transport on one side and a
`PseudoTerminal` behind a transport on the other; either transport carries the same
packets.

What makes each part correct: rooms are distinct, and a client stays in the one it
entered; a knock gets to its host and is judged at most once, by the host whose code was looked up; the host has one lobby or
one guest; the guest is the client that was selected on the screen; the terminal has
one owner and is cooked without one; the verdict and the offer reach the client they
are for, in that order; a client sees what its own shell printed and a shell hears
its own client; nothing of a finished session gets into the next one; both ends of a
session end together, and every terminal is handed back.

## 2. Modules

| Module | Models | Correspondence |
|---|---|---|
| `Channels` | the WebSockets, and the frames | `link[p]` is the socket's state, `toServer`/`toPeer` the two directions. `Cut` (process or network ends) keeps a prefix of what was written; `Hangup` is `ws.close()`, which delivers everything; a write to a socket that is not open disappears (`Written`, `Sent`) |
| `SignalingServer` | `index.ts` | the three maps by name; one action per case of `handleSignalingMessage`, `HandleClose` for the `close` handler, `ServerRestart` for a new process with empty maps |
| `RtcTransport` | `rtc-transport.ts` up to the opening of the channel, and what the code relies on in node-datachannel | states of the host's and the client's connections; an answer names its author and its offer, so that the model can tell who really is at the other end |
| `ClientAgent` | `ws-client-connect.ts`, its callback on the socket | one action per case of the message handler, the start and the two ends of the session, lost socket, crash |
| `HostAgent` | `ws-host-share.ts` | one action per callback and key; `processQueue` is cut at its `await`: `ProcessQueue` is the part before, `HostResumes...` the part after |
| `Matchmaking` | the three programs together | interleaves their steps; properties that need more than one of them; the refinement of `AccessControl` |
| `AccessControl` | what the system promises about who gets in | abstract: clients ask, a host rules on all who wait at once, at most one guest per host |
| `HostContract` | a host against any matchmaker that keeps to the protocol | CLIENT_DISCONNECT, which the host handles and the present matchmaker never sends, is possible at any time; `guest[c]` is what became of a client, `room[c]` the host it knocked at, which alone is told of its departure |
| `Protocol` | the packets, `serialize`/`deserialize` | packets by kind, owner and number; a chunk that is not one packet is malformed |
| `Pty` | `pty.ts`, as the hosts use it | spawned once per session, prints, hears, exits |
| `ClientSession` | `session.ts` | its states; `Starts`, `StartsApproved`, `TakesOutput`, `Terminates` |
| `SharedShell` | what a session promises to those at its two ends | abstract: users come and go, shells print and hear, a user sees what the own shell printed and the shell hears what this user typed, once and in order |
| `ClientConsole` | the terminal side of both `connect` programs, and `terminal-state.ts` | raw mode at the first output, the profile that is saved and restored, Ctrl+], the exit |
| `Streaming` | the sessions of one host over RTC | `executeActiveStreamingSession` at one end, `startBinarySession` at the other, a channel between them |
| `LocalSharing` | `local-tcp-cli-share.ts`, `local-tcp-cli-connect.ts`, `local-transport.ts` | the single socket, the question, the session, chunks |
| `Launcher` | `main.go` | several starts walk the embedded files into one directory |
| `MCMatchmaking` | – | symmetry and a state constraint for TLC |
| `HostAgentProofs` | – | what the operations on the sockets do to a queue of frames, and what every step of a host preserves, whatever it is composed with |
| `MatchmakingProofs`, `AdmissionProofs` | – | the theorems about the composed system; the first begins with the lemmas about the client and the matchmaker, the second EXTENDS it |
| `HostContractProofs`, `StreamingProofs`, `LocalSharingProofs`, `LauncherProofs` | – | the theorems about the module each is named after |
| `SessionProofs` | – | what a shell and a client's console preserve over either transport; `StreamingProofs` and `LocalSharingProofs` EXTEND it |

`Matchmaking` composes `SignalingServer`, `HostAgent` and `ClientAgent` over
`Channels` and `RtcTransport`.  `Streaming` and `LocalSharing` each compose `Pty` and
`ClientConsole`, which is built on `ClientSession` and `Protocol`, over a transport of
their own, and each implements `SharedShell`.  `Streaming` begins where `Matchmaking`
has admitted a client.

Modelling decisions worth knowing:

* **The continuation of `processQueue` is a microtask.**  From the moment the lobby
  settles (`settled[h] # None`) no other callback of that process runs before the
  continuation has (`HostIdle`).  That is also why the "failsafe" branch after the
  await is never taken, though it is in the model.
* **Two `isApproving`.**  The `share` callback declares its own (line 45), which its
  message handler reads.  It is the operator `CallbackIsApproving`, constantly
  false; the branches behind it (redraw, cancel) are in the model as written.
* **The screen.**  A lobby keeps what it last painted (`entries`, `cursor`) besides
  `selectedIndex`; `settled` keeps what was highlighted when the key was hit
  (`seen`).  That is what the properties about the operator's decision compare.
* **Histories.**  `verdicts`, `issued` and `matchedHost` record what was answered,
  which codes were drawn and whose code a client looked up; `shown`, `heard`,
  `emitted` and `sent` what went through a session; `cutShort` that an unpacking was
  interrupted.  No action reads `verdicts`, `matchedHost`, `shown`, `heard` or
  `cutShort`; `issued` only restricts which code may be drawn when `ReissueCodes` is
  FALSE, `emitted` and `sent` number the packets.
* **Opening a channel and subscribing are two steps of a client** (`ClientOpens`,
  `ClientStarts`).  What lies between is the continuation of `connect()`, which calls
  `startApproved`; as a microtask of the "open" event it runs before any other callback
  of the process, which is the guard `Started` of the others.  A channel without a
  subscriber drops what it gets (`Subscribed`).  A host opens and subscribes in one
  step (`HostOpens`), for the same reason.
* **What is lost when an end goes.**  A channel or connection keeps its order.  An
  end that closes reads nothing any more, and whoever notices first may still have
  packets it did not read: they are lost.  A client may therefore end with or without
  having read the CLOSE packet.
* **TCP chunks.**  A `data` event brings any number of packets, or bytes that do not
  make up packets.  Only a chunk that is exactly one packet survives `deserialize`.
* **A client without a terminal.**  `process.stdin.setRawMode` does not exist there;
  the exception it causes at each output is swallowed by `handleIncomingPacket`, so
  that nothing is written.  `Terminals` is the set of clients that do have one.
* **Terminals.**  `tty` is the mode the terminal is in, `profile` the one that was
  saved.  Saving and restoring through stty may each fail.  That node itself resets a
  terminal when it exits is not relied on: a process that ends leaves the terminal as it
  is (`HostExits`, `HostDies`), and only the code that hands it back does so, on a host
  `finish` of the lobby, `onClose` and `onExit`.  A killed host may leave it raw.  The
  operator's terminal in a lobby and in an RTC session is in `HostAgent`, in the local
  path in `LocalSharing`.
* **External code.**  The WebSocket library, node-datachannel, TCP, stty, the file
  system and the event loop are modelled from how the code uses them and marked as
  external in the map.  ICE candidates only decide whether a channel opens, which is
  nondeterministic.
* **A second form of some helpers** (`PromptAlways` beside `MayPrompt`, `AnyCode`
  beside `FreeCode`, `LatestRecipient` beside `Recipient`, ...) states the nearest
  wrong reading of the same lines: without the guard, the reset, the bound or the
  address.  Nothing uses it: put in place of the right form, it makes the property
  named in `PROJECT.json` fail.

## 3. Runs

All runs have `CHECK_DEADLOCK FALSE`: every process may end, and then the system has
stopped.

| Run | Instance | States | Shows |
|---|---|---|---|
| `matchmaking` | 1 host, 2 clients, 1 code, `FairSpec` | 94,528 | types; the lock (`HostExclusive`), the terminal whatever ends the process by itself (`TerminalOwned`), one verdict per knock (`OneVerdict`, `NoSilentDrop`), the guest is the selected one (`GuestWasSelected`, `HighlightedClientIsChosen`), Enter finds an entry (`CursorInReach`); the refinement (`ImplementsAccessControl`); every client gets into a queue, is approved or ends (`NoClientHangs`), and an approved one gets to answer the offer (`ApprovedClientsAnswer`) |
| `two_hosts` | 2 hosts, 2 clients, 2 codes that come back, symmetry | 724,574 | a session has a host whose socket is still there and a host's code leads to its own session (`RoomsDistinct`); a client is in its own host's room as long as the server has that host's socket (`HostKeepsItsClients`); knocks and guests stay in their room (`KnocksStayInRoom`, `GuestWasSelected`); a client is never ruled on by two hosts (`ImplementsAccessControl`) |
| `host_contract` | 1 host, 3 clients | 319,190 | the lock and the terminal under CLIENT_DISCONNECT, a client that left leaves the queue (`LeaversAreForgotten`) |
| `streaming` | 2 clients, one without a terminal, `FairSpec` | 223,775 | a screen shows what the session's own shell printed and a shell hears what its own client typed, from the start, and on a read-only host nothing (`ScreenFollowsShell`, `ShellFollowsClient`); terminals come back cooked (`TerminalHandedBack`); both ends close and the host is unlocked (`SessionsEndTogether`); output arrives, also what comes right with the opening (`ScreenCatchesUp`); the refinement (`ImplementsSharedShell`) |
| `local_sharing` | 2 clients, one without a terminal, `FairSpec` | 61,928 | one question and one guest (`AskedOnce`), no approval but the operator's (`ApprovedByOperator`), order under joined and split chunks (`StreamsInOrder`), the terminals of both ends (`TerminalHandedBack`, `DepartureHandsBack`), every refused client ends (`ClientsEnd`); the refinement (`ImplementsSharedShell`) |
| `launcher` | 3 starts, 1 + 2 files | 140,724 | starts that overtake each other do not leave an incomplete cache (`IncompleteHasCause`, `GetsComplete`); only one that was cut short does |
| `stale_screen` | 1 host, 2 clients | violated | a knock is not painted; Enter on "Deny All" approves it |
| `cursor_past_end` | contract, 3 clients | violated | a client that leaves moves the end of the queue, and the cursor is past it |
| `ghost_shell` | 1 host, 1 client | violated | the shell survives its session |
| `knock_left_behind` | 1 host, 2 clients | violated | a knock during a session is forgotten after it |
| `dead_request` | 1 host, 1 client, `FairSpec` | violated | the request of a client that ended is never removed |
| `reissued_code` | 2 hosts, 1 client, 1 code, codes reissued | violated | an old client finds itself in a new host's room |

The six violated runs are the places where the code does something else than its own
comments say; `PROJECT.json` quotes them.

**Bounds.**  Each process runs once: a process that is started again is another
process, since nothing is persisted and client ids are random.  Hence in the
matchmaking modules no counter is bounded in a guard; the numbers of hosts, clients
and codes are the only bounds, and they bound every queue.  Two clients are what it
takes for one to be selected and another denied, to knock during the lobby or during
the session of the other, and to read frames that are the other's; three in
`host_contract` let entries above, at and below the cursor leave.  Two hosts with two
codes are what it takes for a frame, a client or a code to end up in the wrong room.
In `two_hosts` codes come back, so that a host may draw the one another has given up,
and only the test for a live session keeps two of them apart; with one host there is no
one to draw it again, and `ReissueCodes` is FALSE.  A client whose host's socket is gone,
while it keeps its code, may then be in the room of a host it never knocked at (the run
`reissued_code` shows it there); `KnocksStayInRoom` and `GuestWasSelected` except this
client (`Orphaned`, which includes the clients of a matchmaker that was restarted), and
no other.  The constraint `FewOutages` of `two_hosts` cuts
states in which more than one host outlives its socket, or a client does before it has a
session; the runs with one host are not so constrained.

In the sessions `MaxOutput` and `MaxInput` bound what a shell prints and a client
types, in the guards of `Emits` and `Types`.  Two outputs are the first, which turns
the terminal raw and, locally, is the approval, and another.  Two inputs can be joined
into one chunk in `local_sharing`; `streaming`, where packets stay whole, has one, which
is enough to be lost, misdelivered or refused by a read-only host but not to be
overtaken: that the order is kept, for any number of inputs, is the theorem
`ShellsFollowClients`.  Two
clients let a finished session's shell print into the next one, or a second client
knock at a socket that is taken.  Of the two, one has a terminal.  `isReadOnly` is
either.  Three starts of the launcher are two that overtake each other and one that
finds what they leave; the three files come from both `go:embed` patterns.

**Fairness.**  Weak fairness for what an event loop, a kernel or a channel does by
itself.  In `Matchmaking`, per process: the server handles what arrived at a socket
and its close; a host handles frames, runs a ready continuation and sends the offer of
a transport it made; a client handles frames, answers, and ends when there is nothing
left.  Nothing is assumed of users (starting, keys, detaching), networks (opening a
channel, losing a socket), shells or crashes; so the liveness properties except the
cases in which the host's socket is gone or, for an approved client, its own is.  In
`Streaming`, a client's continuation runs (`ClientStarts`), messages that arrived are
handled (`ClientReceives`), and an end whose peer is closed learns of it (`HostLearns`, `ClientLearns`), by the channel's own
closing or its timeout; an end whose peer is there is not assumed to close.  In
`LocalSharing`, the kernel reports connections dialled and ended (`HostAccepts`,
`HostNotices`, `ClientNotices`).  In `Launcher`, a start that unpacks goes on; it may
fail or be killed instead.

## 4. Refinement

`AccessControl` states in five actions what all of this is for: a client asks one
host, the host rules on everyone who waits at once and admits at most one of them, a
client gets one ruling, a guest was admitted and has the host for itself.
`Matchmaking` implements it under the mapping of the instance `Access`: a host's queue
is who waits, its transports in use are its guests, the responses it wrote are its
rulings, its process is whether it serves.  The steps that do not stutter are the
host's start (`Open`), its reading of a request (`Ask`), the part of `processQueue`
after the await (`RefuseAll`, `Admit`), the end of a session (`Part`) and the end of
the process (`Close`).  That a request which is read asks for the first time, that no
one is ruled on twice, not even by two hosts, and that no guest is there when one is
admitted is what has to be shown.  TLC checks it in `matchmaking` and `two_hosts`,
TLAPS proves it for all constants.

`SharedShell` states what a session is for, whatever it runs over: a user enters and
leaves for good, a shell is spawned once, prints, and ends with all the others, and
`Show` and `Hear` may take what was printed or typed, if the user or the shell is
there, it is next in order, and, for `Hear`, the host is not read-only.  Both
transports implement it under `Users`, which maps the state of a client's process to
where its user is; everything else is itself.  The difference between the two is one
constant.  With `Lossless` nothing may be left out, which is what `Streaming` is shown
to do; the local path, whose chunks are not packets, implements it with `Lossless`
false: what gets through is in order, once, and never before its time.  Steps that
change only channels, closed ends, chunks, the lock or the question stutter.  TLC
checks it in `streaming` and `local_sharing`, TLAPS proves it for all constants.

## 5. Proofs

| Theorem | Module | States |
|---|---|---|
| `TypeCorrect`, `HostsAreExclusive`, `TerminalsAreOwned`, `SeenIsChosen`, `CursorStaysInReach` | `MatchmakingProofs` | `Spec => []` of `TypeOK`, `HostExclusive`, `TerminalOwned`, `HighlightedClientIsChosen`, `CursorInReach` |
| `NoOneIsToldOfLeavers` | `MatchmakingProofs` | no session ever has a client socket, and no CLIENT_DISCONNECT is on its way |
| `RoomsAreDistinct`, `NoOneIsJudgedTwice`, `NoKnockIsDropped` | `AdmissionProofs` | `RoomsDistinct`, `OneVerdict`, and the action property `NoSilentDrop` |
| `ProgramsControlAccess` | `AdmissionProofs` | `Spec => Access!Spec`: the composed system implements `AccessControl` |
| `HostsKeepTheirClients`, `KnocksStay` | `AdmissionProofs` | `Spec => []` of `HostKeepsItsClients`, `KnocksStayInRoom`, whether or not codes come back |
| `GuestsWereSelected` | `AdmissionProofs` | if `~ReissueCodes`, `Spec => []GuestWasSelected` |
| `ContractTypeCorrect`, `ContractExclusive`, `ContractTerminalOwned` | `HostContractProofs` | `ContractSpec => []` of `ContractTypeOK`, `HostExclusive`, `TerminalOwned`: a host that may receive CLIENT_DISCONNECT at any time |
| `LeaversForgotten` | `HostContractProofs` | `ContractSpec => []LeaversAreForgotten` |
| `TypeCorrect`, `ScreensFollowShells`, `ShellsFollowClients`, `TerminalsHandedBack` | `StreamingProofs` | `Spec => []` of `TypeOK`, `ScreenFollowsShell`, `ShellFollowsClient`, `TerminalHandedBack` of `Streaming` |
| `StreamingKeepsItsPromise` | `StreamingProofs` | `Spec => Shared!Spec`: the sessions over RTC implement `SharedShell` without gaps |
| `TypeCorrect`, `OperatorAskedOnce`, `ApprovalIsOperators`, `PacketsStreamInOrder`, `TerminalsHandedBack` | `LocalSharingProofs` | `Spec => []` of `TypeOK`, `AskedOnce`, `ApprovedByOperator`, `StreamsInOrder`, `TerminalHandedBack` of `LocalSharing` |
| `LocalSharingKeepsItsPromise` | `LocalSharingProofs` | `Spec => Shared!Spec`: the local path implements `SharedShell` with gaps |
| `IncompleteIsExplained` | `LauncherProofs` | `Spec => []IncompleteHasCause` |

They hold for all values of the constants, under the assumptions that hosts and
clients are different, that `None` and the lobby's special results are none of them
nor a session, that `ReissueCodes` is a Boolean, and that the bounds are natural
numbers.

**The host (`MatchmakingProofs`, `HostContractProofs`).** `HostExclusive` and
`TerminalOwned` are not inductive. `HostDiscipline` adds that a settled lobby is still
there until its continuation runs, that a lobby implies the lock, and that the profile
saved by a session is the cooked one (a session starts only after the lobby has let go
of the terminal), so that `onExit` restores a cooked terminal; the exits that restore
nothing come when the lobby has let go already, or when no one reads. Each action of a
host is shown to keep it, and to leave other hosts alone (`Same`). For the screen,
`Screens` says that what a lobby painted is a prefix of the queue and that the cursor is
on it: a queue that only grows at its end keeps this, so Enter on a highlighted client
selects that client, and finds an entry (`CursorInReach`). A CLIENT_DISCONNECT would
break both (`cursor_past_end`); that none is ever read is `NoSeats`, an invariant of the
*server's* maps and of what it wrote. The conjunction with the types is `IInv`; one
lemma per program shows that its steps keep it (`ServerKeeps`, `HostKeeps`,
`ClientKeeps`), `StutterKeeps` does the rest.

**Admission (`AdmissionProofs`).**  That a client is judged once depends on all three
programs.  `Token` follows the request of one client: it is a lookup in the client's
socket, then a MATCH_SUCCESS, a request on its way to the server, a request on its way
to one host, an entry in that host's queue, and then one verdict, and at each stage it
is nowhere else.  That the broadcast of a request reaches one host only is
`RoomsDistinct`; for that, `Registers` says that a host's registration exists once and
before it has a room.  `Free` and `Orderly` (`HostAgentProofs`) say that a queue holds
none of some frames, or none after another; their lemmas say what reading, writing,
cutting and selecting do to them.  Most steps are *calm*: they read or lose frames and
write descriptions at most, and one lemma (`CalmKeeps`) covers them; the other steps,
each of which moves one request from a stage to the next, have a lemma of their own.
The refinement then needs, beside `Admission`, only the step of each action.

**Rooms (`AdmissionProofs`).**  `Kept` says, of a client that looked up the code of a
host, that the session of its code is that host's while the server has the host's
socket, and that no other host has the client's request, or a transport for it, before
that socket is closed.  It rests on
`RoomsDistinct` and holds although codes come back, since a code is drawn only when no
session has it, and a session stays as long as its host's socket.  `HostKeepsItsClients`
follows, and `KnocksStayInRoom` where codes do come back.  Where they do not, `Matched`
says more: the codes of sessions and sockets have been issued, the room a client is in
is the one it entered, and a host which has a client's request, or has judged it, is the
host of that room, also when that host's socket is gone.

**Guests (`AdmissionProofs`).**  `GuestsWereSelected` assumes that no code is issued
twice, and uses `Matched`.  `Guests` says why a client only ever takes an offer made to
it.  An offer for another client of the room is broadcast to everyone there; but from
the moment the operator selects a client until that client has taken its offer, the host
is reserved for it (`Held`).  The offers for others were therefore written before its
verdict, and `Piped` keeps them in front of the verdict in the host's socket and in the
client's: the client reads them while it has no transport yet, and passes them over.

**Sessions (`StreamingProofs`).**  `Carries` says of a queue that it holds
consecutively numbered packets of one session, possibly with CLOSE at its end; `Ends`
says which pairs of states the ends of a channel can be in and what follows for the
shell, the listener and the queues.  With both, `Downstream` and `Upstream` are
inductive: what is shown plus what is under way is what was printed, as long as both
ends are open.  That says nothing of what is still under way when an end has closed, and the
refinement must not show it before it was printed: `Caused` adds that every packet
under way is one that was printed or typed.  `Console` (`SessionProofs`) is the
invariant behind `TerminalHandedBack`: a raw mode is never saved, because the profile
is taken only when the terminal is still cooked.

**The local path (`LocalSharingProofs`).**  Everything rests on `Owned`: the transport
takes one connection ever, and what is open, and whose shell there is, is the socket's.
Hence one client's knock can be read, and `Knocking` says that it is the first packet
of its client and is read once: while it is unread there is neither a question nor a
shell.  With `Asking` (one question at most, and then no shell) this gives
`AskedOnce`.  `Started` relates a client's process, connection and session; an
approved client has a shell, since no shell has printed before it was spawned:
`ApprovedByOperator`.  `Conveys` is to this path what `Carries` is to the other: what
is done and what is under way are the session's own, were printed or typed, and have
ascending numbers, with gaps.  A chunk takes any number of packets off the queue and
delivers one at most, which keeps it (`ConveysRest`, `ConveysTaken`); both
`StreamsInOrder` and the refinement follow.

**The departures (`HostContractProofs`).**  That a client that left is forgotten once
its CLIENT_DISCONNECT has been read is about the order of what reaches a host.
`Once` says that a knock is in one place, the socket or the queue, and that no response
to it is on its way yet; `Strange` that a host knows nothing of clients that knocked
elsewhere; `Noticed` that no knock comes after its client's departure, and that a
pending knock of one that left has the departure behind it.  Each step of a host only
passes frames on, takes a knock into the queue, strikes an entry out, answers the
whole queue or loses frames; these kinds of steps are shown to keep the three.

**The launcher (`LauncherProofs`).**  `IncompleteHasCause` is not inductive: a start
that is through must have left every file whole.  `Opened` says that the walk opens
what it passes; `Healed`, that, unless an unpacking was cut short, a start that began
to walk walks to the end, and a file that is only partly written has a writer at it.
When no one writes, every file the first start passed is then whole.

**Only model-checked.**  Liveness, which is out of the prover's reach: the seven
properties `NoClientHangs`, `ApprovedClientsAnswer`, `SessionsEndTogether`,
`ScreenCatchesUp`, `DepartureHandsBack`, `ClientsEnd` and `GetsComplete`.  Every other
property of a passing run is stated by a theorem of the table; the theorems are about
`Spec`, which the `FairSpec` of a run implies.

## 6. Not modelled, and the plan

Not modelled:

* RESIZE and HEARTBEAT packets, and the schemas of payloads: they change only the
  geometry of a shell, or nothing.  `getTerminalSize` keeps no state.
* `ProcessManager`, and `kill` or a second `spawn` of a
  `PseudoTerminal`: nothing in the repository calls them, so that there are no steps to
  compose them with.
* The endless loop of HOST_REGISTER with every code taken: it needs 899,999 live
  sessions.
* ICE candidates one by one; they decide only whether a channel opens.
* Wording and colours, command-line parsing, build and release scripts, CI, packages
  that are only manifests.

The model has, but no property speaks of, since no line of the code promises anything
about them:

* a negotiation that fails, after which the host stays locked (`HostNegotiationFails`);
* what a host decides after it lost its socket, and those who wait for it then;
* a client without a terminal, which is never shown anything;
* in the local path, a client that leaves before the operator has answered: there is
  no listener for it then;
* an unpacking that is interrupted, after which later starts run what is there.

Next: that the local path implements `AccessControl` as well, with one host whose
guest is the client at the socket; that takes an abstract host that is there from the
start.
