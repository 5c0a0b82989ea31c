------------------------------ MODULE ClientConsole ------------------------------
(***************************************************************************)
(* The terminal of "syncpty connect": the callbacks that                   *)
(* ws-client-connect.ts and local-tcp-cli-connect.ts give their            *)
(* ClientSession, and the saved stty profile of                            *)
(* packages/pty-core/src/terminal-state.ts.                                *)
(***************************************************************************)
EXTENDS ClientSession

CONSTANT Terminals   \* the clients whose standard input is a terminal

ASSUME TerminalsAssumption == Terminals \subseteq Clients

VARIABLES
  clientUp,           \* clientUp[c]: the process of c
  isConsoleRawMode,   \* isConsoleRawMode[c]: what c thinks of its terminal
  tty,                \* tty[c]: the mode the terminal is in
  profile,            \* profile[c]: the mode saved in the state registry
  shown,              \* shown[c]: what was written to standard output
  sent                \* sent[c]: how much the user of c typed into the session

consoleVars == <<sessionVars, clientUp, isConsoleRawMode, tty, profile, shown, sent>>

Modes == {"cooked", "raw"}

ConsoleTypeOK ==
  /\ SessionTypeOK
  /\ clientUp \in [Clients -> {"off", "up", "exited", "crashed"}]
  /\ isConsoleRawMode \in [Clients -> BOOLEAN]
  /\ tty \in [Clients -> Modes]
  /\ profile \in [Clients -> Modes \cup {"none"}]
  /\ shown \in [Clients -> Seq(Outputs)]
  /\ sent \in [Clients -> 0..MaxInput]

ConsoleInit(up) ==
  /\ SessionInit
  /\ clientUp = [c \in Clients |-> up]
  /\ isConsoleRawMode = [c \in Clients |-> FALSE]
  /\ tty = [c \in Clients |-> "cooked"]
  /\ profile = [c \in Clients |-> "none"]
  /\ shown = [c \in Clients |-> <<>>]
  /\ sent = [c \in Clients |-> 0]

-----------------------------------------------------------------------------
(* saveTerminalState before setRawMode(true); "stty -g" may fail, which is *)
(* silent.  (The first form saves after setRawMode.)                       *)
SavesLate(c) == profile' = [profile EXCEPT ![c] = "raw"]
Saves(c) == \E seen \in {tty[c], "none"} : profile' = [profile EXCEPT ![c] = seen]

(* onOutput: the terminal turns raw at the first output.  Without a        *)
(* terminal setRawMode does not exist, and the exception, which            *)
(* handleIncomingPacket swallows, comes before the write.                  *)
Displays(c, output) ==
  IF c \in Terminals
  THEN /\ IF isConsoleRawMode[c]
          THEN UNCHANGED <<isConsoleRawMode, tty, profile>>
          ELSE /\ Saves(c)
               /\ tty' = [tty EXCEPT ![c] = "raw"]
               /\ isConsoleRawMode' = [isConsoleRawMode EXCEPT ![c] = TRUE]
       /\ shown' = [shown EXCEPT ![c] = Append(@, output)]
  ELSE UNCHANGED <<isConsoleRawMode, tty, profile, shown>>

OnOutput(c, output) ==
  /\ TakesOutput(c)
  /\ Displays(c, output)
  /\ UNCHANGED <<clientUp, sent>>

(* cleanExit: setRawMode(false), then the saved profile if stty takes it.  *)
CleanExit(c) ==
  /\ IF isConsoleRawMode[c]
     THEN \E mode \in {profile[c], "cooked"} \ {"none"} : tty' = [tty EXCEPT ![c] = mode]
     ELSE UNCHANGED tty
  /\ isConsoleRawMode' = [isConsoleRawMode EXCEPT ![c] = FALSE]
  /\ UNCHANGED profile

(* The session terminates, and onDisconnect ends the process.              *)
OnDisconnect(c) ==
  /\ Terminates(c)
  /\ CleanExit(c)
  /\ clientUp' = [clientUp EXCEPT ![c] = "exited"]
  /\ UNCHANGED <<shown, sent>>

(* The listener of stdin: a chunk is input, or Ctrl+] on its own, which a  *)
(* terminal delivers so only in raw mode.                                  *)
Types(c) ==
  /\ MaySend(c) /\ sent[c] < MaxInput
  /\ sent' = [sent EXCEPT ![c] = @ + 1]
  /\ UNCHANGED <<sessionVars, clientUp, isConsoleRawMode, tty, profile, shown>>

MayDetach(c) == c \notin Terminals \/ tty[c] = "raw"

(* The process dies of something else.                                     *)
Crashes(c) ==
  /\ clientUp[c] = "up"
  /\ clientUp' = [clientUp EXCEPT ![c] = "crashed"]
  /\ UNCHANGED <<sessionVars, isConsoleRawMode, tty, profile, shown, sent>>

-----------------------------------------------------------------------------
(* A client that ends by itself gives its terminal back cooked, however    *)
(* its session ended and whether or not stty worked (cleanExit and         *)
(* restoreTerminalState); one that runs knows the mode it is in.           *)
TerminalHandedBack ==
  \A c \in Clients :
    /\ clientUp[c] = "exited" => tty[c] = "cooked"
    /\ clientUp[c] = "up" => (isConsoleRawMode[c] <=> tty[c] = "raw")
===============================================================================
