------------------------------- MODULE SessionProofs -------------------------------
(***************************************************************************)
(* What the steps of a shell and of a client's console keep, over whatever *)
(* transport their session runs.                                           *)
(***************************************************************************)
EXTENDS Pty, ClientConsole, TLAPS

-----------------------------------------------------------------------------
(* Packets, and the sequences they travel in.                              *)

LEMMA PacketsTyped ==
  /\ Close \in ToClient
  /\ \A c \in Clients, n \in 1..MaxOutput : Output(c, n) \in Outputs
  /\ \A c \in Clients, n \in 1..MaxInput : Input(c, n) \in Inputs
  /\ Outputs \subseteq ToClient
  /\ \A m \in ToClient : m = Close \/ m \in Outputs
  BY DEF ToClient, Outputs, Inputs

LEMMA PacketKinds ==
  /\ \A c, n : Output(c, n).type = "OUTPUT" /\ Output(c, n) # Close
  /\ \A c, n : Input(c, n).type = "INPUT" /\ Input(c, n) # Close
  /\ Close.type = "CLOSE"
  BY DEF Output, Input, Close

LEMMA PacketsAre ==
  /\ \A m \in Outputs : m = Output(m.of, m.n)
  /\ \A m \in Inputs : m = Input(m.of, m.n)
  BY DEF Outputs, Inputs, Output, Input

LEMMA HeadTail ==
  ASSUME NEW S, NEW q \in Seq(S), q # <<>>
  PROVE  /\ Head(q) \in S /\ Head(q) = q[1] /\ 1 \in DOMAIN q
         /\ Tail(q) \in Seq(S) /\ Len(Tail(q)) = Len(q) - 1
         /\ Len(q) \in Nat \ {0} /\ Len(Tail(q)) \in Nat
         /\ \A i \in DOMAIN Tail(q) : i + 1 \in DOMAIN q /\ Tail(q)[i] = q[i + 1]
                                      /\ i \in Nat
  OBVIOUS

LEMMA Appending ==
  ASSUME NEW S, NEW q \in Seq(S), NEW m \in S
  PROVE  /\ Append(q, m) \in Seq(S) /\ Len(Append(q, m)) = Len(q) + 1
         /\ Len(q) \in Nat
         /\ \A i \in DOMAIN Append(q, m) :
              \/ i \in DOMAIN q /\ Append(q, m)[i] = q[i]
              \/ i = Len(q) + 1 /\ Append(q, m)[i] = m
  OBVIOUS

-----------------------------------------------------------------------------
(* Types.                                                                  *)

LEMMA OnDisconnectTyped ==
  ASSUME ConsoleTypeOK, NEW c \in Clients, OnDisconnect(c)
  PROVE  ConsoleTypeOK'
<1>1. SessionTypeOK'
  BY DEF ConsoleTypeOK, SessionTypeOK, OnDisconnect, Terminates
<1>2. tty' \in [Clients -> Modes]
  BY DEF ConsoleTypeOK, OnDisconnect, CleanExit, Modes
<1>3. isConsoleRawMode' \in [Clients -> BOOLEAN]
  BY DEF ConsoleTypeOK, OnDisconnect, CleanExit
<1>4. clientUp' \in [Clients -> {"off", "up", "exited", "crashed"}]
  BY DEF ConsoleTypeOK, OnDisconnect
<1> QED
  BY <1>1, <1>2, <1>3, <1>4 DEF ConsoleTypeOK, OnDisconnect, CleanExit

LEMMA OnOutputTyped ==
  ASSUME ConsoleTypeOK, NEW c \in Clients, NEW m \in Outputs, OnOutput(c, m)
  PROVE  ConsoleTypeOK'
<1>1. SessionTypeOK'
  BY DEF ConsoleTypeOK, SessionTypeOK, OnOutput, TakesOutput
<1>2. Append(shown[c], m) \in Seq(Outputs)
  BY Appending DEF ConsoleTypeOK
<1>3. shown' \in [Clients -> Seq(Outputs)]
  BY <1>2 DEF ConsoleTypeOK, OnOutput, Displays
<1>4. tty' \in [Clients -> Modes] /\ isConsoleRawMode' \in [Clients -> BOOLEAN]
  BY DEF ConsoleTypeOK, OnOutput, Displays, Modes
<1>5. profile' \in [Clients -> Modes \cup {"none"}]
  BY DEF ConsoleTypeOK, OnOutput, Displays, Saves
<1> QED
  BY <1>1, <1>3, <1>4, <1>5 DEF ConsoleTypeOK, OnOutput

-----------------------------------------------------------------------------
(* The client's terminal.  What was saved of it is what it was before, and *)
(* nothing touches it before the client starts.                            *)

Console ==
  /\ TerminalHandedBack
  /\ \A c \in Clients :
       /\ profile[c] # "raw"
       /\ clientUp[c] = "off" => tty[c] = "cooked" /\ ~isConsoleRawMode[c]

LEMMA ConsoleSame ==
  ASSUME Console, UNCHANGED <<clientUp, isConsoleRawMode, tty, profile>>
  PROVE  Console'
BY DEF Console, TerminalHandedBack

LEMMA ConsoleDisconnects ==
  ASSUME ConsoleTypeOK, Console, NEW c \in Clients, clientUp[c] = "up", OnDisconnect(c)
  PROVE  Console'
<1>1. tty'[c] = "cooked"
  <2>1. CASE isConsoleRawMode[c]
    <3>1. PICK mode \in {profile[c], "cooked"} \ {"none"} : tty' = [tty EXCEPT ![c] = mode]
      BY <2>1 DEF OnDisconnect, CleanExit
    <3>2. mode = "cooked"
      BY <3>1 DEF Console, ConsoleTypeOK, Modes
    <3> QED
      BY <3>1, <3>2 DEF ConsoleTypeOK
  <2>2. CASE ~isConsoleRawMode[c]
    <3>1. tty[c] = "cooked" /\ UNCHANGED tty
      BY <2>2 DEF Console, TerminalHandedBack, ConsoleTypeOK, Modes, OnDisconnect, CleanExit
    <3> QED
      BY <3>1
  <2> QED
    BY <2>1, <2>2
<1>2. /\ \A d \in Clients \ {c} : tty'[d] = tty[d] /\ clientUp'[d] = clientUp[d]
                                  /\ isConsoleRawMode'[d] = isConsoleRawMode[d]
      /\ clientUp'[c] = "exited" /\ UNCHANGED profile
  BY DEF ConsoleTypeOK, OnDisconnect, CleanExit
<1> QED
  BY <1>1, <1>2 DEF Console, TerminalHandedBack

LEMMA ConsoleDisplays ==
  ASSUME ConsoleTypeOK, Console, NEW c \in Clients, NEW m, clientUp[c] = "up", OnOutput(c, m)
  PROVE  Console'
<1>1. CASE UNCHANGED <<isConsoleRawMode, tty, profile>>
  BY <1>1, ConsoleSame DEF OnOutput
<1>2. CASE ~isConsoleRawMode[c] /\ Saves(c) /\ tty' = [tty EXCEPT ![c] = "raw"]
           /\ isConsoleRawMode' = [isConsoleRawMode EXCEPT ![c] = TRUE]
  <2>1. tty[c] = "cooked"
    BY <1>2 DEF Console, TerminalHandedBack, ConsoleTypeOK, Modes
  <2>2. \A d \in Clients : profile'[d] # "raw"
    BY <1>2, <2>1 DEF Console, ConsoleTypeOK, Saves
  <2> QED
    BY <1>2, <2>2 DEF Console, TerminalHandedBack, ConsoleTypeOK, OnOutput
<1> QED
  BY <1>1, <1>2 DEF OnOutput, Displays

LEMMA ConsoleCrashes ==
  ASSUME ConsoleTypeOK, Console, NEW c \in Clients, Crashes(c)
  PROVE  Console'
BY DEF ConsoleTypeOK, Console, TerminalHandedBack, Crashes

===============================================================================
