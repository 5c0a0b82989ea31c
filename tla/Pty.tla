----------------------------------- MODULE Pty -----------------------------------
(***************************************************************************)
(* PseudoTerminal, packages/pty-core/src/pty.ts: the shells a host spawns, *)
(* one for each session.  A host spawns an instance once and never kills   *)
(* it, so that spawn's exception and kill() do not occur.                  *)
(***************************************************************************)
EXTENDS Protocol

VARIABLES
  shell,     \* shell[c]: the shell of c's session (ptyInstance and isAlive)
  emitted,   \* emitted[c]: how much it has printed
  heard      \* heard[c]: what was written to it over the network

ptyVars == <<shell, emitted, heard>>

PtyTypeOK ==
  /\ shell \in [Clients -> {"none", "running", "exited"}]
  /\ emitted \in [Clients -> 0..MaxOutput]
  /\ heard \in [Clients -> Seq(Inputs)]

PtyInit ==
  /\ shell = [c \in Clients |-> "none"]
  /\ emitted = [c \in Clients |-> 0]
  /\ heard = [c \in Clients |-> <<>>]

-----------------------------------------------------------------------------
Spawns(c) ==
  /\ shell' = [shell EXCEPT ![c] = "running"]
  /\ UNCHANGED <<emitted, heard>>

(* write: nothing once the shell has exited.                               *)
Hears(c, input) ==
  /\ heard' = IF shell[c] = "running" THEN [heard EXCEPT ![c] = Append(@, input)] ELSE heard
  /\ UNCHANGED <<shell, emitted>>

(* The shell prints, whether or not anyone typed.                          *)
Emits(c) ==
  /\ shell[c] = "running" /\ emitted[c] < MaxOutput
  /\ emitted' = [emitted EXCEPT ![c] = @ + 1]
  /\ UNCHANGED <<shell, heard>>

(* The process that holds the shells ends, and they with it.               *)
ShellsEnd ==
  /\ shell' = [c \in Clients |-> IF shell[c] = "running" THEN "exited" ELSE shell[c]]
  /\ UNCHANGED <<emitted, heard>>
===============================================================================
