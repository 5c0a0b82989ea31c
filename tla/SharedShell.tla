------------------------------- MODULE SharedShell -------------------------------
(***************************************************************************)
(* What a shared terminal promises to those at its two ends, without       *)
(* channels, packets on their way, transports or session states: a user    *)
(* sees what the shell of the own session has printed, the shell hears     *)
(* what this user has typed, each of it once and in order.  Both transports *)
(* keep the promise; only one of them leaves nothing out.                  *)
(***************************************************************************)
EXTENDS Protocol

CONSTANT Lossless   \* is every output shown before the next one is

VARIABLES
  user,         \* user[c]: is the user of c not there yet, there, or gone
  shell,        \* shell[c]: the shell of c's session
  emitted,      \* emitted[c]: how much it has printed
  heard,        \* heard[c]: what it was given to read
  shown,        \* shown[c]: what the user saw of it
  sent,         \* sent[c]: how much the user typed
  isReadOnly    \* may the shell hear anyone

sharedVars == <<user, shell, emitted, heard, shown, sent, isReadOnly>>

Init ==
  /\ user \in [Clients -> {"away", "here"}]
  /\ shell = [c \in Clients |-> "none"]
  /\ emitted = [c \in Clients |-> 0]
  /\ heard = [c \in Clients |-> <<>>]
  /\ shown = [c \in Clients |-> <<>>]
  /\ sent = [c \in Clients |-> 0]
  /\ isReadOnly \in BOOLEAN

(* The n-th element may join what q has of the first "of" them: it exists, *)
(* and it comes after all of q, next to it if nothing may be left out.     *)
MayFollow(q, n, of) ==
  /\ n \in 1..of
  /\ \A i \in DOMAIN q : q[i].n < n
  /\ Lossless => n = Len(q) + 1

-----------------------------------------------------------------------------
Enter(c) ==
  /\ user[c] = "away"
  /\ user' = [user EXCEPT ![c] = "here"]
  /\ UNCHANGED <<shell, emitted, heard, shown, sent, isReadOnly>>

Leave(c) ==
  /\ user[c] # "gone"
  /\ user' = [user EXCEPT ![c] = "gone"]
  /\ UNCHANGED <<shell, emitted, heard, shown, sent, isReadOnly>>

Spawn(c) ==
  /\ shell[c] = "none"
  /\ shell' = [shell EXCEPT ![c] = "running"]
  /\ UNCHANGED <<user, emitted, heard, shown, sent, isReadOnly>>

Speak(c) ==
  /\ shell[c] = "running"
  /\ emitted' = [emitted EXCEPT ![c] = @ + 1]
  /\ UNCHANGED <<user, shell, heard, shown, sent, isReadOnly>>

Show(c, n) ==
  /\ user[c] = "here"
  /\ MayFollow(shown[c], n, emitted[c])
  /\ shown' = [shown EXCEPT ![c] = Append(@, Output(c, n))]
  /\ UNCHANGED <<user, shell, emitted, heard, sent, isReadOnly>>

Type(c) ==
  /\ user[c] = "here"
  /\ sent' = [sent EXCEPT ![c] = @ + 1]
  /\ UNCHANGED <<user, shell, emitted, heard, shown, isReadOnly>>

Hear(c, n) ==
  /\ shell[c] = "running" /\ ~isReadOnly
  /\ MayFollow(heard[c], n, sent[c])
  /\ heard' = [heard EXCEPT ![c] = Append(@, Input(c, n))]
  /\ UNCHANGED <<user, shell, emitted, shown, sent, isReadOnly>>

(* One host has all the shells; they end together.                         *)
EndShells ==
  /\ shell' = [c \in Clients |-> IF shell[c] = "running" THEN "exited" ELSE shell[c]]
  /\ UNCHANGED <<user, emitted, heard, shown, sent, isReadOnly>>

Next ==
  \/ EndShells
  \/ \E c \in Clients :
       \/ Enter(c)
       \/ Leave(c)
       \/ Spawn(c)
       \/ Speak(c)
       \/ Type(c)
       \/ \E n \in 1..emitted[c] : Show(c, n)
       \/ \E n \in 1..sent[c] : Hear(c, n)

Spec == Init /\ [][Next]_sharedVars
===============================================================================
