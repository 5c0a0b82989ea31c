------------------------------ MODULE ClientSession ------------------------------
(***************************************************************************)
(* ClientSession, packages/client-core/src/session.ts: the state of a      *)
(* client's session, whatever its transport and its user interface are.    *)
(* The callbacks it is given, and its transport, are the modules' that     *)
(* extend this one.                                                        *)
(***************************************************************************)
EXTENDS Protocol

VARIABLES
  session,     \* session[c]: its ClientState
  approval,    \* approval[c]: its approvalState
  listening    \* listening[c]: has it subscribed to its transport

sessionVars == <<session, approval, listening>>

SessionTypeOK ==
  /\ session \in [Clients -> {"IDLE", "CONNECTING", "ACTIVE", "CLOSED"}]
  /\ approval \in [Clients -> {"PENDING", "APPROVED", "DENIED"}]
  /\ listening \in [Clients -> BOOLEAN]

SessionInit ==
  /\ session = [c \in Clients |-> "IDLE"]
  /\ approval = [c \in Clients |-> "PENDING"]
  /\ listening = [c \in Clients |-> FALSE]

-----------------------------------------------------------------------------
(* Subscribing to the transport ("CRITICAL", line 52).  (The first form    *)
(* forgets to.)                                                            *)
Unsubscribed(c) == [listening EXCEPT ![c] = FALSE]
Subscribed(c) == [listening EXCEPT ![c] = TRUE]

StartsApproved(c) ==
  /\ session[c] = "IDLE"
  /\ session' = [session EXCEPT ![c] = "ACTIVE"]
  /\ approval' = [approval EXCEPT ![c] = "APPROVED"]
  /\ listening' = Subscribed(c)

(* start: the caller sends the KNOCK.                                      *)
Starts(c) ==
  /\ session[c] = "IDLE"
  /\ session' = [session EXCEPT ![c] = "CONNECTING"]
  /\ listening' = Subscribed(c)
  /\ UNCHANGED approval

(* sendInput writes to the transport only in this state.                   *)
MaySend(c) == session[c] = "ACTIVE"

(* handleIncomingPacket, OUTPUT: the first one is the approval.            *)
TakesOutput(c) ==
  /\ IF session[c] = "CONNECTING"
     THEN /\ session' = [session EXCEPT ![c] = "ACTIVE"]
          /\ approval' = [approval EXCEPT ![c] = "APPROVED"]
     ELSE UNCHANGED <<session, approval>>
  /\ UNCHANGED listening

(* terminateSession, for a CLOSE packet, a closed transport, or close().   *)
Terminates(c) ==
  /\ session[c] # "CLOSED"
  /\ session' = [session EXCEPT ![c] = "CLOSED"]
  /\ approval' = [approval EXCEPT ![c] = IF session[c] = "CONNECTING" THEN "DENIED" ELSE @]
  /\ listening' = [listening EXCEPT ![c] = FALSE]
===============================================================================
