----------------------------- MODULE StreamingProofs -----------------------------
(***************************************************************************)
(* What flows through the sessions of a host, for any number of clients    *)
(* and any amount of input and output: types, then one invariant for each  *)
(* direction of a channel, and one for the client's terminal.              *)
(***************************************************************************)
EXTENDS Streaming, SessionProofs

-----------------------------------------------------------------------------
(* A queue that carries the elements of f from the n-th on, up to a last   *)
(* one that says so: it goes on so when the next one joins it, and when    *)
(* the first one has been taken.                                           *)
Carries(q, f, n, last) ==
  \A i \in DOMAIN q : IF q[i] = last THEN i = Len(q) ELSE q[i] = f[n + i]

First(q, f, n, last) == IF Head(q) = last THEN Tail(q) = <<>> ELSE Head(q) = f[n + 1]

LEMMA CarriesMore ==
  ASSUME NEW S, NEW f, NEW last, NEW n \in Nat, NEW q \in Seq(S), NEW m \in S,
         \A i \in DOMAIN q : q[i] # last,
         Carries(q, f, n, last), m = f[(n + Len(q)) + 1], m # last
  PROVE  /\ Carries(Append(q, m), f, n, last)
         /\ \A i \in DOMAIN Append(q, m) : Append(q, m)[i] # last
<1> SUFFICES ASSUME NEW i \in DOMAIN Append(q, m)
             PROVE  Append(q, m)[i] # last /\ Append(q, m)[i] = f[n + i]
  BY DEF Carries
<1>1. \/ i \in DOMAIN q /\ Append(q, m)[i] = q[i]
      \/ i = Len(q) + 1 /\ Append(q, m)[i] = m
  BY Appending
<1>2. CASE i \in DOMAIN q /\ Append(q, m)[i] = q[i]
  BY <1>2 DEF Carries
<1>3. CASE i = Len(q) + 1 /\ Append(q, m)[i] = m
  <2>1. n + i = (n + Len(q)) + 1
    BY <1>3
  <2> QED
    BY <1>3, <2>1
<1> QED
  BY <1>1, <1>2, <1>3

LEMMA CarriesLast ==
  ASSUME NEW S, NEW f, NEW last \in S, NEW n, NEW q \in Seq(S),
         \A i \in DOMAIN q : q[i] # last,
         Carries(q, f, n, last)
  PROVE  Carries(Append(q, last), f, n, last)
BY Appending DEF Carries

LEMMA CarriesFirst ==
  ASSUME NEW S, NEW f, NEW last, NEW n \in Nat, NEW q \in Seq(S), q # <<>>,
         Carries(q, f, n, last)
  PROVE  First(q, f, n, last)
<1>1. Head(q) # last => Head(q) = f[n + 1]
  BY HeadTail DEF Carries
<1>2. ASSUME Head(q) = last PROVE Tail(q) = <<>>
  <2>1. Len(q) = 1
    BY <1>2, HeadTail DEF Carries
  <2>2. Tail(q) \in Seq(S) /\ Len(Tail(q)) = Len(q) - 1
    BY HeadTail
  <2> DEFINE t == Tail(q)
  <2>3. t \in Seq(S) /\ Len(t) = 0
    BY <2>1, <2>2
  <2> HIDE DEF t
  <2>4. t = <<>>
    BY <2>3
  <2> QED
    BY <2>4 DEF t
<1> QED
  BY <1>1, <1>2 DEF First

LEMMA CarriesRest ==
  ASSUME NEW S, NEW f, NEW last, NEW n \in Nat, NEW q \in Seq(S), q # <<>>,
         Carries(q, f, n, last)
  PROVE  Carries(Tail(q), f, n + 1, last)
<1> SUFFICES ASSUME NEW i \in DOMAIN Tail(q)
             PROVE  IF Tail(q)[i] = last THEN i = Len(Tail(q))
                    ELSE Tail(q)[i] = f[(n + 1) + i]
  BY DEF Carries
<1>1. /\ i + 1 \in DOMAIN q /\ Tail(q)[i] = q[i + 1] /\ i \in Nat
      /\ Len(Tail(q)) = Len(q) - 1 /\ Len(q) \in Nat
  BY HeadTail
<1>2. n + (i + 1) = (n + 1) + i
  BY <1>1
<1>3. IF q[i + 1] = last THEN i + 1 = Len(q) ELSE q[i + 1] = f[n + (i + 1)]
  BY <1>1 DEF Carries
<1>4. CASE q[i + 1] = last
  <2>1. i + 1 = Len(q)
    BY <1>3, <1>4
  <2>2. i \in Nat /\ Len(q) \in Nat /\ Len(Tail(q)) = Len(q) - 1
    BY <1>1
  <2> DEFINE k == Len(q)
  <2> HIDE DEF k
  <2>3. i = k - 1
    BY <2>1, <2>2 DEF k
  <2> QED
    BY <1>1, <1>4, <2>2, <2>3 DEF k
<1>5. CASE q[i + 1] # last
  BY <1>1, <1>2, <1>3, <1>5
<1> QED
  BY <1>4, <1>5

-----------------------------------------------------------------------------
(* Types.                                                                  *)

ChannelTyped ==
  /\ hostUp \in BOOLEAN /\ isApproving \in BOOLEAN /\ isReadOnly \in BOOLEAN
  /\ hostEnd \in [Clients -> {"none", "new", "open", "closed"}]
  /\ clientEnd \in [Clients -> {"none", "open", "closed"}]
  /\ down \in [Clients -> Seq(ToClient)]
  /\ up \in [Clients -> Seq(Inputs \cup {Close})]

LEMMA TypeParts == TypeOK <=> PtyTypeOK /\ ConsoleTypeOK /\ ChannelTyped
  BY DEF TypeOK, ChannelTyped

LEMMA SentTyped ==
  ASSUME TypeOK, NEW c \in Clients
  PROVE  /\ \A m \in ToClient : SentDown(c, m) \in [Clients -> Seq(ToClient)]
         /\ \A m \in Inputs \cup {Close} :
              SentUp(c, m) \in [Clients -> Seq(Inputs \cup {Close})]
<1>1. ASSUME NEW m \in ToClient PROVE SentDown(c, m) \in [Clients -> Seq(ToClient)]
  <2>1. Append(down[c], m) \in Seq(ToClient)
    BY Appending DEF TypeOK
  <2> QED
    BY <2>1 DEF TypeOK, SentDown
<1>2. ASSUME NEW m \in Inputs \cup {Close}
      PROVE  SentUp(c, m) \in [Clients -> Seq(Inputs \cup {Close})]
  <2>1. Append(up[c], m) \in Seq(Inputs \cup {Close})
    BY Appending DEF TypeOK
  <2> QED
    BY <2>1 DEF TypeOK, SentUp
<1> QED
  BY <1>1, <1>2

LEMMA HostGoneTyped ==
  ASSUME TypeOK, HostGone, down' \in [Clients -> Seq(ToClient)]
  PROVE  TypeOK'
<1>1. PtyTypeOK'
  BY DEF TypeOK, HostGone, ShellsEnd, PtyTypeOK
<1>2. ConsoleTypeOK'
  BY DEF TypeOK, HostGone, consoleVars, sessionVars, ConsoleTypeOK, SessionTypeOK
<1>3. ChannelTyped'
  BY DEF TypeOK, HostGone, ChannelTyped
<1> QED
  BY <1>1, <1>2, <1>3 DEF TypeOK, ChannelTyped

LEMMA HostStepTyped ==
  ASSUME TypeOK, HostNext
  PROVE  TypeOK'
<1>1. ASSUME NEW c \in Clients, HostAdmits(c) \/ HostOnClosed(c) PROVE TypeOK'
  <2>1. UNCHANGED <<ptyVars, consoleVars>>
    BY <1>1 DEF HostAdmits, HostOnClosed
  <2>2. PtyTypeOK' /\ ConsoleTypeOK'
    BY <2>1 DEF TypeOK, ptyVars, consoleVars, sessionVars, PtyTypeOK, ConsoleTypeOK,
       SessionTypeOK
  <2>3. ChannelTyped'
    BY <1>1 DEF TypeOK, ChannelTyped, HostAdmits, HostOnClosed, Unlocked
  <2> QED
    BY <2>2, <2>3 DEF TypeOK, ChannelTyped
<1>2. ASSUME NEW c \in Clients, HostOpens(c) PROVE TypeOK'
  <2>1. PtyTypeOK'
    BY <1>2 DEF TypeOK, HostOpens, Spawns, PtyTypeOK
  <2>2. ConsoleTypeOK'
    BY <1>2 DEF TypeOK, HostOpens, consoleVars, sessionVars, ConsoleTypeOK, SessionTypeOK
  <2>3. ChannelTyped'
    BY <1>2 DEF TypeOK, ChannelTyped, HostOpens, hostVars
  <2> QED
    BY <2>1, <2>2, <2>3 DEF TypeOK, ChannelTyped
<1>3. ASSUME NEW c \in Clients, ShellPrints(c) PROVE TypeOK'
  <2>1. emitted[c] + 1 \in 1..MaxOutput
    BY <1>3, ProtocolAssumption DEF TypeOK, PtyTypeOK, ShellPrints, Emits
  <2>2. PtyTypeOK'
    BY <1>3, <2>1 DEF TypeOK, ShellPrints, Emits, PtyTypeOK
  <2>3. ConsoleTypeOK'
    BY <1>3 DEF TypeOK, ShellPrints, consoleVars, sessionVars, ConsoleTypeOK, SessionTypeOK
  <2>4. Output(c, emitted[c] + 1) \in ToClient
    BY <2>1, PacketsTyped
  <2>5. down' \in [Clients -> Seq(ToClient)]
    BY <1>3, <2>4, SentTyped DEF ShellPrints, Recipient
  <2>6. ChannelTyped'
    BY <1>3, <2>5 DEF TypeOK, ChannelTyped, ShellPrints, hostVars
  <2> QED
    BY <2>2, <2>3, <2>6 DEF TypeOK, ChannelTyped
<1>4. ASSUME NEW c \in Clients, HostReceives(c) PROVE TypeOK'
  <2>1. Head(up[c]) \in Inputs \cup {Close} /\ Tail(up[c]) \in Seq(Inputs \cup {Close})
    BY <1>4, HeadTail DEF TypeOK, HostReceives
  <2>2. MayWrite(Head(up[c])) => Head(up[c]) \in Inputs
    BY <2>1, PacketKinds DEF MayWrite
  <2>3. ASSUME NEW m \in Inputs, Hears(c, m) PROVE PtyTypeOK'
    <3>1. Append(heard[c], m) \in Seq(Inputs)
      BY Appending DEF TypeOK, PtyTypeOK
    <3> QED
      BY <2>3, <3>1 DEF TypeOK, PtyTypeOK, Hears
  <2>4. UNCHANGED ptyVars => PtyTypeOK'
    BY DEF TypeOK, PtyTypeOK, ptyVars
  <2>5. PtyTypeOK'
    BY <1>4, <2>2, <2>3, <2>4 DEF HostReceives
  <2>6. ConsoleTypeOK'
    BY <1>4 DEF TypeOK, HostReceives, consoleVars, sessionVars, ConsoleTypeOK, SessionTypeOK
  <2>7. ChannelTyped'
    BY <1>4, <2>1 DEF TypeOK, ChannelTyped, HostReceives, hostVars
  <2> QED
    BY <2>5, <2>6, <2>7 DEF TypeOK, ChannelTyped
<1>5. ASSUME NEW c \in Clients, ShellExits(c) PROVE TypeOK'
  BY <1>5, SentTyped, PacketsTyped, HostGoneTyped DEF ShellExits
<1>6. CASE HostDies
  BY <1>6, HostGoneTyped DEF HostDies, TypeOK
<1> QED
  BY <1>1, <1>2, <1>3, <1>4, <1>5, <1>6 DEF HostNext

LEMMA ClientStepTyped ==
  ASSUME TypeOK, ClientNext
  PROVE  TypeOK'
<1>1. PICK c \in Clients :
        \/ ClientOpens(c) \/ ClientStarts(c) \/ ClientReceives(c) \/ ClientOnClosed(c)
        \/ ClientTypes(c) \/ ClientDetaches(c) \/ ClientCrashes(c)
  BY DEF ClientNext
<1>2. UNCHANGED <<ptyVars, hostVars, hostEnd>>
  BY <1>1 DEF ClientOpens, ClientStarts, ClientReceives, ClientOnClosed, ClientTypes,
     ClientDetaches, ClientCrashes
<1>3. PtyTypeOK'
  BY <1>2 DEF TypeOK, PtyTypeOK, ptyVars
<1>4. clientEnd' \in [Clients -> {"none", "open", "closed"}]
  <2>1. \/ clientEnd' = [clientEnd EXCEPT ![c] = "open"]
        \/ clientEnd' = [clientEnd EXCEPT ![c] = "closed"]
        \/ UNCHANGED clientEnd
    BY <1>1 DEF ClientOpens, ClientStarts, ClientReceives, ClientOnClosed, ClientTypes,
       ClientDetaches, ClientCrashes, ClientGone
  <2> QED
    BY <2>1 DEF TypeOK
<1>5. down' \in [Clients -> Seq(ToClient)]
  <2>1. CASE ClientReceives(c)
    <3>1. Tail(down[c]) \in Seq(ToClient)
      BY <2>1, HeadTail DEF TypeOK, ClientReceives
    <3> QED
      BY <2>1, <3>1 DEF TypeOK, ClientReceives
  <2>2. CASE ~ClientReceives(c)
    BY <1>1, <2>2 DEF TypeOK, ClientOpens, ClientStarts, ClientOnClosed, ClientTypes,
       ClientDetaches, ClientCrashes
  <2> QED
    BY <2>1, <2>2
<1>6. up' \in [Clients -> Seq(Inputs \cup {Close})]
  <2>1. CASE ClientTypes(c)
    <3>1. sent[c] + 1 \in 1..MaxInput
      BY <2>1, ProtocolAssumption DEF TypeOK, ConsoleTypeOK, ClientTypes, Types
    <3>2. Input(c, sent[c] + 1) \in Inputs
      BY <3>1, PacketsTyped
    <3> QED
      BY <2>1, <3>2, SentTyped DEF ClientTypes
  <2>2. CASE ClientDetaches(c)
    BY <2>2, SentTyped DEF ClientDetaches
  <2>3. CASE ~ClientTypes(c) /\ ~ClientDetaches(c)
    BY <1>1, <2>3 DEF TypeOK, ClientOpens, ClientStarts, ClientReceives, ClientOnClosed,
       ClientCrashes
  <2> QED
    BY <2>1, <2>2, <2>3
<1>7. ConsoleTypeOK'
  <2>1. CASE ClientStarts(c)
    BY <2>1 DEF TypeOK, ConsoleTypeOK, SessionTypeOK, ClientStarts, StartsApproved, Subscribed
  <2>6. CASE ClientOpens(c)
    BY <2>6 DEF TypeOK, ConsoleTypeOK, SessionTypeOK, sessionVars, consoleVars, ClientOpens
  <2>2. CASE ClientReceives(c)
    <3>1. Head(down[c]) \in ToClient
      BY <2>2, HeadTail DEF TypeOK, ClientReceives
    <3>2. Head(down[c]).type = "OUTPUT" => Head(down[c]) \in Outputs
      BY <3>1, PacketsTyped, PacketKinds
    <3>3. \/ UNCHANGED consoleVars
          \/ OnDisconnect(c)
          \/ Head(down[c]) \in Outputs /\ OnOutput(c, Head(down[c]))
      BY <2>2, <3>2 DEF ClientReceives
    <3>4. CASE UNCHANGED consoleVars
      BY <3>4 DEF TypeOK, consoleVars, sessionVars, ConsoleTypeOK, SessionTypeOK
    <3> QED
      BY <3>3, <3>4, OnDisconnectTyped, OnOutputTyped DEF TypeOK
  <2>3. CASE ClientOnClosed(c) \/ ClientDetaches(c)
    BY <2>3, OnDisconnectTyped DEF TypeOK, ClientOnClosed, ClientDetaches
  <2>4. CASE ClientTypes(c)
    <3>1. sent[c] + 1 \in 0..MaxInput
      BY <2>4, ProtocolAssumption DEF TypeOK, ConsoleTypeOK, ClientTypes, Types
    <3> QED
      BY <2>4, <3>1 DEF TypeOK, ConsoleTypeOK, SessionTypeOK, sessionVars, ClientTypes, Types
  <2>5. CASE ClientCrashes(c)
    BY <2>5 DEF TypeOK, ConsoleTypeOK, SessionTypeOK, sessionVars, ClientCrashes, Crashes
  <2> QED
    BY <1>1, <2>1, <2>2, <2>3, <2>4, <2>5, <2>6
<1> QED
  BY <1>2, <1>3, <1>4, <1>5, <1>6, <1>7 DEF TypeOK, hostVars

LEMMA StutterTyped ==
  ASSUME TypeOK, UNCHANGED vars
  PROVE  TypeOK'
<1>1. PtyTypeOK' /\ ConsoleTypeOK'
  BY DEF TypeOK, vars, ptyVars, consoleVars, sessionVars, PtyTypeOK, ConsoleTypeOK,
     SessionTypeOK
<1> QED
  BY <1>1 DEF TypeOK, vars

LEMMA InitTyped == Init => TypeOK
<1> SUFFICES ASSUME Init PROVE TypeOK
  OBVIOUS
<1>1. PtyTypeOK
  BY ProtocolAssumption DEF Init, PtyInit, PtyTypeOK
<1>2. ConsoleTypeOK
  BY ProtocolAssumption DEF Init, ConsoleInit, SessionInit, ConsoleTypeOK, SessionTypeOK, Modes
<1>3. <<>> \in Seq(ToClient) /\ <<>> \in Seq(Inputs \cup {Close})
  OBVIOUS
<1>4. ChannelTyped
  BY <1>3 DEF Init, ChannelTyped
<1> QED
  BY <1>1, <1>2, <1>4 DEF TypeOK, ChannelTyped

(* Every variable keeps its type.                                          *)
THEOREM TypeCorrect == Spec => []TypeOK
<1>1. TypeOK /\ [Next]_vars => TypeOK'
  BY HostStepTyped, ClientStepTyped, StutterTyped DEF Next
<1> QED
  BY <1>1, InitTyped, PTL DEF Spec

-----------------------------------------------------------------------------
(* The invariant of the streams, a conjunction for each client.            *)

(* Nothing has flowed before an end is there, and an open end works; that  *)
(* of a client once its session has started.                               *)
Ends(c) ==
  /\ hostEnd[c] \in {"none", "new"} =>
       shell[c] = "none" /\ emitted[c] = 0 /\ down[c] = <<>> /\ shown[c] = <<>>
  /\ hostEnd[c] = "open" => shell[c] = "running"
  /\ clientEnd[c] = "none" => up[c] = <<>> /\ sent[c] = 0 /\ session[c] = "IDLE"
  /\ clientEnd[c] = "open" /\ session[c] # "IDLE" => listening[c]

(* CLOSE is the last packet on its way, from an end that is closed.        *)
Printed(c) == [n \in Nat |-> Output(c, n)]
Typed(c) == [n \in Nat |-> Input(c, n)]

Downstream(c) ==
  /\ \A i \in DOMAIN shown[c] : shown[c][i] = Output(c, i)
  /\ Carries(down[c], Printed(c), Len(shown[c]), Close)
  /\ hostEnd[c] # "closed" => \A i \in DOMAIN down[c] : down[c][i] # Close
  /\ BothOpen(c) => Len(shown[c]) + Len(down[c]) = emitted[c]

Upstream(c) ==
  /\ \A i \in DOMAIN heard[c] : heard[c][i] = Input(c, i)
  /\ isReadOnly => heard[c] = <<>>
  /\ clientEnd[c] # "closed" => \A i \in DOMAIN up[c] : up[c][i] # Close
  /\ ~isReadOnly => Carries(up[c], Typed(c), Len(heard[c]), Close)
  /\ hostEnd[c] # "closed" /\ clientEnd[c] # "closed" /\ ~isReadOnly
       => Len(heard[c]) + Len(up[c]) = sent[c]

Flows(c) == Ends(c) /\ (c \in Terminals => Downstream(c)) /\ Upstream(c)

Inv == TypeOK /\ \A c \in Clients : Flows(c)

(* What Flows(c) depends on.                                               *)
Same(c) ==
  /\ shell'[c] = shell[c] /\ emitted'[c] = emitted[c] /\ heard'[c] = heard[c]
  /\ session'[c] = session[c] /\ listening'[c] = listening[c]
  /\ shown'[c] = shown[c] /\ sent'[c] = sent[c]
  /\ hostEnd'[c] = hostEnd[c] /\ clientEnd'[c] = clientEnd[c]
  /\ down'[c] = down[c] /\ up'[c] = up[c]
  /\ isReadOnly' = isReadOnly

LEMMA SameFlows ==
  ASSUME NEW c \in Clients, Flows(c), Same(c)
  PROVE  Flows(c)'
<1>1. Ends(c)'
  BY DEF Flows, Same, Ends
<1>2. c \in Terminals => Downstream(c)'
  BY DEF Flows, Same, Downstream, BothOpen
<1>3. Upstream(c)'
  BY DEF Flows, Same, Upstream
<1> QED
  BY <1>1, <1>2, <1>3 DEF Flows

(* A step of one session leaves the others alone.                          *)
HostSteps(d) ==
  HostAdmits(d) \/ HostOpens(d) \/ ShellPrints(d) \/ HostReceives(d) \/ HostOnClosed(d)
ClientSteps(d) ==
  \/ ClientOpens(d) \/ ClientStarts(d) \/ ClientReceives(d) \/ ClientOnClosed(d)
  \/ ClientTypes(d) \/ ClientDetaches(d) \/ ClientCrashes(d)

LEMMA HostStepElsewhere ==
  ASSUME TypeOK, NEW c \in Clients, NEW d \in Clients, c # d, HostSteps(d)
  PROVE  Same(c)
<1>1. CASE HostAdmits(d) \/ HostOnClosed(d)
  BY <1>1 DEF TypeOK, Same, HostAdmits, HostOnClosed, ptyVars, consoleVars, sessionVars
<1>2. CASE HostOpens(d)
  BY <1>2 DEF TypeOK, PtyTypeOK, Same, HostOpens, Spawns, hostVars, consoleVars, sessionVars
<1>3. CASE ShellPrints(d)
  BY <1>3 DEF TypeOK, PtyTypeOK, Same, ShellPrints, Emits, Recipient, SentDown, hostVars,
     consoleVars, sessionVars
<1>4. CASE HostReceives(d)
  BY <1>4 DEF TypeOK, PtyTypeOK, Same, HostReceives, Hears, ptyVars, hostVars, consoleVars,
     sessionVars
<1> QED
  BY <1>1, <1>2, <1>3, <1>4 DEF HostSteps

LEMMA ClientStepElsewhere ==
  ASSUME TypeOK, NEW c \in Clients, NEW d \in Clients, c # d, ClientSteps(d)
  PROVE  Same(c)
<1> USE DEF TypeOK, ConsoleTypeOK, SessionTypeOK, Same, ptyVars, hostVars
<1>1. CASE ClientOpens(d) \/ ClientStarts(d)
  BY <1>1 DEF ClientOpens, ClientStarts, StartsApproved, Subscribed, consoleVars, sessionVars
<1>2. ASSUME OnDisconnect(d)
      PROVE  /\ session'[c] = session[c] /\ listening'[c] = listening[c]
             /\ UNCHANGED <<shown, sent>>
  BY <1>2 DEF OnDisconnect, Terminates
<1>3. CASE ClientReceives(d)
  <2>1. UNCHANGED consoleVars => UNCHANGED <<session, listening, shown, sent>>
    BY DEF consoleVars, sessionVars
  <2>2. OnOutput(d, Head(down[d])) =>
          /\ UNCHANGED <<listening, sent>>
          /\ session'[c] = session[c] /\ shown'[c] = shown[c]
    BY DEF OnOutput, TakesOutput, Displays
  <2> QED
    BY <1>2, <1>3, <2>1, <2>2 DEF ClientReceives, ClientGone
<1>4. CASE ClientOnClosed(d)
  BY <1>2, <1>4 DEF ClientOnClosed, ClientGone
<1>5. CASE ClientTypes(d)
  BY <1>5 DEF ClientTypes, Types, SentUp, sessionVars
<1>6. CASE ClientDetaches(d)
  BY <1>2, <1>6 DEF ClientDetaches, ClientGone, SentUp
<1>7. CASE ClientCrashes(d)
  BY <1>7 DEF ClientCrashes, Crashes, ClientGone, sessionVars
<1> QED
  BY <1>1, <1>3, <1>4, <1>5, <1>6, <1>7 DEF ClientSteps

(* Each step keeps the invariant of the session it is of.                  *)

LEMMA AdmitsFlows ==
  ASSUME TypeOK, NEW c \in Clients, Flows(c), HostAdmits(c)
  PROVE  Flows(c)'
<1>1. /\ hostEnd[c] = "none" /\ hostEnd'[c] = "new"
      /\ UNCHANGED <<shell, emitted, heard, session, listening, shown, sent, clientEnd, down,
                     up, isReadOnly>>
  BY DEF TypeOK, HostAdmits, ptyVars, consoleVars, sessionVars
<1> QED
  BY <1>1 DEF Flows, Ends, Downstream, Upstream, BothOpen

LEMMA OpensFlows ==
  ASSUME TypeOK, NEW c \in Clients, Flows(c), HostOpens(c)
  PROVE  Flows(c)'
<1>1. /\ hostEnd[c] = "new" /\ hostEnd'[c] = "open" /\ shell'[c] = "running"
      /\ UNCHANGED <<emitted, heard, session, listening, shown, sent, clientEnd, down, up,
                     isReadOnly>>
  BY DEF TypeOK, PtyTypeOK, HostOpens, Spawns, hostVars, consoleVars, sessionVars
<1>2. emitted[c] = 0 /\ down[c] = <<>> /\ shown[c] = <<>>
  BY <1>1 DEF Flows, Ends
<1>3. Len(shown[c]) + Len(down[c]) = emitted[c]
  BY <1>2
<1>4. c \in Terminals => Downstream(c)'
  BY <1>1, <1>3 DEF Flows, Downstream, BothOpen
<1>5. Ends(c)' /\ Upstream(c)'
  BY <1>1 DEF Flows, Ends, Upstream
<1> QED
  BY <1>4, <1>5 DEF Flows

LEMMA ClosesFlows ==
  ASSUME TypeOK, NEW c \in Clients, Flows(c), HostOnClosed(c)
  PROVE  Flows(c)'
<1>1. /\ hostEnd[c] = "open" /\ hostEnd'[c] = "closed"
      /\ UNCHANGED <<shell, emitted, heard, session, listening, shown, sent, clientEnd, down,
                     up, isReadOnly>>
  BY DEF TypeOK, HostOnClosed, ptyVars, consoleVars, sessionVars
<1> QED
  BY <1>1 DEF Flows, Ends, Downstream, Upstream, BothOpen

LEMMA PrintsFlows ==
  ASSUME TypeOK, NEW c \in Clients, Flows(c), ShellPrints(c)
  PROVE  Flows(c)'
<1>1. /\ shell[c] = "running" /\ emitted'[c] = emitted[c] + 1
      /\ down' = SentDown(c, Output(c, emitted[c] + 1))
      /\ UNCHANGED <<shell, heard, session, listening, shown, sent, hostEnd, clientEnd, up,
                     isReadOnly>>
  BY DEF TypeOK, PtyTypeOK, ShellPrints, Emits, Recipient, hostVars, consoleVars, sessionVars
<1>2. hostEnd[c] \notin {"none", "new"}
  BY <1>1 DEF Flows, Ends
<1>3. Ends(c)' /\ Upstream(c)'
  BY <1>1, <1>2 DEF Flows, Ends, Upstream
<1>4. CASE ~BothOpen(c)
  <2>1. down' = down
    BY <1>1, <1>4 DEF SentDown, BothOpen
  <2> QED
    BY <1>1, <1>3, <1>4, <2>1 DEF Flows, Downstream, BothOpen
<1>5. CASE BothOpen(c)
  <2>1. down'[c] = Append(down[c], Output(c, emitted[c] + 1))
    BY <1>1, <1>5 DEF TypeOK, SentDown, BothOpen
  <2>2. emitted[c] + 1 \in 1..MaxOutput
    BY ProtocolAssumption DEF TypeOK, PtyTypeOK, ShellPrints, Emits
  <2>3. Output(c, emitted[c] + 1) \in ToClient /\ Output(c, emitted[c] + 1) # Close
    BY <2>2, PacketsTyped, PacketKinds
  <2> SUFFICES ASSUME c \in Terminals PROVE Downstream(c)'
    BY <1>3 DEF Flows
  <2> DEFINE n == Len(shown[c])
             q == down[c]
             m == Output(c, emitted[c] + 1)
  <2>4. n + Len(q) = emitted[c] /\ hostEnd[c] = "open"
    BY <1>5 DEF Flows, Downstream, BothOpen
  <2>5. n \in Nat /\ emitted[c] \in Nat /\ q \in Seq(ToClient)
    BY ProtocolAssumption DEF TypeOK, PtyTypeOK, ConsoleTypeOK
  <2>6. m = Printed(c)[(n + Len(q)) + 1]
    <3>1. Printed(c)[emitted[c] + 1] = Output(c, emitted[c] + 1)
      BY <2>5 DEF Printed
    <3> QED
      BY <2>4, <3>1
  <2>7. Carries(q, Printed(c), n, Close) /\ \A i \in DOMAIN q : q[i] # Close
    BY <2>4 DEF Flows, Downstream
  <2>8. /\ Carries(Append(q, m), Printed(c), n, Close)
        /\ \A i \in DOMAIN Append(q, m) : Append(q, m)[i] # Close
    <3> HIDE DEF n, q, m
    <3> QED
      BY <2>3, <2>5, <2>6, <2>7, CarriesMore DEF m
  <2>9. n + Len(Append(q, m)) = emitted[c] + 1
    <3>1. Len(Append(q, m)) = Len(q) + 1 /\ Len(q) \in Nat
      BY <2>3, <2>5, Appending
    <3> HIDE DEF n, q, m
    <3> QED
      BY <2>4, <2>5, <3>1
  <2> QED
    BY <1>1, <2>1, <2>8, <2>9 DEF Flows, Downstream
<1> QED
  BY <1>4, <1>5

LEMMA HostReceivesFlows ==
  ASSUME TypeOK, NEW c \in Clients, Flows(c), HostReceives(c)
  PROVE  Flows(c)'
<1> DEFINE m == Head(up[c])
<1>1. /\ hostEnd[c] = "open" /\ up'[c] = Tail(up[c]) /\ up[c] # <<>>
      /\ UNCHANGED <<shell, emitted, session, listening, shown, sent, hostEnd, clientEnd, down,
                     isReadOnly>>
      /\ heard' = IF MayWrite(m) THEN [heard EXCEPT ![c] = Append(@, m)] ELSE heard
  BY DEF TypeOK, PtyTypeOK, Flows, Ends, HostReceives, Hears, ptyVars, hostVars,
     consoleVars, sessionVars
<1>2. Ends(c)' /\ (c \in Terminals => Downstream(c)')
  BY <1>1 DEF Flows, Ends, Downstream, BothOpen
<1>3. CASE isReadOnly
  BY <1>1, <1>2, <1>3 DEF Flows, Upstream, MayWrite
<1>4. CASE ~isReadOnly
  <2> DEFINE n == Len(heard[c])
             q == up[c]
  <2>1. n \in Nat /\ heard[c] \in Seq(Inputs) /\ q \in Seq(Inputs \cup {Close}) /\ q # <<>>
    BY <1>1 DEF TypeOK, PtyTypeOK
  <2>2. Carries(q, Typed(c), n, Close)
    BY <1>4 DEF Flows, Upstream
  <2>3. /\ Carries(Tail(q), Typed(c), n + 1, Close)
        /\ m # Close => m = Typed(c)[n + 1]
        /\ m = Close => Tail(q) = <<>>
    <3> DEFINE S == Inputs \cup {Close}
    <3>1. m = Head(q) /\ q \in Seq(S) /\ q # <<>> /\ n \in Nat
      BY <2>1
    <3> HIDE DEF n, q, m, S
    <3>2. Carries(Tail(q), Typed(c), n + 1, Close)
      BY <2>2, <3>1, CarriesRest
    <3>3. First(q, Typed(c), n, Close)
      BY <2>2, <3>1, CarriesFirst
    <3> QED
      BY <3>1, <3>2, <3>3 DEF First
  <2>4. /\ m \in Inputs \cup {Close} /\ m = q[1] /\ 1 \in DOMAIN q
        /\ Len(Tail(q)) = Len(q) - 1 /\ Len(q) \in Nat
        /\ \A i \in DOMAIN Tail(q) : i + 1 \in DOMAIN q /\ Tail(q)[i] = q[i + 1]
    BY <2>1, HeadTail
  <2>5. clientEnd[c] # "closed" => m # Close /\ \A i \in DOMAIN Tail(q) : Tail(q)[i] # Close
    BY <2>4 DEF Flows, Upstream
  <2>6. CASE m = Close
    <3>1. heard' = heard
      BY <1>1, <2>6, PacketKinds DEF MayWrite
    <3>2. up'[c] = <<>> /\ clientEnd[c] = "closed"
      BY <1>1, <2>3, <2>5, <2>6
    <3>3. Carries(up'[c], Typed(c), n, Close)
      BY <3>2 DEF Carries
    <3>4. Upstream(c)'
      BY <1>1, <1>4, <3>1, <3>2, <3>3 DEF Flows, Upstream, Typed
    <3> QED
      BY <1>2, <3>4 DEF Flows
  <2>7. CASE m # Close
    <3>1. m = Input(c, n + 1)
      BY <2>1, <2>3, <2>7 DEF Typed
    <3>2. m \in Inputs /\ MayWrite(m)
      BY <1>4, <2>4, <2>7, <3>1, PacketKinds DEF MayWrite
    <3>3. heard'[c] = Append(heard[c], m)
      BY <1>1, <3>2 DEF TypeOK, PtyTypeOK
    <3>4. /\ Len(heard'[c]) = n + 1
          /\ \A i \in DOMAIN heard'[c] : heard'[c][i] = Input(c, i)
      BY <2>1, <3>1, <3>2, <3>3, Appending DEF Flows, Upstream
    <3>5. ASSUME hostEnd[c] # "closed", clientEnd[c] # "closed"
          PROVE  (n + 1) + Len(Tail(q)) = sent[c]
      <4>1. n + Len(q) = sent[c]
        BY <1>4, <3>5 DEF Flows, Upstream
      <4> HIDE DEF n, q
      <4> QED
        BY <2>1, <2>4, <4>1
    <3>6. Upstream(c)'
      BY <1>1, <1>4, <2>3, <2>5, <3>4, <3>5 DEF Upstream, Typed
    <3> QED
      BY <1>2, <3>6 DEF Flows
  <2> QED
    BY <2>6, <2>7
<1> QED
  BY <1>3, <1>4

(* The host's process ends: every open end closes, one of them, at most,   *)
(* with a CLOSE packet.                                                    *)
LEMMA HostGoneFlows ==
  ASSUME TypeOK, NEW c \in Clients, Flows(c), HostGone,
         \/ down'[c] = down[c]
         \/ hostEnd[c] = "open" /\ down'[c] = Append(down[c], Close)
  PROVE  Flows(c)'
<1>1. /\ UNCHANGED <<emitted, heard, session, listening, shown, sent, clientEnd, up,
                     isReadOnly>>
      /\ hostEnd'[c] = IF hostEnd[c] = "none" THEN "none" ELSE "closed"
      /\ shell'[c] = IF shell[c] = "running" THEN "exited" ELSE shell[c]
  BY DEF TypeOK, PtyTypeOK, HostGone, ShellsEnd, consoleVars, sessionVars
<1>2. Ends(c)'
  BY <1>1 DEF Flows, Ends
<1>3. Upstream(c)'
  BY <1>1 DEF Flows, Upstream
<1>4. ASSUME c \in Terminals PROVE Downstream(c)'
  <2> DEFINE n == Len(shown[c])
             q == down[c]
  <2>1. Carries(down'[c], Printed(c), n, Close)
    <3>1. Carries(q, Printed(c), n, Close)
      BY <1>4 DEF Flows, Downstream
    <3>2. CASE hostEnd[c] = "open" /\ down'[c] = Append(q, Close)
      <4>1. q \in Seq(ToClient) /\ \A i \in DOMAIN q : q[i] # Close
        BY <1>4, <3>2 DEF TypeOK, Flows, Downstream
      <4> HIDE DEF n, q
      <4> QED
        BY <3>1, <3>2, <4>1, PacketsTyped, CarriesLast
    <3> QED
      BY <3>1, <3>2
  <2>2. hostEnd'[c] # "closed" => hostEnd[c] # "closed" /\ down'[c] = q
    BY <1>1
  <2>3. BothOpen(c)' => BothOpen(c) /\ down'[c] = q
    BY <1>1 DEF BothOpen
  <2> QED
    BY <1>1, <1>4, <2>1, <2>2, <2>3 DEF Flows, Downstream
<1> QED
  BY <1>2, <1>3, <1>4 DEF Flows

LEMMA ClientOpensFlows ==
  ASSUME TypeOK, NEW c \in Clients, Flows(c), ClientOpens(c)
  PROVE  Flows(c)'
<1>1. /\ clientEnd[c] = "none" /\ clientEnd'[c] = "open"
      /\ UNCHANGED <<shell, emitted, heard, session, listening, shown, sent, hostEnd, down, up,
                     isReadOnly>>
  BY DEF TypeOK, ClientOpens, hostVars, ptyVars, consoleVars, sessionVars
<1> QED
  BY <1>1 DEF Flows, Ends, Downstream, Upstream, BothOpen

LEMMA ClientStartsFlows ==
  ASSUME TypeOK, NEW c \in Clients, Flows(c), ClientStarts(c)
  PROVE  Flows(c)'
<1>1. /\ clientEnd[c] = "open" /\ listening'[c]
      /\ UNCHANGED <<shell, emitted, heard, shown, sent, hostEnd, clientEnd, down, up,
                     isReadOnly>>
  BY DEF TypeOK, ConsoleTypeOK, SessionTypeOK, ClientStarts, StartsApproved, Subscribed,
     hostVars, ptyVars
<1> QED
  BY <1>1 DEF Flows, Ends, Downstream, Upstream, BothOpen

(* The client's end closes, perhaps with a CLOSE packet; the last message  *)
(* may have been taken before.                                             *)
LEMMA ClientGoneFlows ==
  ASSUME TypeOK, NEW c \in Clients, Flows(c), clientEnd'[c] = "closed",
         UNCHANGED <<shell, emitted, heard, shown, sent, hostEnd, isReadOnly>>,
         down'[c] = down[c] \/ down'[c] = <<>>,
         \/ up'[c] = up[c]
         \/ clientEnd[c] = "open" /\ up'[c] = Append(up[c], Close)
  PROVE  Flows(c)'
<1>1. Ends(c)'
  BY DEF Flows, Ends
<1>2. ASSUME c \in Terminals PROVE Downstream(c)'
  BY <1>2 DEF Flows, Downstream, BothOpen, Carries
<1>3. Upstream(c)'
  <2> DEFINE n == Len(heard[c])
             q == up[c]
  <2>1. ~isReadOnly => Carries(up'[c], Typed(c), n, Close)
    <3>1. ~isReadOnly => Carries(q, Typed(c), n, Close)
      BY DEF Flows, Upstream
    <3>2. CASE clientEnd[c] = "open" /\ up'[c] = Append(q, Close)
      <4> DEFINE S == Inputs \cup {Close}
      <4>1. /\ q \in Seq(S) /\ Close \in S
            /\ \A i \in DOMAIN q : q[i] # Close
        BY <3>2 DEF TypeOK, Flows, Upstream
      <4> HIDE DEF n, q, S
      <4> QED
        BY <3>1, <3>2, <4>1, CarriesLast
    <3> QED
      BY <3>1, <3>2
  <2> QED
    BY <2>1 DEF Flows, Upstream
<1> QED
  BY <1>1, <1>2, <1>3 DEF Flows

LEMMA ClientTypesFlows ==
  ASSUME TypeOK, NEW c \in Clients, Flows(c), ClientTypes(c)
  PROVE  Flows(c)'
<1>1. /\ clientEnd[c] = "open" /\ sent'[c] = sent[c] + 1
      /\ up' = SentUp(c, Input(c, sent[c] + 1))
      /\ UNCHANGED <<shell, emitted, heard, session, listening, shown, hostEnd, clientEnd, down,
                     isReadOnly>>
  BY DEF TypeOK, ConsoleTypeOK, ClientTypes, Types, ptyVars, hostVars, sessionVars
<1>2. Ends(c)' /\ (c \in Terminals => Downstream(c)')
  BY <1>1 DEF Flows, Ends, Downstream, BothOpen
<1>3. CASE hostEnd[c] = "closed"
  <2>1. up' = up
    BY <1>1, <1>3 DEF SentUp
  <2> QED
    BY <1>1, <1>2, <1>3, <2>1 DEF Flows, Upstream
<1>4. CASE hostEnd[c] # "closed"
  <2> DEFINE n == Len(heard[c])
             q == up[c]
             m == Input(c, sent[c] + 1)
             S == Inputs \cup {Close}
  <2>1. up'[c] = Append(q, m)
    BY <1>1, <1>4 DEF TypeOK, SentUp
  <2>2. sent[c] + 1 \in 1..MaxInput
    BY ProtocolAssumption DEF TypeOK, ConsoleTypeOK, ClientTypes, Types
  <2>3. m \in S /\ m # Close
    BY <2>2, PacketsTyped, PacketKinds
  <2>4. n \in Nat /\ sent[c] \in Nat /\ q \in Seq(S)
    BY ProtocolAssumption DEF TypeOK, PtyTypeOK, ConsoleTypeOK
  <2>5. \A i \in DOMAIN q : q[i] # Close
    BY <1>1 DEF Flows, Upstream
  <2>6. ~isReadOnly => Carries(q, Typed(c), n, Close) /\ n + Len(q) = sent[c]
    BY <1>1, <1>4 DEF Flows, Upstream
  <2>7. ~isReadOnly => m = Typed(c)[(n + Len(q)) + 1]
    <3>1. Typed(c)[sent[c] + 1] = Input(c, sent[c] + 1)
      BY <2>4 DEF Typed
    <3> QED
      BY <2>6, <3>1
  <2>8. ~isReadOnly => Carries(Append(q, m), Typed(c), n, Close)
    <3> HIDE DEF n, q, m, S
    <3> QED
      BY <2>3, <2>4, <2>5, <2>6, <2>7, CarriesMore
  <2>9. \A i \in DOMAIN Append(q, m) : Append(q, m)[i] # Close
    <3> HIDE DEF q, m, S
    <3> QED
      BY <2>3, <2>4, <2>5, Appending
  <2>10. ~isReadOnly => n + Len(Append(q, m)) = sent[c] + 1
    <3>1. Len(Append(q, m)) = Len(q) + 1 /\ Len(q) \in Nat
      BY <2>3, <2>4, Appending
    <3> HIDE DEF n, q, m, S
    <3> QED
      BY <2>4, <2>6, <3>1
  <2>11. Upstream(c)'
    BY <1>1, <2>1, <2>8, <2>9, <2>10 DEF Flows, Upstream
  <2> QED
    BY <1>2, <2>11 DEF Flows
<1> QED
  BY <1>3, <1>4

LEMMA ClientReceivesFlows ==
  ASSUME TypeOK, NEW c \in Clients, Flows(c), ClientReceives(c)
  PROVE  Flows(c)'
<1> DEFINE n == Len(shown[c])
           q == down[c]
           m == Head(q)
<1>1. /\ clientEnd[c] = "open" /\ listening[c] /\ q # <<>> /\ down'[c] = Tail(q)
      /\ UNCHANGED <<shell, emitted, heard, hostEnd, up, isReadOnly>>
  BY DEF TypeOK, Flows, Ends, ClientReceives, Started, hostVars, ptyVars
<1>2. n \in Nat /\ shown[c] \in Seq(Outputs) /\ q \in Seq(ToClient)
  BY DEF TypeOK, ConsoleTypeOK
<1>3. /\ m \in ToClient /\ m = q[1] /\ 1 \in DOMAIN q
      /\ Len(Tail(q)) = Len(q) - 1 /\ Len(q) \in Nat
      /\ \A i \in DOMAIN Tail(q) : i + 1 \in DOMAIN q /\ Tail(q)[i] = q[i + 1]
  BY <1>1, <1>2, HeadTail
<1>4. hostEnd[c] \notin {"none", "new"}
  BY <1>1 DEF Flows, Ends
<1>5. c \in Terminals => First(q, Printed(c), n, Close)
                         /\ Carries(Tail(q), Printed(c), n + 1, Close)
  <2>1. c \in Terminals => Carries(q, Printed(c), n, Close)
    BY DEF Flows, Downstream
  <2>2. q # <<>>
    BY <1>1
  <2> HIDE DEF n, q
  <2> QED
    BY <1>2, <2>1, <2>2, CarriesFirst, CarriesRest
<1>6. CASE m.type # "OUTPUT"
  <2>1. OnDisconnect(c) /\ ClientGone(c)
    BY <1>1, <1>6 DEF ClientReceives
  <2>2. clientEnd'[c] = "closed" /\ UNCHANGED <<shown, sent>>
    BY <2>1 DEF TypeOK, OnDisconnect, ClientGone
  <2>3. m = Close
    <3>1. \A o \in Outputs : o.type = "OUTPUT"
      BY PacketKinds DEF Outputs
    <3> HIDE DEF m
    <3> QED
      BY <1>3, <1>6, <3>1, PacketsTyped
  <2>4. ~BothOpen(c)' /\ Ends(c)'
    BY <1>1, <1>4, <2>2 DEF BothOpen, Flows, Ends
  <2>5. c \in Terminals => down'[c] = <<>>
    BY <1>1, <1>5, <2>3 DEF First
  <2>6. ASSUME c \in Terminals PROVE Downstream(c)'
    <3>1. \A i \in DOMAIN down'[c] : FALSE
      BY <2>5, <2>6
    <3>2. Carries(down'[c], Printed(c), Len(shown'[c]), Close)
      BY <3>1 DEF Carries
    <3>3. \A i \in DOMAIN shown'[c] : shown'[c][i] = Output(c, i)
      BY <2>2, <2>6 DEF Flows, Downstream
    <3> QED
      BY <2>4, <3>1, <3>2, <3>3 DEF Downstream, Printed
  <2>7. Upstream(c)'
    BY <1>1, <2>2 DEF Flows, Upstream
  <2> QED
    BY <2>4, <2>6, <2>7 DEF Flows
<1>7. CASE m.type = "OUTPUT"
  <2>1. OnOutput(c, m) /\ UNCHANGED clientEnd
    BY <1>1, <1>7 DEF ClientReceives
  <2>2. UNCHANGED <<listening, sent>>
    BY <2>1 DEF OnOutput, TakesOutput
  <2>3. m # Close /\ m \in Outputs
    BY <1>3, <1>7, PacketsTyped, PacketKinds
  <2>4. Ends(c)' /\ Upstream(c)'
    BY <1>1, <1>4, <2>1, <2>2 DEF Flows, Ends, Upstream
  <2>5. ASSUME c \in Terminals PROVE Downstream(c)'
    <3>1. shown'[c] = Append(shown[c], m)
      BY <2>1, <2>5 DEF TypeOK, ConsoleTypeOK, OnOutput, Displays
    <3>2. m = Output(c, n + 1)
      BY <1>2, <1>5, <2>3, <2>5 DEF First, Printed
    <3>3. /\ Len(shown'[c]) = n + 1
          /\ \A i \in DOMAIN shown'[c] : shown'[c][i] = Output(c, i)
      BY <1>2, <2>3, <2>5, <3>1, <3>2, Appending DEF Flows, Downstream
    <3>4. ASSUME BothOpen(c) PROVE (n + 1) + Len(Tail(q)) = emitted[c]
      <4>1. n + Len(q) = emitted[c]
        BY <2>5, <3>4 DEF Flows, Downstream
      <4>2. n \in Nat /\ Len(q) \in Nat /\ Len(Tail(q)) = Len(q) - 1
        BY <1>2, <1>3
      <4> DEFINE k == Len(q)
                 t == Len(Tail(q))
      <4> HIDE DEF n, k, t
      <4>3. n + k = emitted[c] /\ n \in Nat /\ k \in Nat /\ t = k - 1
        BY <4>1, <4>2 DEF k, t
      <4>4. (n + 1) + t = n + k
        BY <4>3
      <4> QED
        BY <4>3, <4>4 DEF t
    <3>5. hostEnd[c] # "closed" => \A i \in DOMAIN Tail(q) : Tail(q)[i] # Close
      BY <1>3, <2>5 DEF Flows, Downstream
    <3>6. BothOpen(c)' <=> BothOpen(c)
      BY <1>1, <2>1 DEF BothOpen
    <3>7. Carries(down'[c], Printed(c), Len(shown'[c]), Close)
      BY <1>1, <1>5, <2>5, <3>3
    <3>8. BothOpen(c)' => Len(shown'[c]) + Len(down'[c]) = emitted'[c]
      BY <1>1, <3>3, <3>4, <3>6
    <3> QED
      BY <1>1, <3>3, <3>5, <3>7, <3>8 DEF Downstream, Printed
  <2> QED
    BY <2>4, <2>5 DEF Flows
<1> QED
  BY <1>6, <1>7

-----------------------------------------------------------------------------
(* All the steps together.                                                 *)

LEMMA HostStepFlows ==
  ASSUME Inv, HostNext, NEW c \in Clients
  PROVE  Flows(c)'
<1>1. ASSUME NEW d \in Clients, HostSteps(d) PROVE Flows(c)'
  <2>1. CASE d = c
    BY <1>1, <2>1, AdmitsFlows, OpensFlows, PrintsFlows, HostReceivesFlows, ClosesFlows
       DEF Inv, HostSteps
  <2>2. CASE d # c
    BY <1>1, <2>2, HostStepElsewhere, SameFlows DEF Inv
  <2> QED
    BY <2>1, <2>2
<1>2. ASSUME NEW d \in Clients, ShellExits(d) PROVE Flows(c)'
  <2>1. \/ down'[c] = down[c]
        \/ hostEnd[c] = "open" /\ down'[c] = Append(down[c], Close)
    BY <1>2 DEF Inv, TypeOK, ShellExits, SentDown
  <2> QED
    BY <1>2, <2>1, HostGoneFlows DEF Inv, ShellExits
<1>3. CASE HostDies
  BY <1>3, HostGoneFlows DEF Inv, HostDies
<1> QED
  BY <1>1, <1>2, <1>3 DEF HostNext, HostSteps

LEMMA ClientStepFlows ==
  ASSUME Inv, ClientNext, NEW c \in Clients
  PROVE  Flows(c)'
<1>1. PICK d \in Clients : ClientSteps(d)
  BY DEF ClientNext, ClientSteps
<1>2. CASE d # c
  BY <1>1, <1>2, ClientStepElsewhere, SameFlows DEF Inv
<1>3. CASE d = c
  <2>1. CASE ClientOnClosed(c)
    <3>1. UNCHANGED <<shell, emitted, heard, shown, sent, hostEnd, isReadOnly, down, up>>
      BY <2>1 DEF ClientOnClosed, OnDisconnect, hostVars, ptyVars
    <3> QED
      BY <2>1, <3>1, ClientGoneFlows DEF Inv, TypeOK, ClientOnClosed, ClientGone
  <2>2. CASE ClientDetaches(c)
    <3>1. UNCHANGED <<shell, emitted, heard, shown, sent, hostEnd, isReadOnly, down>>
      BY <2>2 DEF ClientDetaches, OnDisconnect, hostVars, ptyVars
    <3>2. up'[c] = up[c] \/ (clientEnd[c] = "open" /\ up'[c] = Append(up[c], Close))
      BY <2>2 DEF Inv, TypeOK, ClientDetaches, SentUp
    <3> QED
      BY <2>2, <3>1, <3>2, ClientGoneFlows DEF Inv, TypeOK, ClientDetaches, ClientGone
  <2>3. CASE ClientCrashes(c)
    <3>1. UNCHANGED <<shell, emitted, heard, shown, sent, hostEnd, isReadOnly, down, up>>
      BY <2>3 DEF ClientCrashes, Crashes, hostVars, ptyVars
    <3> QED
      BY <2>3, <3>1, ClientGoneFlows DEF Inv, TypeOK, ClientCrashes, ClientGone
  <2> QED
    BY <1>1, <1>3, <2>1, <2>2, <2>3, ClientOpensFlows, ClientStartsFlows, ClientReceivesFlows,
       ClientTypesFlows
       DEF Inv, ClientSteps
<1> QED
  BY <1>2, <1>3

LEMMA StutterFlows ==
  ASSUME Inv, UNCHANGED vars, NEW c \in Clients
  PROVE  Flows(c)'
<1>1. Same(c)
  BY DEF vars, ptyVars, consoleVars, sessionVars, Same
<1> QED
  BY <1>1, SameFlows DEF Inv

LEMMA InitFlows == Init => \A c \in Clients : Flows(c)
<1> SUFFICES ASSUME Init, NEW c \in Clients PROVE Flows(c)
  OBVIOUS
<1>1. /\ emitted[c] = 0 /\ heard[c] = <<>> /\ shown[c] = <<>> /\ sent[c] = 0
      /\ hostEnd[c] = "none" /\ clientEnd[c] = "none" /\ shell[c] = "none"
      /\ down[c] = <<>> /\ up[c] = <<>> /\ session[c] = "IDLE"
  BY DEF Init, PtyInit, ConsoleInit, SessionInit
<1>2. Ends(c) /\ ~BothOpen(c)
  BY <1>1 DEF Ends, BothOpen
<1>3. Downstream(c) /\ Upstream(c)
  BY <1>1, <1>2 DEF Downstream, Upstream, Carries
<1> QED
  BY <1>2, <1>3 DEF Flows

THEOREM Invariance == Spec => []Inv
<1>1. Init => Inv
  BY InitTyped, InitFlows DEF Inv
<1>2. Inv /\ [Next]_vars => Inv'
  <2> SUFFICES ASSUME Inv, [Next]_vars PROVE TypeOK' /\ \A c \in Clients : Flows(c)'
    BY DEF Inv
  <2>1. TypeOK'
    BY HostStepTyped, ClientStepTyped, StutterTyped DEF Inv, Next
  <2>2. ASSUME NEW c \in Clients PROVE Flows(c)'
    BY HostStepFlows, ClientStepFlows, StutterFlows DEF Next
  <2> QED
    BY <2>1, <2>2
<1> QED
  BY <1>1, <1>2, PTL DEF Spec

(* A client at a terminal sees what the shell of its own session printed,  *)
(* from the first output on, and nothing of another session.               *)
THEOREM ScreensFollowShells == Spec => []ScreenFollowsShell
<1>1. Inv => ScreenFollowsShell
  <2> SUFFICES ASSUME Inv, NEW c \in Terminals
               PROVE  /\ \A i \in DOMAIN shown[c] : shown[c][i] = Output(c, i)
                      /\ \A i \in DOMAIN down[c] :
                           down[c][i] = IF down[c][i] = Close THEN Close
                                        ELSE Output(c, Len(shown[c]) + i)
                      /\ BothOpen(c) => Len(shown[c]) + Len(down[c]) = emitted[c]
    BY DEF ScreenFollowsShell
  <2>1. c \in Clients /\ Downstream(c)
    BY TerminalsAssumption DEF Inv, Flows
  <2>2. ASSUME NEW i \in DOMAIN down[c], down[c][i] # Close
        PROVE  down[c][i] = Output(c, Len(shown[c]) + i)
    <3>1. Len(shown[c]) + i \in Nat
      BY <2>1 DEF Inv, TypeOK, ConsoleTypeOK
    <3>2. down[c][i] = Printed(c)[Len(shown[c]) + i]
      BY <2>1, <2>2 DEF Downstream, Carries
    <3> QED
      BY <3>1, <3>2 DEF Printed
  <2> QED
    BY <2>1, <2>2 DEF Downstream
<1> QED
  BY <1>1, Invariance, PTL

(* A shell hears what its own client typed, from the first input on, and   *)
(* nothing if the host is read-only.                                       *)
THEOREM ShellsFollowClients == Spec => []ShellFollowsClient
<1>1. Inv => ShellFollowsClient
  BY DEF Inv, Flows, Upstream, ShellFollowsClient
<1> QED
  BY <1>1, Invariance, PTL

-----------------------------------------------------------------------------
(* A client that ends by itself hands its terminal back cooked.            *)
THEOREM TerminalsHandedBack == Spec => []TerminalHandedBack
<1>1. Init => Console
  BY DEF Init, ConsoleInit, Console, TerminalHandedBack
<1>2. TypeOK /\ Console /\ [Next]_vars => Console'
  <2> SUFFICES ASSUME TypeOK, Console, [Next]_vars PROVE Console'
    OBVIOUS
  <2>1. ConsoleTypeOK
    BY DEF TypeOK
  <2>2. CASE HostNext \/ UNCHANGED vars
    <3>1. UNCHANGED consoleVars
      BY <2>2 DEF HostNext, HostAdmits, HostOpens, ShellPrints, HostReceives, HostOnClosed,
         ShellExits, HostDies, HostGone, vars
    <3> QED
      BY <3>1, ConsoleSame DEF consoleVars
  <2>3. CASE ClientNext
    <3>1. PICK c \in Clients : ClientSteps(c)
      BY <2>3 DEF ClientNext, ClientSteps
    <3>2. CASE ClientOpens(c) \/ ClientStarts(c) \/ ClientTypes(c)
      BY <3>2, ConsoleSame DEF ClientOpens, ClientStarts, ClientTypes, Types, consoleVars
    <3>3. CASE ClientReceives(c)
      BY <2>1, <3>3, ConsoleSame, ConsoleDisplays, ConsoleDisconnects
         DEF ClientReceives, consoleVars
    <3>4. CASE ClientOnClosed(c) \/ ClientDetaches(c)
      BY <2>1, <3>4, ConsoleDisconnects DEF ClientOnClosed, ClientDetaches
    <3>5. CASE ClientCrashes(c)
      BY <2>1, <3>5, ConsoleCrashes DEF ClientCrashes
    <3> QED
      BY <3>1, <3>2, <3>3, <3>4, <3>5 DEF ClientSteps
  <2> QED
    BY <2>2, <2>3 DEF Next
<1>3. Console => TerminalHandedBack
  BY DEF Console
<1> QED
  BY <1>1, <1>2, <1>3, TypeCorrect, PTL DEF Spec

-----------------------------------------------------------------------------
(* The refinement.  Beside the streams, it takes that nothing is under way *)
(* that was not printed or typed, also when the other end has closed.      *)
Below(q, max) == \A i \in DOMAIN q : q[i] # Close => q[i].n <= max

Caused == \A c \in Clients : Below(down[c], emitted[c]) /\ Below(up[c], sent[c])

LEMMA BelowRest ==
  ASSUME NEW S, NEW q \in Seq(S), NEW max, q # <<>>, Below(q, max)
  PROVE  Below(Tail(q), max)
<1>1. \A i \in DOMAIN Tail(q) : i + 1 \in DOMAIN q /\ Tail(q)[i] = q[i + 1]
  BY HeadTail
<1> QED
  BY <1>1 DEF Below

LEMMA BelowMore ==
  ASSUME NEW S, NEW q \in Seq(S), NEW m \in S, NEW max, Below(q, max), m = Close \/ m.n <= max
  PROVE  Below(Append(q, m), max)
<1>1. \A i \in DOMAIN Append(q, m) : \/ i \in DOMAIN q /\ Append(q, m)[i] = q[i]
                                     \/ Append(q, m)[i] = m
  BY Appending
<1> QED
  BY <1>1 DEF Below

LEMMA BelowNext ==
  ASSUME NEW S, NEW q \in Seq(S), NEW max \in Nat, Below(q, max),
         \A i \in DOMAIN q : q[i] # Close => q[i].n \in Nat
  PROVE  Below(q, max + 1)
  BY DEF Below

LEMMA Numbered ==
  ASSUME TypeOK, NEW c \in Clients
  PROVE  /\ \A i \in DOMAIN down[c] : down[c][i] # Close => down[c][i].n \in Nat
         /\ \A i \in DOMAIN up[c] : up[c][i] # Close => up[c][i].n \in Nat
<1>1. \A m \in Outputs \cup Inputs : m.n \in Nat
  BY DEF Outputs, Inputs, Output, Input
<1>2. /\ \A i \in DOMAIN down[c] : down[c][i] \in ToClient
      /\ \A i \in DOMAIN up[c] : up[c][i] \in Inputs \cup {Close}
  BY DEF TypeOK
<1> QED
  BY <1>1, <1>2 DEF ToClient

LEMMA PrintsCaused ==
  ASSUME TypeOK, Caused, NEW c \in Clients, ShellPrints(c)
  PROVE  Caused'
<1> DEFINE m == Output(c, emitted[c] + 1)
           q == down[c]
<1>1. /\ emitted' = [emitted EXCEPT ![c] = @ + 1] /\ down' = SentDown(c, m)
      /\ UNCHANGED <<up, sent>>
  BY DEF ShellPrints, Emits, Recipient, consoleVars
<1>2. emitted[c] \in Nat /\ emitted[c] + 1 \in 1..MaxOutput
  BY ProtocolAssumption DEF TypeOK, PtyTypeOK, ShellPrints, Emits
<1>3. m \in ToClient /\ m.n = emitted[c] + 1
  BY <1>2, PacketsTyped DEF Output
<1>4. q \in Seq(ToClient) /\ Below(q, emitted[c])
  BY DEF TypeOK, Caused
<1>5. Below(q, emitted[c] + 1)
  BY <1>2, <1>4, Numbered, BelowNext
<1>6. Below(Append(q, m), emitted[c] + 1)
  <2>1. m.n <= emitted[c] + 1
    BY <1>2, <1>3
  <2> HIDE DEF m, q
  <2> QED
    BY <1>3, <1>4, <1>5, <2>1, BelowMore
<1>7. emitted'[c] = emitted[c] + 1 /\ down'[c] \in {q, Append(q, m)}
  BY <1>1 DEF TypeOK, PtyTypeOK, SentDown
<1>8. \A d \in Clients \ {c} : emitted'[d] = emitted[d] /\ down'[d] = down[d]
  BY <1>1 DEF TypeOK, PtyTypeOK, SentDown
<1>9. ASSUME NEW d \in Clients PROVE Below(down[d], emitted[d])'
  <2>1. CASE d = c
    BY <1>5, <1>6, <1>7, <2>1 DEF Below
  <2>2. CASE d # c
    BY <1>8, <2>2 DEF Caused, Below
  <2> QED
    BY <2>1, <2>2
<1> QED
  BY <1>1, <1>9 DEF Caused, Below

LEMMA TypesCaused ==
  ASSUME TypeOK, Caused, NEW c \in Clients, ClientTypes(c)
  PROVE  Caused'
<1> DEFINE m == Input(c, sent[c] + 1)
           q == up[c]
           S == Inputs \cup {Close}
<1>1. /\ sent' = [sent EXCEPT ![c] = @ + 1] /\ up' = SentUp(c, m)
      /\ UNCHANGED <<down, emitted>>
  BY DEF ClientTypes, Types, ptyVars
<1>2. sent[c] \in Nat /\ sent[c] + 1 \in 1..MaxInput
  BY ProtocolAssumption DEF TypeOK, ConsoleTypeOK, ClientTypes, Types
<1>3. m \in S /\ m.n = sent[c] + 1
  BY <1>2, PacketsTyped DEF Input
<1>4. q \in Seq(S) /\ Below(q, sent[c])
  BY DEF TypeOK, Caused
<1>5. Below(q, sent[c] + 1)
  <2>1. \A i \in DOMAIN q : q[i] # Close => q[i].n \in Nat
    BY Numbered
  <2> HIDE DEF q, S
  <2> QED
    BY <1>2, <1>4, <2>1, BelowNext
<1>6. Below(Append(q, m), sent[c] + 1)
  <2>1. m.n <= sent[c] + 1
    BY <1>2, <1>3
  <2> HIDE DEF m, q, S
  <2> QED
    BY <1>3, <1>4, <1>5, <2>1, BelowMore
<1>7. sent'[c] = sent[c] + 1 /\ up'[c] \in {q, Append(q, m)}
  BY <1>1 DEF TypeOK, ConsoleTypeOK, SentUp
<1>8. \A d \in Clients \ {c} : sent'[d] = sent[d] /\ up'[d] = up[d]
  BY <1>1 DEF TypeOK, ConsoleTypeOK, SentUp
<1>9. ASSUME NEW d \in Clients PROVE Below(up[d], sent[d])'
  <2>1. CASE d = c
    BY <1>5, <1>6, <1>7, <2>1 DEF Below
  <2>2. CASE d # c
    BY <1>8, <2>2 DEF Caused, Below
  <2> QED
    BY <2>1, <2>2
<1> QED
  BY <1>1, <1>9 DEF Caused, Below

(* Other steps take packets off a queue, or put CLOSE into it.             *)
LEMMA TakesCaused ==
  ASSUME TypeOK, Caused, UNCHANGED <<emitted, sent>>,
         \A c \in Clients :
           /\ \/ down'[c] = down[c]
              \/ down[c] # <<>> /\ down'[c] = Tail(down[c])
              \/ down'[c] = Append(down[c], Close)
           /\ \/ up'[c] = up[c]
              \/ up[c] # <<>> /\ up'[c] = Tail(up[c])
              \/ up'[c] = Append(up[c], Close)
  PROVE  Caused'
<1> SUFFICES ASSUME NEW c \in Clients
             PROVE  Below(down'[c], emitted[c]) /\ Below(up'[c], sent[c])
  BY DEF Caused, Below
<1>1. /\ down[c] \in Seq(ToClient) /\ Below(down[c], emitted[c]) /\ Close \in ToClient
  BY PacketsTyped DEF TypeOK, Caused
<1>2. /\ up[c] \in Seq(Inputs \cup {Close}) /\ Below(up[c], sent[c])
      /\ Close \in Inputs \cup {Close}
  BY DEF TypeOK, Caused
<1>3. /\ down[c] # <<>> => Below(Tail(down[c]), emitted[c])
      /\ Below(Append(down[c], Close), emitted[c])
  BY <1>1, BelowRest, BelowMore
<1>4. /\ up[c] # <<>> => Below(Tail(up[c]), sent[c])
      /\ Below(Append(up[c], Close), sent[c])
  BY <1>2, BelowRest, BelowMore
<1> QED
  BY <1>1, <1>2, <1>3, <1>4

LEMMA CausedKept == TypeOK /\ Caused /\ [Next]_vars => Caused'
<1> SUFFICES ASSUME TypeOK, Caused, [Next]_vars PROVE Caused'
  OBVIOUS
<1>1. ASSUME NEW c \in Clients, HostAdmits(c) \/ HostOpens(c) \/ HostOnClosed(c)
      PROVE  Caused'
  <2>1. UNCHANGED <<emitted, sent, down, up>>
    BY <1>1 DEF HostAdmits, HostOpens, HostOnClosed, Spawns, ptyVars, consoleVars
  <2> QED
    BY <2>1, TakesCaused
<1>2. ASSUME NEW c \in Clients, HostReceives(c) PROVE Caused'
  <2>1. UNCHANGED <<emitted, sent, down>> /\ up[c] # <<>> /\ up' = [up EXCEPT ![c] = Tail(@)]
    BY <1>2 DEF HostReceives, Hears, ptyVars, consoleVars
  <2> QED
    BY <2>1, TakesCaused DEF TypeOK
<1>3. CASE HostDies \/ \E c \in Clients : ShellExits(c)
  <2>1. UNCHANGED <<emitted, sent, up>>
    BY <1>3 DEF HostDies, ShellExits, HostGone, ShellsEnd, consoleVars
  <2>2. \A d \in Clients : down'[d] = down[d] \/ down'[d] = Append(down[d], Close)
    BY <1>3 DEF HostDies, ShellExits, SentDown, TypeOK
  <2> QED
    BY <2>1, <2>2, TakesCaused
<1>4. ASSUME NEW c \in Clients,
             ClientOpens(c) \/ ClientStarts(c) \/ ClientOnClosed(c) \/ ClientCrashes(c)
      PROVE  Caused'
  <2>1. UNCHANGED <<emitted, sent, down, up>>
    BY <1>4 DEF ClientOpens, ClientStarts, ClientOnClosed, OnDisconnect, ClientCrashes,
       Crashes, ptyVars, consoleVars
  <2> QED
    BY <2>1, TakesCaused
<1>5. ASSUME NEW c \in Clients, ClientDetaches(c) PROVE Caused'
  <2>1. UNCHANGED <<emitted, sent, down>> /\ up' = SentUp(c, Close)
    BY <1>5 DEF ClientDetaches, OnDisconnect, ptyVars
  <2> QED
    BY <2>1, TakesCaused DEF TypeOK, SentUp
<1>6. ASSUME NEW c \in Clients, ClientReceives(c) PROVE Caused'
  <2>1. /\ UNCHANGED <<emitted, sent, up>> /\ down[c] # <<>>
        /\ down' = [down EXCEPT ![c] = Tail(@)]
    BY <1>6 DEF ClientReceives, OnOutput, OnDisconnect, ptyVars, consoleVars
  <2> QED
    BY <2>1, TakesCaused DEF TypeOK
<1>7. CASE UNCHANGED vars
  BY <1>7, TakesCaused DEF vars, ptyVars, consoleVars
<1> QED
  BY <1>1, <1>2, <1>3, <1>4, <1>5, <1>6, <1>7, PrintsCaused, TypesCaused
     DEF Next, HostNext, ClientNext

LEMMA CausedHolds == Spec => []Caused
<1>1. Init => Caused
  <2> SUFFICES ASSUME Init, NEW c \in Clients
               PROVE  Below(down[c], emitted[c]) /\ Below(up[c], sent[c])
    BY DEF Caused
  <2>1. down[c] = <<>> /\ up[c] = <<>>
    BY DEF Init
  <2> QED
    BY <2>1 DEF Below
<1> QED
  BY <1>1, CausedKept, TypeCorrect, PTL DEF Spec

(* Each step is one of the shared shell, or changes nothing that it speaks *)
(* of.                                                                     *)
Promise == <<Users, shell, emitted, heard, shown, sent, isReadOnly>>

LEMMA UsersSame ==
  ASSUME UNCHANGED clientUp
  PROVE  Users' = Users
  BY DEF Users

LEMMA HostReceivesMaps ==
  ASSUME Inv, Caused, NEW c \in Clients, HostReceives(c)
  PROVE  Shared!Next \/ Promise' = Promise
<1> DEFINE m == Head(up[c])
           n == Len(heard[c]) + 1
<1>1. /\ hostEnd[c] = "open" /\ up[c] # <<>>
      /\ UNCHANGED <<clientUp, shown, sent, isReadOnly>>
      /\ IF MayWrite(m) THEN Hears(c, m) ELSE UNCHANGED ptyVars
  BY DEF HostReceives, hostVars, consoleVars
<1>2. CASE ~MayWrite(m)
  BY <1>1, <1>2, UsersSame DEF Promise, ptyVars
<1>3. CASE MayWrite(m)
  <2>1. /\ shell[c] = "running" /\ ~isReadOnly
        /\ heard' = [heard EXCEPT ![c] = Append(@, m)] /\ UNCHANGED <<shell, emitted>>
    BY <1>1, <1>3 DEF Inv, Flows, Ends, Hears, MayWrite
  <2>2. m # Close /\ m = up[c][1] /\ 1 \in DOMAIN up[c]
    BY <1>1, <1>3, PacketKinds, HeadTail DEF Inv, TypeOK, MayWrite
  <2>3. /\ Len(heard[c]) \in Nat /\ DOMAIN heard[c] = 1..Len(heard[c])
        /\ sent[c] \in Nat
    BY ProtocolAssumption DEF Inv, TypeOK, PtyTypeOK, ConsoleTypeOK
  <2>4. /\ \A i \in DOMAIN heard[c] : heard[c][i] = Input(c, i)
        /\ m = Typed(c)[n]
    BY <2>1, <2>2 DEF Inv, Flows, Upstream, Carries
  <2>5. m = Input(c, n) /\ m.n = n /\ n \in 1..sent[c]
    <3>1. m = Input(c, n) /\ m.n = n
      BY <2>3, <2>4 DEF Typed, Input
    <3>2. m.n <= sent[c]
      BY <2>2 DEF Caused, Below
    <3> QED
      BY <2>3, <3>1, <3>2
  <2>6. Shared!MayFollow(heard[c], n, sent[c])
    <3>1. ASSUME NEW i \in DOMAIN heard[c] PROVE heard[c][i].n < n
      <4>1. heard[c][i] = Input(c, i)
        BY <2>4
      <4>2. Input(c, i).n = i
        BY DEF Input
      <4> QED
        BY <2>3, <4>1, <4>2
    <3> QED
      BY <2>5, <3>1 DEF Shared!MayFollow
  <2>7. Users' = Users
    BY <1>1, UsersSame
  <2> HIDE DEF m, n
  <2>8. Shared!Hear(c, n)
    BY <1>1, <2>1, <2>5, <2>6, <2>7 DEF Shared!Hear, Shared!Input, Input
  <2> QED
    BY <2>5, <2>8 DEF Shared!Next
<1> QED
  BY <1>2, <1>3

LEMMA HostStepMaps ==
  ASSUME Inv, Caused, HostNext
  PROVE  Shared!Next \/ Promise' = Promise
<1>1. ASSUME NEW c \in Clients, HostAdmits(c) \/ HostOnClosed(c) PROVE Promise' = Promise
  BY <1>1, UsersSame DEF HostAdmits, HostOnClosed, Promise, ptyVars, consoleVars
<1>2. ASSUME NEW c \in Clients, HostOpens(c) PROVE Shared!Next
  <2>1. shell[c] = "none"
    BY <1>2 DEF HostOpens, Inv, Flows, Ends
  <2>2. Shared!Spawn(c)
    BY <1>2, <2>1, UsersSame DEF HostOpens, Spawns, hostVars, consoleVars, Shared!Spawn
  <2> QED
    BY <2>2 DEF Shared!Next
<1>3. ASSUME NEW c \in Clients, ShellPrints(c) PROVE Shared!Next
  <2>1. Shared!Speak(c)
    BY <1>3, UsersSame DEF ShellPrints, Emits, hostVars, consoleVars, Shared!Speak
  <2> QED
    BY <2>1 DEF Shared!Next
<1>4. CASE HostDies \/ \E c \in Clients : ShellExits(c)
  <2>1. Shared!EndShells
    BY <1>4, UsersSame DEF HostDies, ShellExits, HostGone, ShellsEnd, consoleVars,
       Shared!EndShells
  <2> QED
    BY <2>1 DEF Shared!Next
<1> QED
  BY <1>1, <1>2, <1>3, <1>4, HostReceivesMaps DEF HostNext

LEMMA DisplaysMaps ==
  ASSUME Inv, Caused, NEW c \in Clients, clientUp[c] = "up", down[c] # <<>>,
         Head(down[c]).type = "OUTPUT", OnOutput(c, Head(down[c])),
         UNCHANGED <<hostVars, ptyVars>>
  PROVE  Shared!Next \/ Promise' = Promise
<1> DEFINE m == Head(down[c])
           n == Len(shown[c]) + 1
<1>1. /\ Users' = Users /\ Users[c] = "here"
      /\ UNCHANGED <<shell, emitted, heard, sent, isReadOnly>>
  BY UsersSame DEF OnOutput, ptyVars, hostVars, Users
<1>2. CASE UNCHANGED shown
  BY <1>1, <1>2 DEF Promise
<1>3. CASE c \in Terminals /\ shown' = [shown EXCEPT ![c] = Append(@, m)]
  <2>1. m # Close /\ m = down[c][1] /\ 1 \in DOMAIN down[c]
    BY PacketKinds, HeadTail DEF Inv, TypeOK
  <2>2. /\ Len(shown[c]) \in Nat /\ DOMAIN shown[c] = 1..Len(shown[c])
        /\ emitted[c] \in Nat
    BY ProtocolAssumption DEF Inv, TypeOK, PtyTypeOK, ConsoleTypeOK
  <2>3. /\ \A i \in DOMAIN shown[c] : shown[c][i] = Output(c, i)
        /\ m = Printed(c)[n]
    BY <1>3, <2>1 DEF Inv, Flows, Downstream, Carries
  <2>4. m = Output(c, n) /\ m.n = n /\ n \in 1..emitted[c]
    <3>1. m = Output(c, n) /\ m.n = n
      BY <2>2, <2>3 DEF Printed, Output
    <3>2. m.n <= emitted[c]
      BY <2>1 DEF Caused, Below
    <3> QED
      BY <2>2, <3>1, <3>2
  <2>5. Shared!MayFollow(shown[c], n, emitted[c])
    <3>1. ASSUME NEW i \in DOMAIN shown[c] PROVE shown[c][i].n < n
      <4>1. shown[c][i] = Output(c, i)
        BY <2>3
      <4>2. Output(c, i).n = i
        BY DEF Output
      <4> QED
        BY <2>2, <4>1, <4>2
    <3> QED
      BY <2>4, <3>1 DEF Shared!MayFollow
  <2> HIDE DEF m, n
  <2>6. Shared!Show(c, n)
    BY <1>1, <1>3, <2>4, <2>5 DEF Shared!Show, Shared!Output, Output
  <2> QED
    BY <2>4, <2>6 DEF Shared!Next
<1> QED
  BY <1>2, <1>3 DEF OnOutput, Displays

LEMMA ClientStepMaps ==
  ASSUME Inv, Caused, ClientNext
  PROVE  Shared!Next \/ Promise' = Promise
<1>1. PICK c \in Clients : ClientSteps(c)
  BY DEF ClientNext, ClientSteps
<1>2. UNCHANGED <<shell, emitted, heard, isReadOnly>>
  BY <1>1 DEF ClientSteps, ClientOpens, ClientStarts, ClientReceives, ClientOnClosed,
     ClientTypes, ClientDetaches, ClientCrashes, ptyVars, hostVars
<1>3. CASE ClientOpens(c) \/ ClientStarts(c)
  BY <1>2, <1>3, UsersSame DEF ClientOpens, ClientStarts, Promise, consoleVars
<1>4. ASSUME clientUp[c] = "up", OnDisconnect(c) \/ Crashes(c) PROVE Shared!Next
  <2>1. Users[c] = "here" /\ Users' = [Users EXCEPT ![c] = "gone"]
    BY <1>4 DEF OnDisconnect, Crashes, Users, Inv, TypeOK, ConsoleTypeOK
  <2>2. Shared!Leave(c)
    BY <1>2, <1>4, <2>1 DEF OnDisconnect, Crashes, Shared!Leave
  <2> QED
    BY <2>2 DEF Shared!Next
<1>5. CASE ClientOnClosed(c) \/ ClientDetaches(c) \/ ClientCrashes(c)
  BY <1>4, <1>5 DEF ClientOnClosed, ClientDetaches, ClientCrashes, Crashes
<1>6. CASE ClientTypes(c)
  <2>1. Users[c] = "here" /\ Users' = Users
    BY <1>6, UsersSame DEF ClientTypes, Types, Users
  <2>2. Shared!Type(c)
    BY <1>2, <1>6, <2>1 DEF ClientTypes, Types, Shared!Type
  <2> QED
    BY <2>2 DEF Shared!Next
<1>7. CASE ClientReceives(c)
  <2>1. /\ clientUp[c] = "up" /\ down[c] # <<>> /\ UNCHANGED <<hostVars, ptyVars>>
        /\ \/ UNCHANGED consoleVars
           \/ Head(down[c]).type = "OUTPUT" /\ OnOutput(c, Head(down[c]))
           \/ OnDisconnect(c)
    BY <1>7 DEF ClientReceives
  <2>2. CASE UNCHANGED consoleVars
    BY <1>2, <2>2, UsersSame DEF consoleVars, Promise
  <2> QED
    BY <1>4, <2>1, <2>2, DisplaysMaps
<1> QED
  BY <1>1, <1>3, <1>5, <1>6, <1>7 DEF ClientSteps

(* The sessions implement the shared shell: what a client shows is what    *)
(* its shell printed, one output after the other, and what a shell hears   *)
(* is what its client typed, whoever closes, dies or starts in between.    *)
THEOREM StreamingKeepsItsPromise == Spec => ImplementsSharedShell
<1>1. Init => Shared!Init
  <2> SUFFICES ASSUME Init PROVE Shared!Init
    OBVIOUS
  <2>1. Users \in [Clients -> {"away", "here"}]
    BY DEF Init, ConsoleInit, Users
  <2> QED
    BY <2>1 DEF Init, PtyInit, ConsoleInit, Shared!Init
<1>2. Inv /\ Caused /\ [Next]_vars => [Shared!Next]_(Shared!sharedVars)
  <2> SUFFICES ASSUME Inv, Caused, [Next]_vars PROVE Shared!Next \/ Promise' = Promise
    BY DEF Promise, Shared!sharedVars
  <2>1. CASE UNCHANGED vars
    BY <2>1, UsersSame DEF vars, ptyVars, consoleVars, Promise
  <2> QED
    BY <2>1, HostStepMaps, ClientStepMaps DEF Next
<1> QED
  BY <1>1, <1>2, Invariance, CausedHolds, PTL DEF Spec, ImplementsSharedShell, Shared!Spec

===============================================================================
