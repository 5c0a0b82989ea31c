---------------------------- MODULE LocalSharingProofs ----------------------------
(***************************************************************************)
(* Sharing over the loopback, for any number of clients and any amount of  *)
(* input and output.  The transport takes one connection ever; so there is *)
(* one knock, which is at the head of what its client sends and is read    *)
(* once, and everything else is about the client at the socket.  A chunk   *)
(* takes packets off a queue; what it leaves is still in order.            *)
(***************************************************************************)
EXTENDS LocalSharing, SessionProofs

-----------------------------------------------------------------------------
(* A queue q brings packets of a kind to those that are done: all of them  *)
(* are c's, the first max ones at most, and in order.                      *)
Conveys(done, q, kind, c, max) ==
  /\ \A i \in DOMAIN done :
       done[i].type = kind /\ done[i].of = c /\ done[i].n \in 1..max
  /\ \A j \in DOMAIN q : q[j].type = kind => q[j].of = c /\ q[j].n \in 1..max
  /\ InOrder(done)
  /\ \A i, j \in DOMAIN q :
       i < j /\ q[i].type = kind /\ q[j].type = kind => q[i].n < q[j].n
  /\ \A i \in DOMAIN done, j \in DOMAIN q :
       q[j].type = kind => done[i].n < q[j].n

LEMMA ConveysMore ==
  ASSUME NEW S, NEW done, NEW q \in Seq(S), NEW kind, NEW c, NEW max \in Nat, NEW m \in S,
         Conveys(done, q, kind, c, max), m.type = kind, m.of = c, m.n = max + 1
  PROVE  Conveys(done, Append(q, m), kind, c, max + 1)
<1> DEFINE r == Append(q, m)
<1>1. \A j \in DOMAIN r : \/ j \in DOMAIN q /\ r[j] = q[j]
                          \/ j = Len(q) + 1 /\ r[j] = m
  BY Appending
<1>2. Len(q) \in Nat /\ DOMAIN q = 1..Len(q)
  OBVIOUS
<1>3. \A k \in 1..max : k \in 1..(max + 1) /\ k < max + 1
  OBVIOUS
<1>4. max + 1 \in 1..(max + 1)
  OBVIOUS
<1> HIDE DEF r
<1>5. /\ \A i \in DOMAIN done :
           done[i].type = kind /\ done[i].of = c /\ done[i].n \in 1..(max + 1)
      /\ InOrder(done)
  BY <1>3 DEF Conveys
<1>6. \A j \in DOMAIN r : r[j].type = kind => r[j].of = c /\ r[j].n \in 1..(max + 1)
  BY <1>1, <1>3, <1>4 DEF Conveys
<1>7. ASSUME NEW i \in DOMAIN r, NEW j \in DOMAIN r, i < j, r[i].type = kind, r[j].type = kind
      PROVE  r[i].n < r[j].n
  <2>1. i \in DOMAIN q /\ r[i] = q[i]
    BY <1>1, <1>2, <1>7
  <2>2. CASE j \in DOMAIN q /\ r[j] = q[j]
    BY <1>7, <2>1, <2>2 DEF Conveys
  <2>3. CASE r[j] = m
    BY <1>3, <1>7, <2>1, <2>3 DEF Conveys
  <2> QED
    BY <1>1, <2>2, <2>3
<1>8. ASSUME NEW i \in DOMAIN done, NEW j \in DOMAIN r, r[j].type = kind
      PROVE  done[i].n < r[j].n
  BY <1>1, <1>3, <1>8 DEF Conveys
<1> QED
  BY <1>5, <1>6, <1>7, <1>8 DEF Conveys, r

LEMMA ConveysOther ==
  ASSUME NEW S, NEW done, NEW q \in Seq(S), NEW kind, NEW c, NEW max, NEW m \in S,
         Conveys(done, q, kind, c, max), m.type # kind
  PROVE  Conveys(done, Append(q, m), kind, c, max)
<1> DEFINE r == Append(q, m)
<1>1. \A j \in DOMAIN r : r[j].type = kind => j \in DOMAIN q /\ r[j] = q[j]
  BY Appending
<1> HIDE DEF r
<1> QED
  BY <1>1 DEF Conveys, r

-----------------------------------------------------------------------------
(* What a chunk is, and what it leaves.                                    *)

LEMMA UnreadIs ==
  ASSUME NEW S, NEW q \in Seq(S), NEW n \in 1..Len(q)
  PROVE  /\ Unread(q, n) \in Seq(S)
         /\ \A j \in DOMAIN Unread(q, n) :
              j \in Nat /\ j # 0 /\ j + n \in DOMAIN q /\ Unread(q, n)[j] = q[j + n]
<1>1. Len(q) \in Nat /\ n \in Nat /\ n + 1 \in 1..(Len(q) + 1)
  OBVIOUS
<1> QED
  BY <1>1 DEF Unread

LEMMA ChunkIs ==
  ASSUME NEW S, NEW q \in Seq(S), NEW n \in 1..Len(q), NEW whole \in BOOLEAN
  PROVE  \/ Chunk(q, n, whole) = Malformed
         \/ n = 1 /\ Chunk(q, n, whole) = q[1] /\ 1 \in DOMAIN q /\ q[1] \in S
<1>1. Len(SubSeq(q, 1, n)) = n /\ SubSeq(q, 1, n)[1] = q[1] /\ 1 \in DOMAIN q
  OBVIOUS
<1>2. n = 1 => Head(SubSeq(q, 1, n)) = q[1]
  BY <1>1
<1> QED
  BY <1>1, <1>2 DEF Chunk, Deserialized

LEMMA ConveysRest ==
  ASSUME NEW S, NEW done, NEW q \in Seq(S), NEW kind, NEW c, NEW max, NEW n \in 1..Len(q),
         Conveys(done, q, kind, c, max)
  PROVE  Conveys(done, Unread(q, n), kind, c, max)
<1> DEFINE r == Unread(q, n)
<1>1. \A j \in DOMAIN r : j \in Nat /\ j + n \in DOMAIN q /\ r[j] = q[j + n]
  BY UnreadIs
<1>2. n \in Nat
  OBVIOUS
<1> HIDE DEF r
<1>3. \A i, j \in DOMAIN r : i < j => i + n < j + n
  BY <1>1, <1>2
<1> QED
  BY <1>1, <1>3 DEF Conveys, r

LEMMA ConveysTaken ==
  ASSUME NEW S, NEW T, NEW done \in Seq(T), NEW q \in Seq(S), NEW kind, NEW c, NEW max \in Nat,
         1 \in DOMAIN q, q[1].type = kind, q[1] \in T,
         Conveys(done, q, kind, c, max)
  PROVE  Conveys(Append(done, q[1]), Unread(q, 1), kind, c, max)
<1> DEFINE r == Unread(q, 1)
           d == Append(done, q[1])
<1>1. 1 \in 1..Len(q)
  OBVIOUS
<1>2. \A j \in DOMAIN r : j \in Nat /\ j # 0 /\ j + 1 \in DOMAIN q /\ r[j] = q[j + 1]
  BY <1>1, UnreadIs
<1>3. \A i \in DOMAIN d : \/ i \in DOMAIN done /\ d[i] = done[i]
                          \/ i = Len(done) + 1 /\ d[i] = q[1]
  BY Appending
<1>4. Len(done) \in Nat /\ DOMAIN done = 1..Len(done)
  OBVIOUS
<1>5. Conveys(done, r, kind, c, max)
  BY <1>1, ConveysRest
<1> HIDE DEF r, d
<1>6. \A j \in DOMAIN r : 1 < j + 1
  BY <1>2
<1>7. \A i \in DOMAIN d : d[i].type = kind /\ d[i].of = c /\ d[i].n \in 1..max
  BY <1>3 DEF Conveys
<1>8. InOrder(d)
  <2> SUFFICES ASSUME NEW i \in DOMAIN d, NEW j \in DOMAIN d, i < j PROVE d[i].n < d[j].n
    BY DEF InOrder
  <2>1. i \in DOMAIN done /\ d[i] = done[i]
    BY <1>3, <1>4
  <2>2. CASE j \in DOMAIN done /\ d[j] = done[j]
    BY <2>1, <2>2 DEF Conveys, InOrder
  <2>3. CASE d[j] = q[1]
    BY <2>1, <2>3 DEF Conveys
  <2> QED
    BY <1>3, <2>2, <2>3
<1>9. ASSUME NEW i \in DOMAIN d, NEW j \in DOMAIN r, r[j].type = kind PROVE d[i].n < r[j].n
  <2>1. CASE d[i] = q[1]
    BY <1>2, <1>6, <1>9, <2>1 DEF Conveys
  <2>2. CASE i \in DOMAIN done /\ d[i] = done[i]
    BY <1>5, <1>9, <2>2 DEF Conveys
  <2> QED
    BY <1>3, <2>1, <2>2
<1> QED
  BY <1>5, <1>7, <1>8, <1>9 DEF Conveys, r, d

-----------------------------------------------------------------------------
(* The invariant.                                                          *)

LinkTyped ==
  /\ hostUp \in BOOLEAN /\ isReadOnly \in BOOLEAN /\ terminated \in BOOLEAN
  /\ socket \in Clients \cup {None}
  /\ questions \in Nat
  /\ hostTty \in Modes /\ hostProfile \in Modes \cup {"none"}
  /\ conn \in [Clients -> {"none", "dialled", "open", "closed"}]
  /\ down \in [Clients -> Seq(ToClient)]
  /\ up \in [Clients -> Seq(ToHost)]

(* What is open, and whose shell there is, is the socket's.                *)
Owned(c) ==
  /\ conn[c] = "open" => socket = c
  /\ shell[c] # "none" => socket = c
  /\ socket = c => conn[c] \in {"open", "closed"}
  /\ shell[c] = "none" => emitted[c] = 0

(* A client has a connection as soon as it has a session.                  *)
Started(c) ==
  /\ clientUp[c] = "off" => conn[c] = "none" /\ up[c] = <<>>
  /\ clientUp[c] = "up" => conn[c] # "none"
  /\ conn[c] = "none" <=> session[c] = "IDLE"
  /\ approval[c] = "APPROVED" => shell[c] # "none"

(* A knock is the first packet of its client, and it is read once.         *)
Knocking(c) ==
  \A i \in DOMAIN up[c] : up[c][i].type = "KNOCK" =>
    i = 1 /\ (socket = c => questions = 0 /\ shell[c] = "none")

Asking == questions # 0 => questions = 1 /\ socket # None /\ shell[socket] = "none"

(* The two directions of a session.                                        *)
Downstream(c) == Conveys(shown[c], down[c], "OUTPUT", c, emitted[c])
Upstream(c) ==
  /\ Conveys(heard[c], up[c], "INPUT", c, sent[c])
  /\ isReadOnly => heard[c] = <<>>

Linked(c) == Owned(c) /\ Started(c) /\ Knocking(c)
Flows(c) == Downstream(c) /\ Upstream(c)

Inv == TypeOK /\ Asking /\ \A c \in Clients : Linked(c) /\ Flows(c)

LEMMA TypeParts ==
  /\ TypeOK <=> PtyTypeOK /\ ConsoleTypeOK /\ LinkTyped
  /\ PtyTypeOK' /\ ConsoleTypeOK' /\ LinkTyped' => TypeOK'
  BY DEF TypeOK, LinkTyped

LEMMA Packets ==
  /\ Close \in ToClient /\ Close \in ToHost
  /\ \A c \in Clients : Knock(c) \in ToHost
  /\ Outputs \subseteq ToClient /\ Inputs \subseteq ToHost
  /\ \A m \in ToClient : m.type = "OUTPUT" => m \in Outputs
  /\ \A m \in ToHost : m.type = "INPUT" => m \in Inputs
  /\ \A c, n : /\ Output(c, n).type = "OUTPUT" /\ Output(c, n).of = c /\ Output(c, n).n = n
               /\ Input(c, n).type = "INPUT" /\ Input(c, n).of = c /\ Input(c, n).n = n
               /\ Knock(c).type = "KNOCK"
  /\ Close.type = "CLOSE" /\ Malformed.type = "MALFORMED"
<1>1. /\ \A c, n : /\ Output(c, n).type = "OUTPUT" /\ Output(c, n).of = c /\ Output(c, n).n = n
                    /\ Input(c, n).type = "INPUT" /\ Input(c, n).of = c /\ Input(c, n).n = n
                    /\ Knock(c).type = "KNOCK"
      /\ Close.type = "CLOSE" /\ Malformed.type = "MALFORMED"
  BY DEF Output, Input, Knock, Close, Malformed
<1>2. /\ Close \in ToClient /\ Close \in ToHost
      /\ \A c \in Clients : Knock(c) \in ToHost
      /\ Outputs \subseteq ToClient /\ Inputs \subseteq ToHost
  BY DEF ToClient, ToHost
<1>3. /\ \A m \in ToClient : m.type = "OUTPUT" => m \in Outputs
      /\ \A m \in ToHost : m.type = "INPUT" => m \in Inputs
  BY <1>1 DEF ToClient, ToHost
<1> QED
  BY <1>1, <1>2, <1>3

LEMMA SentTyped ==
  ASSUME TypeOK
  PROVE  /\ \A m \in ToClient : SentDown(m) \in [Clients -> Seq(ToClient)]
         /\ \A c \in Clients, m \in ToHost : SentUp(c, m) \in [Clients -> Seq(ToHost)]
<1>1. ASSUME NEW m \in ToClient PROVE SentDown(m) \in [Clients -> Seq(ToClient)]
  <2>1. \A c \in Clients : Append(down[c], m) \in Seq(ToClient)
    BY Appending DEF TypeOK
  <2> QED
    BY <2>1 DEF TypeOK, SentDown
<1>2. ASSUME NEW c \in Clients, NEW m \in ToHost
      PROVE  SentUp(c, m) \in [Clients -> Seq(ToHost)]
  <2>1. Append(up[c], m) \in Seq(ToHost)
    BY Appending DEF TypeOK
  <2> QED
    BY <2>1 DEF TypeOK, SentUp
<1> QED
  BY <1>1, <1>2

(* What the parts of the invariant depend on.                              *)
LEMMA DownSame ==
  ASSUME NEW c \in Clients, Downstream(c),
         shown'[c] = shown[c], down'[c] = down[c], emitted'[c] = emitted[c]
  PROVE  Downstream(c)'
  BY DEF Downstream, Conveys, InOrder

LEMMA UpSame ==
  ASSUME NEW c \in Clients, Upstream(c), isReadOnly' = isReadOnly,
         heard'[c] = heard[c], up'[c] = up[c], sent'[c] = sent[c]
  PROVE  Upstream(c)'
  BY DEF Upstream, Conveys, InOrder

LEMMA ConsoleTypeSame ==
  ASSUME ConsoleTypeOK, UNCHANGED consoleVars
  PROVE  ConsoleTypeOK'
  BY DEF ConsoleTypeOK, SessionTypeOK, consoleVars, sessionVars

LEMMA PtyTypeSame ==
  ASSUME PtyTypeOK, UNCHANGED ptyVars
  PROVE  PtyTypeOK'
  BY DEF PtyTypeOK, ptyVars

LEMMA InitEstablishes == Init => Inv
<1> SUFFICES ASSUME Init PROVE Inv
  OBVIOUS
<1>1. PtyTypeOK
  BY ProtocolAssumption DEF Init, PtyInit, PtyTypeOK
<1>2. ConsoleTypeOK
  BY ProtocolAssumption DEF Init, ConsoleInit, SessionInit, ConsoleTypeOK, SessionTypeOK, Modes
<1>3. <<>> \in Seq(ToClient) /\ <<>> \in Seq(ToHost)
  OBVIOUS
<1>4. LinkTyped
  BY <1>3 DEF Init, LinkTyped, Modes
<1>5. Asking
  BY DEF Init, Asking
<1>6. ASSUME NEW c \in Clients PROVE Linked(c) /\ Flows(c)
  <2>1. /\ socket # c /\ conn[c] = "none" /\ shell[c] = "none" /\ emitted[c] = 0
        /\ clientUp[c] = "off" /\ session[c] = "IDLE" /\ approval[c] = "PENDING"
        /\ shown[c] = <<>> /\ down[c] = <<>> /\ heard[c] = <<>> /\ up[c] = <<>>
    BY NoneAssumption DEF Init, PtyInit, ConsoleInit, SessionInit
  <2> QED
    BY <2>1 DEF Linked, Owned, Started, Knocking, Flows, Downstream, Upstream, Conveys, InOrder
<1> QED
  BY <1>1, <1>2, <1>4, <1>5, <1>6, TypeParts DEF Inv

-----------------------------------------------------------------------------
(* The host's steps.                                                       *)

LEMMA HostAcceptsKeeps ==
  ASSUME Inv, NEW c \in Clients, HostAccepts(c)
  PROVE  Inv'
<1>1. /\ conn[c] = "dialled"
      /\ \/ socket = None /\ socket' = c /\ conn' = [conn EXCEPT ![c] = "open"]
         \/ socket # None /\ socket' = socket /\ conn' = [conn EXCEPT ![c] = "closed"]
      /\ UNCHANGED <<hostUp, isReadOnly, terminated, questions, hostTty, hostProfile, down,
                     up, ptyVars, consoleVars>>
  BY DEF HostAccepts, MayAccept
<1>2. TypeOK'
  <2>1. LinkTyped'
    BY <1>1 DEF Inv, TypeOK, LinkTyped
  <2> QED
    BY <1>1, <2>1, TypeParts, PtyTypeSame, ConsoleTypeSame DEF Inv
<1>3. Asking'
  BY <1>1 DEF Inv, Asking, ptyVars
<1>4. ASSUME NEW d \in Clients PROVE Owned(d)' /\ Started(d)'
  BY <1>1, NoneAssumption DEF Inv, TypeOK, Linked, Owned, Started, ptyVars, consoleVars,
     sessionVars
<1>5. ASSUME NEW d \in Clients PROVE Knocking(d)'
  BY <1>1 DEF Inv, Asking, Linked, Owned, Knocking, ptyVars
<1>6. ASSUME NEW d \in Clients PROVE Flows(d)'
  BY <1>1, DownSame, UpSame DEF Inv, Flows, ptyVars, consoleVars
<1> QED
  BY <1>2, <1>3, <1>4, <1>5, <1>6 DEF Inv, Linked

LEMMA HostReadsKeeps ==
  ASSUME Inv, NEW c \in Clients, HostReads(c)
  PROVE  Inv'
<1>1. PICK n \in 1..Len(up[c]), whole \in BOOLEAN :
        /\ up' = [up EXCEPT ![c] = Unread(@, n)]
        /\ IF Sharing THEN Executes(Chunk(up[c], n, whole)) ELSE Asks(Chunk(up[c], n, whole))
  BY DEF HostReads
<1> DEFINE q == up[c]
           m == Chunk(q, n, whole)
<1>2. /\ conn[c] = "open"
      /\ UNCHANGED <<hostUp, isReadOnly, socket, terminated, hostProfile, conn, down,
                     consoleVars>>
  BY DEF HostReads
<1>3. socket = c /\ q \in Seq(ToHost)
  BY <1>2 DEF Inv, TypeOK, Linked, Owned
<1>4. \/ m = Malformed
      \/ n = 1 /\ m = q[1] /\ 1 \in DOMAIN q /\ m \in ToHost
  BY <1>3, ChunkIs
<1>5. /\ Unread(q, n) \in Seq(ToHost)
      /\ \A j \in DOMAIN Unread(q, n) :
           j \in Nat /\ j # 0 /\ j + n \in DOMAIN q /\ Unread(q, n)[j] = q[j + n]
  BY <1>3, UnreadIs
<1>6. up'[c] = Unread(q, n) /\ \A d \in Clients \ {c} : up'[d] = up[d]
  BY <1>1 DEF Inv, TypeOK
<1>7. \A j \in DOMAIN up'[c] : up'[c][j].type # "KNOCK"
  <2> SUFFICES ASSUME NEW j \in DOMAIN Unread(q, n) PROVE q[j + n].type # "KNOCK"
    BY <1>5, <1>6
  <2>1. j \in Nat /\ j # 0 /\ n \in Nat /\ n # 0 /\ j + n \in DOMAIN q
    BY <1>5
  <2>2. j + n # 1
    BY <2>1
  <2> QED
    BY <2>1, <2>2 DEF Inv, Linked, Knocking
<1>8. CASE Sharing
  <2>1. /\ IF MayWrite(m) THEN Hears(c, m) ELSE UNCHANGED ptyVars
        /\ UNCHANGED <<questions, hostTty>>
    BY <1>1, <1>3, <1>8 DEF Executes
  <2>2. MayWrite(m) => n = 1 /\ m = q[1] /\ 1 \in DOMAIN q /\ m \in Inputs /\ ~isReadOnly
                       /\ q[1].type = "INPUT"
    BY <1>4, Packets DEF MayWrite
  <2>3. UNCHANGED <<shell, emitted>>
    BY <2>1 DEF Hears, ptyVars
  <2>4. \/ heard' = heard
        \/ MayWrite(m) /\ heard' = [heard EXCEPT ![c] = Append(@, m)]
    BY <2>1 DEF Hears, ptyVars
  <2>5. PtyTypeOK'
    <3>1. m \in Inputs => Append(heard[c], m) \in Seq(Inputs)
      BY Appending DEF Inv, TypeOK, PtyTypeOK
    <3> QED
      BY <2>2, <2>3, <2>4, <3>1 DEF Inv, TypeOK, PtyTypeOK
  <2>6. LinkTyped'
    BY <1>1, <1>2, <1>5, <2>1 DEF Inv, TypeOK, LinkTyped
  <2>7. TypeOK'
    BY <1>2, <2>5, <2>6, TypeParts, ConsoleTypeSame DEF Inv
  <2>8. Asking'
    BY <1>2, <2>1, <2>3 DEF Inv, Asking
  <2>9. ASSUME NEW d \in Clients PROVE Linked(d)'
    <3>1. Owned(d)' /\ Started(d)'
      <4>1. up[d] = <<>> => up'[d] = <<>>
        BY <1>1, <1>6
      <4> QED
        BY <1>2, <2>3, <4>1 DEF Inv, Linked, Owned, Started, consoleVars, sessionVars
    <3>2. Knocking(d)'
      BY <1>2, <1>6, <1>7, <2>1, <2>3 DEF Inv, Linked, Knocking
    <3> QED
      BY <3>1, <3>2 DEF Linked
  <2>10. ASSUME NEW d \in Clients PROVE Flows(d)'
    <3>1. Downstream(d)'
      BY <1>2, <2>3, DownSame DEF Inv, Flows, consoleVars
    <3>2. CASE d # c
      <4>1. heard'[d] = heard[d]
        BY <2>4, <3>2 DEF Inv, TypeOK, PtyTypeOK
      <4> QED
        BY <1>2, <1>6, <3>1, <3>2, <4>1, UpSame DEF Inv, Flows, consoleVars
    <3>3. CASE d = c
      <4>1. Conveys(heard[c], q, "INPUT", c, sent[c]) /\ sent[c] \in Nat
            /\ heard[c] \in Seq(Inputs)
        BY ProtocolAssumption DEF Inv, Flows, Upstream, TypeOK, ConsoleTypeOK, PtyTypeOK
      <4>2. CASE heard' = heard
        <5>1. Conveys(heard[c], Unread(q, n), "INPUT", c, sent[c])
          BY <1>3, <4>1, ConveysRest
        <5> QED
          BY <1>2, <1>6, <3>1, <3>3, <4>2, <5>1
             DEF Inv, Flows, Upstream, Conveys, InOrder, consoleVars
      <4>3. CASE MayWrite(m) /\ heard' = [heard EXCEPT ![c] = Append(@, m)]
        <5>1. Conveys(Append(heard[c], q[1]), Unread(q, 1), "INPUT", c, sent[c])
          BY <1>3, <2>2, <4>1, <4>3, ConveysTaken
        <5>2. /\ heard'[c] = Append(heard[c], q[1]) /\ up'[c] = Unread(q, 1)
              /\ ~isReadOnly /\ UNCHANGED <<isReadOnly, sent>>
          BY <1>2, <1>6, <2>2, <4>3 DEF Inv, TypeOK, PtyTypeOK, consoleVars
        <5> HIDE DEF q
        <5>3. Upstream(c)'
          BY <5>1, <5>2 DEF Upstream, Conveys, InOrder
        <5> QED
          BY <3>1, <3>3, <5>3 DEF Flows
      <4> QED
        BY <2>4, <4>2, <4>3
    <3> QED
      BY <3>2, <3>3
  <2> QED
    BY <2>7, <2>8, <2>9, <2>10 DEF Inv
<1>9. CASE ~Sharing
  <2>1. /\ \/ UNCHANGED <<questions, hostTty>>
           \/ m.type = "KNOCK" /\ questions' = questions + 1 /\ hostTty' = "raw"
        /\ UNCHANGED ptyVars
    BY <1>1, <1>9 DEF Asks
  <2>2. shell[c] = "none"
    BY <1>9 DEF Inv, TypeOK, PtyTypeOK, Sharing
  <2>3. m.type = "KNOCK" => questions = 0
    <3>1. m.type = "KNOCK" => 1 \in DOMAIN q /\ q[1].type = "KNOCK"
      BY <1>4, Packets
    <3> QED
      BY <1>3, <3>1 DEF Inv, Linked, Knocking
  <2>4. LinkTyped'
    BY <1>1, <1>2, <1>5, <2>1 DEF Inv, TypeOK, LinkTyped, Modes
  <2>5. TypeOK'
    BY <1>2, <2>1, <2>4, TypeParts, PtyTypeSame, ConsoleTypeSame DEF Inv
  <2>6. Asking'
    BY <1>2, <1>3, <2>1, <2>2, <2>3, NoneAssumption DEF Inv, Asking, ptyVars
  <2>7. ASSUME NEW d \in Clients PROVE Linked(d)'
    <3>1. Owned(d)' /\ Started(d)'
      <4>1. up[d] = <<>> => up'[d] = <<>>
        BY <1>1, <1>6
      <4> QED
        BY <1>2, <2>1, <4>1 DEF Inv, Linked, Owned, Started, ptyVars, consoleVars, sessionVars
    <3>2. Knocking(d)'
      BY <1>2, <1>3, <1>6, <1>7, <2>1 DEF Inv, Linked, Knocking, ptyVars
    <3> QED
      BY <3>1, <3>2 DEF Linked
  <2>8. ASSUME NEW d \in Clients PROVE Flows(d)'
    <3>1. Downstream(d)'
      BY <1>2, <2>1, DownSame DEF Inv, Flows, ptyVars, consoleVars
    <3>2. Upstream(d) /\ UNCHANGED <<isReadOnly, heard, sent>>
      BY <1>2, <2>1 DEF Inv, Flows, ptyVars, consoleVars
    <3>3. CASE d # c
      BY <1>6, <3>1, <3>2, <3>3, UpSame DEF Flows
    <3>4. CASE d = c
      <4>1. Conveys(heard[c], Unread(q, n), "INPUT", c, sent[c])
        BY <1>3, <3>2, <3>4, ConveysRest DEF Upstream
      <4> QED
        BY <1>6, <3>1, <3>2, <3>4, <4>1 DEF Flows, Upstream, Conveys, InOrder
    <3> QED
      BY <3>3, <3>4
  <2> QED
    BY <2>5, <2>6, <2>7, <2>8 DEF Inv
<1> QED
  BY <1>8, <1>9

(* Steps that touch neither the session at the socket nor a queue.         *)
LEMMA StillsKeep ==
  ASSUME Inv, PtyTypeOK', ConsoleTypeOK', LinkTyped',
         UNCHANGED <<down, up, isReadOnly, socket, questions>>,
         UNCHANGED <<shell, emitted, heard, shown, sent>>,
         \A d \in Clients : Owned(d)' /\ Started(d)'
  PROVE  Inv'
<1>1. Asking' /\ \A d \in Clients : Knocking(d)'
  BY DEF Inv, Asking, Linked, Knocking
<1>2. ASSUME NEW d \in Clients PROVE Flows(d)'
  BY DownSame, UpSame DEF Inv, Flows
<1> QED
  BY <1>1, <1>2, TypeParts DEF Inv, Linked

LEMMA HostNoticesKeeps ==
  ASSUME Inv, NEW c \in Clients, HostNotices(c)
  PROVE  Inv'
<1>1. /\ conn[c] = "open" /\ conn' = [conn EXCEPT ![c] = "closed"]
      /\ terminated' = TRUE /\ (UNCHANGED hostTty \/ HostRestores)
      /\ UNCHANGED <<hostUp, isReadOnly, socket, questions, hostProfile, down, up, ptyVars,
                     consoleVars>>
  BY DEF HostNotices, HandsBack
<1>2. hostTty' \in Modes
  BY <1>1 DEF Inv, TypeOK, HostRestores, Modes
<1>3. LinkTyped'
  BY <1>1, <1>2 DEF Inv, TypeOK, LinkTyped
<1>4. ASSUME NEW d \in Clients PROVE Owned(d)' /\ Started(d)'
  BY <1>1 DEF Inv, TypeOK, Linked, Owned, Started, ptyVars, consoleVars, sessionVars
<1>5. UNCHANGED <<shell, emitted, heard, shown, sent>>
  BY <1>1 DEF ptyVars, consoleVars
<1>6. PtyTypeOK' /\ ConsoleTypeOK'
  BY <1>1, PtyTypeSame, ConsoleTypeSame, TypeParts DEF Inv
<1> QED
  BY <1>1, <1>3, <1>4, <1>5, <1>6, StillsKeep

(* The knock has been read when the operator is asked.                     *)
LEMMA HostApprovesKeeps ==
  ASSUME Inv, HostApproves
  PROVE  Inv'
<1>1. /\ questions # 0 /\ questions' = 0 /\ hostProfile' \in {"cooked", "none"}
      /\ shell' = [shell EXCEPT ![socket] = "running"] /\ hostTty' = "raw"
      /\ UNCHANGED <<emitted, heard, hostUp, isReadOnly, socket, terminated, tcpVars,
                     consoleVars>>
  BY DEF HostApproves, Spawns, Inv, TypeOK
<1>2. questions = 1 /\ socket \in Clients /\ shell[socket] = "none"
  BY <1>1 DEF Inv, Asking, TypeOK
<1>3. PtyTypeOK' /\ ConsoleTypeOK'
  BY <1>1, ConsoleTypeSame DEF Inv, TypeOK, PtyTypeOK
<1>4. LinkTyped' /\ Asking'
  BY <1>1 DEF Inv, TypeOK, LinkTyped, Modes, tcpVars, Asking
<1>5. TypeOK'
  BY <1>3, <1>4, TypeParts
<1>6. ASSUME NEW d \in Clients PROVE Owned(d)' /\ Started(d)'
  BY <1>1, <1>2 DEF Inv, TypeOK, PtyTypeOK, Linked, Owned, Started, tcpVars, consoleVars,
     sessionVars
<1>7. ASSUME NEW d \in Clients PROVE Knocking(d)'
  BY <1>1 DEF Inv, Linked, Knocking, tcpVars
<1>8. ASSUME NEW d \in Clients PROVE Flows(d)'
  BY <1>1, DownSame, UpSame DEF Inv, Flows, tcpVars, consoleVars
<1> QED
  BY <1>4, <1>5, <1>6, <1>7, <1>8 DEF Inv, Linked

LEMMA ShellPrintsKeeps ==
  ASSUME Inv, NEW c \in Clients, ShellPrints(c)
  PROVE  Inv'
<1> DEFINE m == Output(c, emitted[c] + 1)
<1>1. /\ shell[c] = "running" /\ emitted[c] < MaxOutput
      /\ emitted' = [emitted EXCEPT ![c] = @ + 1]
      /\ down' = SentDown(m)
      /\ UNCHANGED <<shell, heard, hostVars, conn, up, consoleVars>>
  BY DEF ShellPrints, Emits
<1>2. /\ emitted[c] \in Nat /\ emitted[c] + 1 \in 1..MaxOutput
      /\ emitted'[c] = emitted[c] + 1
      /\ \A d \in Clients \ {c} : emitted'[d] = emitted[d]
  BY <1>1, ProtocolAssumption DEF Inv, TypeOK, PtyTypeOK
<1>3. m \in Outputs /\ m \in ToClient
  BY <1>2, PacketsTyped
<1>4. TypeOK'
  <2>1. PtyTypeOK'
    BY <1>1, <1>2 DEF Inv, TypeOK, PtyTypeOK
  <2>2. down' \in [Clients -> Seq(ToClient)]
    BY <1>1, <1>3, SentTyped DEF Inv
  <2>3. LinkTyped'
    BY <1>1, <2>2 DEF Inv, TypeOK, LinkTyped, hostVars
  <2> QED
    BY <1>1, <2>1, <2>3, ConsoleTypeSame, TypeParts DEF Inv
<1>5. Asking'
  BY <1>1 DEF Inv, Asking, hostVars
<1>6. ASSUME NEW d \in Clients PROVE Linked(d)'
  <2>1. Owned(d)' /\ Started(d)'
    BY <1>1, <1>2 DEF Inv, Linked, Owned, Started, hostVars, consoleVars, sessionVars
  <2>2. Knocking(d)'
    BY <1>1 DEF Inv, Linked, Knocking, hostVars
  <2> QED
    BY <2>1, <2>2 DEF Linked
<1>7. ASSUME NEW d \in Clients PROVE Flows(d)'
  <2>1. Upstream(d)'
    BY <1>1, UpSame DEF Inv, Flows, hostVars, consoleVars
  <2>2. socket = c /\ socket # None
    BY <1>1, NoneAssumption DEF Inv, Linked, Owned
  <2>3. CASE d # c
    <3>1. down'[d] = down[d]
      BY <1>1, <2>2, <2>3 DEF Inv, TypeOK, SentDown
    <3> QED
      BY <1>1, <1>2, <2>1, <2>3, <3>1, DownSame DEF Inv, Flows, consoleVars
  <2>4. CASE d = c
    <3>1. /\ Conveys(shown[c], down[c], "OUTPUT", c, emitted[c]) /\ down[c] \in Seq(ToClient)
          /\ shown' = shown
      BY <1>1 DEF Inv, Flows, Downstream, TypeOK, consoleVars
    <3>2. CASE down'[c] = down[c]
      <4>1. \A k \in 1..emitted[c] : k \in 1..(emitted[c] + 1)
        BY <1>2
      <4> QED
        BY <1>2, <2>1, <2>4, <3>1, <3>2, <4>1 DEF Flows, Downstream, Conveys, InOrder
    <3>3. CASE down'[c] = Append(down[c], m)
      <4>1. m.type = "OUTPUT" /\ m.of = c /\ m.n = emitted[c] + 1
        BY Packets
      <4>2. Conveys(shown[c], Append(down[c], m), "OUTPUT", c, emitted[c] + 1)
        <5> HIDE DEF m
        <5> QED
          BY <1>2, <1>3, <3>1, <4>1, ConveysMore
      <4> QED
        BY <1>2, <2>1, <2>4, <3>1, <3>3, <4>2 DEF Flows, Downstream, Conveys, InOrder
    <3>4. down'[c] = down[c] \/ down'[c] = Append(down[c], m)
      BY <1>1, <2>2 DEF Inv, TypeOK, SentDown
    <3> QED
      BY <3>2, <3>3, <3>4
  <2> QED
    BY <2>3, <2>4
<1> QED
  BY <1>4, <1>5, <1>6, <1>7 DEF Inv

(* The host's process ends, with a CLOSE packet or without.                *)
LEMMA HostGoneKeeps ==
  ASSUME Inv, HostGone, hostTty' \in Modes, UNCHANGED down \/ down' = SentDown(Close)
  PROVE  Inv'
<1>1. /\ hostUp' = FALSE /\ questions' = 0
      /\ conn' = [c \in Clients |-> IF conn[c] = "none" THEN "none" ELSE "closed"]
      /\ shell' = [c \in Clients |-> IF shell[c] = "running" THEN "exited" ELSE shell[c]]
      /\ UNCHANGED <<emitted, heard, isReadOnly, socket, terminated, hostProfile, up,
                     consoleVars>>
  BY DEF HostGone, ShellsEnd
<1>2. TypeOK'
  <2>1. PtyTypeOK'
    BY <1>1 DEF Inv, TypeOK, PtyTypeOK
  <2>2. down' \in [Clients -> Seq(ToClient)]
    BY SentTyped, Packets DEF Inv, TypeOK
  <2>3. LinkTyped'
    BY <1>1, <2>2 DEF Inv, TypeOK, LinkTyped
  <2> QED
    BY <1>1, <2>1, <2>3, ConsoleTypeSame, TypeParts DEF Inv
<1>3. Asking'
  BY <1>1 DEF Asking
<1>4. ASSUME NEW d \in Clients PROVE Linked(d)'
  <2>1. Owned(d)' /\ Started(d)'
    BY <1>1 DEF Inv, TypeOK, PtyTypeOK, Linked, Owned, Started, consoleVars, sessionVars
  <2>2. Knocking(d)'
    BY <1>1 DEF Inv, Linked, Knocking
  <2> QED
    BY <2>1, <2>2 DEF Linked
<1>5. ASSUME NEW d \in Clients PROVE Flows(d)'
  <2>1. Upstream(d)'
    BY <1>1, UpSame DEF Inv, Flows, consoleVars
  <2>2. Conveys(shown[d], down[d], "OUTPUT", d, emitted[d]) /\ down[d] \in Seq(ToClient)
    BY DEF Inv, Flows, Downstream, TypeOK
  <2>3. down'[d] = down[d] \/ down'[d] = Append(down[d], Close)
    BY DEF Inv, TypeOK, SentDown
  <2>4. Conveys(shown[d], Append(down[d], Close), "OUTPUT", d, emitted[d])
    BY <2>2, Packets, ConveysOther
  <2> QED
    BY <1>1, <2>1, <2>2, <2>3, <2>4 DEF Flows, Downstream, Conveys, InOrder, consoleVars
<1> QED
  BY <1>2, <1>3, <1>4, <1>5 DEF Inv

LEMMA HostStepKeeps == Inv /\ HostNext => Inv'
<1> SUFFICES ASSUME Inv, HostNext PROVE Inv'
  OBVIOUS
<1>1. hostTty \in Modes /\ (HostRestores => hostTty' \in Modes) /\ "cooked" \in Modes
  BY DEF Inv, TypeOK, HostRestores, Modes
<1>2. ASSUME NEW c \in Clients, ShellExits(c) PROVE Inv'
  BY <1>1, <1>2, HostGoneKeeps DEF ShellExits
<1>3. CASE HostRefuses
  BY <1>1, <1>3, HostGoneKeeps DEF HostRefuses
<1>4. CASE HostDies
  BY <1>1, <1>4, HostGoneKeeps DEF HostDies
<1> QED
  BY <1>2, <1>3, <1>4, HostAcceptsKeeps, HostReadsKeeps, HostNoticesKeeps, ShellPrintsKeeps,
     HostApprovesKeeps DEF HostNext

-----------------------------------------------------------------------------
(* The client's steps.  One that ends, or fails, keeps what it has shown;  *)
(* what is on its way to it is no one's.                                   *)

LEMMA GoneIs ==
  ASSUME Inv, NEW c \in Clients, clientUp[c] = "up", OnDisconnect(c) \/ Crashes(c)
  PROVE  /\ ConsoleTypeOK' /\ UNCHANGED <<shown, sent>>
         /\ clientUp'[c] \notin {"off", "up"} /\ session'[c] # "IDLE" /\ session[c] # "IDLE"
         /\ approval'[c] = "APPROVED" => approval[c] = "APPROVED"
         /\ \A d \in Clients \ {c} : /\ clientUp'[d] = clientUp[d] /\ session'[d] = session[d]
                                     /\ approval'[d] = approval[d]
<1>1. session[c] # "IDLE" /\ ConsoleTypeOK
  BY DEF Inv, TypeOK, Linked, Started
<1>2. CASE OnDisconnect(c)
  <2>1. ConsoleTypeOK'
    BY <1>1, <1>2, OnDisconnectTyped
  <2> QED
    BY <1>1, <1>2, <2>1 DEF OnDisconnect, Terminates, ConsoleTypeOK, SessionTypeOK
<1>3. CASE Crashes(c)
  BY <1>1, <1>3 DEF Crashes, ConsoleTypeOK, SessionTypeOK, sessionVars
<1> QED
  BY <1>2, <1>3

LEMMA GoneKeeps ==
  ASSUME Inv, NEW c \in Clients, clientUp[c] = "up", OnDisconnect(c) \/ Crashes(c),
         UNCHANGED <<hostVars, conn, ptyVars>>,
         \/ UNCHANGED <<up, down>>
         \/ up' = SentUp(c, Close) /\ UNCHANGED down
         \/ /\ UNCHANGED up
            /\ \E n \in 1..Len(down[c]) : down' = [down EXCEPT ![c] = Unread(@, n)]
  PROVE  Inv'
<1>1. /\ ConsoleTypeOK' /\ UNCHANGED <<shown, sent>>
      /\ clientUp'[c] \notin {"off", "up"} /\ session'[c] # "IDLE" /\ session[c] # "IDLE"
      /\ approval'[c] = "APPROVED" => approval[c] = "APPROVED"
      /\ \A d \in Clients \ {c} : /\ clientUp'[d] = clientUp[d] /\ session'[d] = session[d]
                                  /\ approval'[d] = approval[d]
  BY GoneIs
<1>2. /\ up' = up \/ up' = SentUp(c, Close)
      /\ \A d \in Clients :
           \/ up'[d] = up[d]
           \/ d = c /\ up'[d] = Append(up[d], Close)
  BY DEF SentUp, Inv, TypeOK
<1>3. \A d \in Clients :
        \/ down'[d] = down[d]
        \/ d = c /\ \E n \in 1..Len(down[d]) : down'[d] = Unread(down[d], n)
  BY DEF Inv, TypeOK
<1>4. /\ down[c] \in Seq(ToClient) /\ up[c] \in Seq(ToHost)
      /\ \A n \in 1..Len(down[c]) : Unread(down[c], n) \in Seq(ToClient)
  BY UnreadIs DEF Inv, TypeOK
<1>5. TypeOK'
  <2>1. down' \in [Clients -> Seq(ToClient)]
    BY <1>4 DEF Inv, TypeOK
  <2>2. up' \in [Clients -> Seq(ToHost)]
    BY <1>2, SentTyped, Packets DEF Inv, TypeOK
  <2>3. LinkTyped'
    BY <2>1, <2>2 DEF Inv, TypeOK, LinkTyped, hostVars
  <2> QED
    BY <1>1, <2>3, PtyTypeSame, TypeParts DEF Inv
<1>6. Asking'
  BY DEF Inv, Asking, hostVars, ptyVars
<1>7. ASSUME NEW d \in Clients PROVE Owned(d)' /\ Started(d)'
  <2>1. Owned(d)'
    BY DEF Inv, Linked, Owned, hostVars, ptyVars
  <2>2. CASE d = c
    BY <1>1, <2>1, <2>2 DEF Inv, Linked, Started, ptyVars
  <2>3. CASE d # c
    <3>1. /\ clientUp'[d] = clientUp[d] /\ session'[d] = session[d] /\ up'[d] = up[d]
          /\ approval'[d] = approval[d] /\ conn'[d] = conn[d] /\ shell'[d] = shell[d]
      BY <1>1, <1>2, <2>3 DEF ptyVars
    <3> QED
      BY <2>1, <3>1 DEF Inv, Linked, Started
  <2> QED
    BY <2>2, <2>3
<1>8. ASSUME NEW d \in Clients PROVE Knocking(d)'
  <2>1. \A i \in DOMAIN up'[d] :
          up'[d][i].type = "KNOCK" => i \in DOMAIN up[d] /\ up'[d][i] = up[d][i]
    <3>1. ASSUME d = c, up'[c] = Append(up[c], Close), NEW i \in DOMAIN up'[c],
                 up'[c][i].type = "KNOCK"
          PROVE  i \in DOMAIN up[c] /\ up'[c][i] = up[c][i]
      BY <1>4, <3>1, Appending, Packets
    <3> QED
      BY <1>2, <3>1
  <2> QED
    BY <2>1 DEF Inv, Linked, Knocking, hostVars, ptyVars
<1>9. ASSUME NEW d \in Clients PROVE Downstream(d)'
  <2>1. Conveys(shown[d], down[d], "OUTPUT", d, emitted[d])
    BY DEF Inv, Flows, Downstream
  <2>2. ASSUME NEW n \in 1..Len(down[c]), d = c
        PROVE  Conveys(shown[d], Unread(down[d], n), "OUTPUT", d, emitted[d])
    BY <1>4, <2>1, <2>2, ConveysRest
  <2> QED
    BY <1>1, <1>3, <2>1, <2>2 DEF Downstream, Conveys, InOrder, ptyVars
<1>10. ASSUME NEW d \in Clients PROVE Upstream(d)'
  <2>1. Upstream(d)
    BY DEF Inv, Flows
  <2>2. d = c => Conveys(heard[c], Append(up[c], Close), "INPUT", c, sent[c])
    BY <1>4, <2>1, Packets, ConveysOther DEF Upstream
  <2>3. UNCHANGED <<heard, isReadOnly, sent>>
    BY <1>1 DEF ptyVars, hostVars
  <2>4. CASE up'[d] = up[d]
    BY <2>1, <2>3, <2>4, UpSame
  <2>5. CASE d = c /\ up'[d] = Append(up[d], Close)
    BY <2>1, <2>2, <2>3, <2>5 DEF Upstream, Conveys, InOrder
  <2> QED
    BY <1>2, <2>4, <2>5
<1> QED
  BY <1>5, <1>6, <1>7, <1>8, <1>9, <1>10 DEF Inv, Linked, Flows

LEMMA ClientFailsKeeps ==
  ASSUME Inv, NEW c \in Clients, ClientFails(c)
  PROVE  Inv'
<1>1. /\ clientUp[c] = "off" /\ clientUp' = [clientUp EXCEPT ![c] = "exited"]
      /\ UNCHANGED <<sessionVars, isConsoleRawMode, tty, profile, shown, sent, hostVars,
                     tcpVars, ptyVars>>
  BY DEF ClientFails
<1>2. PtyTypeOK' /\ ConsoleTypeOK' /\ LinkTyped'
  <2>1. ConsoleTypeOK'
    BY <1>1 DEF Inv, TypeOK, ConsoleTypeOK, SessionTypeOK, sessionVars
  <2>2. LinkTyped'
    BY <1>1 DEF Inv, TypeOK, LinkTyped, hostVars, tcpVars
  <2> QED
    BY <1>1, <2>1, <2>2, PtyTypeSame, TypeParts DEF Inv
<1>3. ASSUME NEW d \in Clients PROVE Owned(d)' /\ Started(d)'
  BY <1>1 DEF Inv, TypeOK, ConsoleTypeOK, Linked, Owned, Started, hostVars, tcpVars, ptyVars,
     sessionVars
<1> QED
  BY <1>1, <1>2, <1>3, StillsKeep DEF hostVars, tcpVars, ptyVars

LEMMA ClientConnectsKeeps ==
  ASSUME Inv, NEW c \in Clients, ClientConnects(c)
  PROVE  Inv'
<1>1. /\ clientUp[c] = "off" /\ clientUp' = [clientUp EXCEPT ![c] = "up"]
      /\ conn' = [conn EXCEPT ![c] = "dialled"]
      /\ session' = [session EXCEPT ![c] = "CONNECTING"]
      /\ listening' = [listening EXCEPT ![c] = TRUE]
      /\ up' = SentUp(c, Knock(c))
      /\ UNCHANGED <<approval, isConsoleRawMode, tty, profile, shown, sent, hostVars, down,
                     ptyVars>>
  BY DEF ClientConnects, Starts, Subscribed
<1>2. conn[c] = "none" /\ up[c] = <<>> /\ socket # c
  BY <1>1 DEF Inv, Linked, Owned, Started
<1>3. /\ up'[c] = <<Knock(c)>>
      /\ \A d \in Clients \ {c} : up'[d] = up[d] /\ conn'[d] = conn[d]
                                  /\ session'[d] = session[d] /\ clientUp'[d] = clientUp[d]
      /\ clientUp'[c] = "up" /\ conn'[c] = "dialled" /\ session'[c] = "CONNECTING"
  BY <1>1, <1>2 DEF SentUp, Inv, TypeOK, ConsoleTypeOK, SessionTypeOK
<1>4. TypeOK'
  <2>1. ConsoleTypeOK'
    BY <1>1 DEF Inv, TypeOK, ConsoleTypeOK, SessionTypeOK
  <2>2. up' \in [Clients -> Seq(ToHost)]
    BY <1>1, SentTyped, Packets DEF Inv
  <2>3. LinkTyped'
    BY <1>1, <2>2 DEF Inv, TypeOK, LinkTyped, hostVars
  <2> QED
    BY <1>1, <2>1, <2>3, PtyTypeSame, TypeParts DEF Inv
<1>5. Asking'
  BY <1>1 DEF Inv, Asking, hostVars, ptyVars
<1>6. ASSUME NEW d \in Clients PROVE Owned(d)' /\ Started(d)'
  <2>1. Owned(d)'
    BY <1>1, <1>2, <1>3 DEF Inv, Linked, Owned, hostVars, ptyVars
  <2>2. Started(d)'
    BY <1>1, <1>3 DEF Inv, Linked, Started, ptyVars
  <2> QED
    BY <2>1, <2>2
<1>7. ASSUME NEW d \in Clients PROVE Knocking(d)'
  <2>1. DOMAIN <<Knock(c)>> = {1}
    OBVIOUS
  <2> QED
    BY <1>1, <1>2, <1>3, <2>1 DEF Inv, Linked, Knocking, hostVars, ptyVars
<1>8. ASSUME NEW d \in Clients PROVE Flows(d)'
  <2>1. Downstream(d)'
    BY <1>1, DownSame DEF Inv, Flows, ptyVars
  <2>2. CASE d # c
    BY <1>1, <1>3, <2>1, <2>2, UpSame DEF Inv, Flows, hostVars, ptyVars
  <2>3. CASE d = c
    <3>1. Upstream(c) /\ up[c] \in Seq(ToHost) /\ up'[c] = Append(up[c], Knock(c))
      BY <1>2, <1>3 DEF Inv, Flows, TypeOK
    <3>2. Conveys(heard[c], Append(up[c], Knock(c)), "INPUT", c, sent[c])
      BY <3>1, Packets, ConveysOther DEF Upstream
    <3> QED
      BY <1>1, <2>1, <2>3, <3>1, <3>2
         DEF Flows, Upstream, Conveys, InOrder, hostVars, ptyVars
  <2> QED
    BY <2>2, <2>3
<1> QED
  BY <1>4, <1>5, <1>6, <1>7, <1>8 DEF Inv, Linked

LEMMA ClientTypesKeeps ==
  ASSUME Inv, NEW c \in Clients, ClientTypes(c)
  PROVE  Inv'
<1> DEFINE m == Input(c, sent[c] + 1)
<1>1. /\ sent[c] < MaxInput /\ sent' = [sent EXCEPT ![c] = @ + 1]
      /\ up' = SentUp(c, m) /\ session[c] = "ACTIVE"
      /\ UNCHANGED <<sessionVars, clientUp, isConsoleRawMode, tty, profile, shown>>
      /\ UNCHANGED <<hostVars, conn, down, ptyVars>>
  BY DEF ClientTypes, Types, MaySend
<1>2. /\ sent[c] \in Nat /\ sent[c] + 1 \in 1..MaxInput /\ sent'[c] = sent[c] + 1
      /\ \A d \in Clients \ {c} : sent'[d] = sent[d]
  BY <1>1, ProtocolAssumption DEF Inv, TypeOK, ConsoleTypeOK
<1>3. m \in Inputs /\ m \in ToHost /\ m.type = "INPUT" /\ m.of = c /\ m.n = sent[c] + 1
  BY <1>2, PacketsTyped, Packets
<1>4. \A d \in Clients : \/ up'[d] = up[d]
                         \/ d = c /\ up'[d] = Append(up[d], m)
  BY <1>1 DEF SentUp, Inv, TypeOK
<1>5. TypeOK'
  <2>1. ConsoleTypeOK'
    BY <1>1, <1>2 DEF Inv, TypeOK, ConsoleTypeOK, SessionTypeOK, sessionVars
  <2>2. up' \in [Clients -> Seq(ToHost)]
    BY <1>1, <1>3, SentTyped DEF Inv
  <2>3. LinkTyped'
    BY <1>1, <2>2 DEF Inv, TypeOK, LinkTyped, hostVars
  <2> QED
    BY <1>1, <2>1, <2>3, PtyTypeSame, TypeParts DEF Inv
<1>6. Asking'
  BY <1>1 DEF Inv, Asking, hostVars, ptyVars
<1>7. ASSUME NEW d \in Clients PROVE Owned(d)' /\ Started(d)'
  <2>1. clientUp[c] = "up"
    BY DEF ClientTypes
  <2> QED
    BY <1>1, <1>4, <2>1 DEF Inv, Linked, Owned, Started, hostVars, ptyVars, sessionVars
<1> HIDE DEF m
<1>8. ASSUME NEW d \in Clients PROVE Knocking(d)'
  <2>1. up[d] \in Seq(ToHost)
    BY DEF Inv, TypeOK
  <2>2. \A i \in DOMAIN Append(up[d], m) :
          Append(up[d], m)[i].type = "KNOCK"
            => i \in DOMAIN up[d] /\ Append(up[d], m)[i] = up[d][i]
    BY <1>3, <2>1, Appending
  <2> QED
    BY <1>1, <1>4, <2>2 DEF Inv, Linked, Knocking, hostVars, ptyVars
<1>9. ASSUME NEW d \in Clients PROVE Flows(d)'
  <2>1. Downstream(d)'
    BY <1>1, DownSame DEF Inv, Flows, ptyVars
  <2>2. CASE d # c
    BY <1>1, <1>2, <1>4, <2>1, <2>2, UpSame DEF Inv, Flows, hostVars, ptyVars
  <2>3. CASE d = c
    <3>1. Upstream(c) /\ up[c] \in Seq(ToHost)
      BY DEF Inv, Flows, TypeOK
    <3>2. Conveys(heard[c], Append(up[c], m), "INPUT", c, sent[c] + 1)
      BY <1>2, <1>3, <3>1, ConveysMore DEF Upstream
    <3>3. \A k \in 1..sent[c] : k \in 1..(sent[c] + 1)
      BY <1>2
    <3>4. UNCHANGED <<heard, isReadOnly>>
      BY <1>1 DEF hostVars, ptyVars
    <3>5. CASE up'[c] = up[c]
      BY <1>2, <2>1, <2>3, <3>1, <3>3, <3>4, <3>5 DEF Flows, Upstream, Conveys, InOrder
    <3>6. CASE up'[c] = Append(up[c], m)
      BY <1>2, <2>1, <2>3, <3>1, <3>2, <3>4, <3>6 DEF Flows, Upstream, Conveys, InOrder
    <3> QED
      BY <1>4, <3>5, <3>6
  <2> QED
    BY <2>2, <2>3
<1> QED
  BY <1>5, <1>6, <1>7, <1>8, <1>9 DEF Inv, Linked

(* Output reaches a client after the host's operator said yes: nothing     *)
(* else makes a shell, and only a shell prints.                            *)
LEMMA DisplaysKeeps ==
  ASSUME Inv, NEW c \in Clients, 1 \in DOMAIN down[c], down[c][1].type = "OUTPUT",
         clientUp[c] = "up", OnOutput(c, down[c][1]),
         down' = [down EXCEPT ![c] = Unread(@, 1)],
         UNCHANGED <<hostVars, conn, up, ptyVars>>
  PROVE  Inv'
<1> DEFINE q == down[c]
           m == down[c][1]
<1>1. /\ Conveys(shown[c], q, "OUTPUT", c, emitted[c])
      /\ q \in Seq(ToClient) /\ shown[c] \in Seq(Outputs) /\ emitted[c] \in Nat
  BY ProtocolAssumption DEF Inv, Flows, Downstream, TypeOK, ConsoleTypeOK, PtyTypeOK
<1>2. m \in Outputs /\ 1 \in 1..Len(q)
  BY <1>1, Packets
<1>3. shell[c] # "none"
  <2>1. m.n \in 1..emitted[c]
    BY <1>1 DEF Conveys
  <2>2. emitted[c] # 0
    BY <1>1, <2>1
  <2> QED
    BY <2>2 DEF Inv, Linked, Owned
<1>4. session[c] # "IDLE"
  BY DEF Inv, Linked, Started
<1>5. /\ UNCHANGED <<clientUp, sent>>
      /\ session'[c] # "IDLE"
      /\ \A d \in Clients \ {c} : /\ session'[d] = session[d] /\ approval'[d] = approval[d]
                                  /\ shown'[d] = shown[d] /\ down'[d] = down[d]
      /\ shown'[c] = shown[c] \/ shown'[c] = Append(shown[c], m)
      /\ down'[c] = Unread(q, 1)
  BY <1>4 DEF OnOutput, TakesOutput, Displays, Inv, TypeOK, ConsoleTypeOK, SessionTypeOK
<1>6. TypeOK'
  <2>1. Unread(q, 1) \in Seq(ToClient)
    BY <1>1, <1>2, UnreadIs
  <2>2. LinkTyped'
    BY <2>1 DEF Inv, TypeOK, LinkTyped, hostVars
  <2> QED
    BY <1>2, <2>2, PtyTypeSame, OnOutputTyped, TypeParts DEF Inv
<1>7. Asking'
  BY DEF Inv, Asking, hostVars, ptyVars
<1>8. ASSUME NEW d \in Clients PROVE Linked(d)'
  <2>1. Owned(d)' /\ Knocking(d)'
    BY DEF Inv, Linked, Owned, Knocking, hostVars, ptyVars
  <2>2. CASE d = c
    BY <1>3, <1>4, <1>5, <2>1, <2>2 DEF Inv, Linked, Started, ptyVars
  <2>3. CASE d # c
    BY <1>5, <2>1, <2>3 DEF Inv, Linked, Started, ptyVars
  <2> QED
    BY <2>2, <2>3
<1>9. ASSUME NEW d \in Clients PROVE Flows(d)'
  <2>1. Upstream(d)'
    BY <1>5, UpSame DEF Inv, Flows, hostVars, ptyVars
  <2>2. CASE d # c
    BY <1>5, <2>1, <2>2, DownSame DEF Inv, Flows, ptyVars
  <2>3. CASE d = c
    <3>1. /\ Conveys(shown[c], Unread(q, 1), "OUTPUT", c, emitted[c])
          /\ Conveys(Append(shown[c], m), Unread(q, 1), "OUTPUT", c, emitted[c])
      BY <1>1, <1>2, ConveysRest, ConveysTaken
    <3>2. UNCHANGED emitted
      BY DEF ptyVars
    <3>3. shown'[c] = shown[c] \/ shown'[c] = Append(shown[c], m)
      BY <1>5
    <3>4. down'[c] = Unread(q, 1)
      BY <1>5
    <3> HIDE DEF q, m
    <3>5. CASE shown'[c] = shown[c]
      BY <2>1, <2>3, <3>1, <3>2, <3>4, <3>5 DEF Flows, Downstream, Conveys, InOrder
    <3>6. CASE shown'[c] = Append(shown[c], m)
      BY <2>1, <2>3, <3>1, <3>2, <3>4, <3>6 DEF Flows, Downstream, Conveys, InOrder
    <3> QED
      BY <3>3, <3>5, <3>6
  <2> QED
    BY <2>2, <2>3
<1> QED
  BY <1>6, <1>7, <1>8, <1>9 DEF Inv

(* A chunk that is no packet is lost, whatever it held.                    *)
LEMMA LosesKeeps ==
  ASSUME Inv, NEW c \in Clients, NEW n \in 1..Len(down[c]),
         down' = [down EXCEPT ![c] = Unread(@, n)],
         UNCHANGED <<hostVars, conn, up, ptyVars, consoleVars>>
  PROVE  Inv'
<1>1. down[c] \in Seq(ToClient)
  BY DEF Inv, TypeOK
<1>2. TypeOK'
  <2>1. Unread(down[c], n) \in Seq(ToClient)
    BY <1>1, UnreadIs
  <2>2. LinkTyped'
    BY <2>1 DEF Inv, TypeOK, LinkTyped, hostVars
  <2> QED
    BY <2>2, PtyTypeSame, ConsoleTypeSame, TypeParts DEF Inv
<1>3. Asking'
  BY DEF Inv, Asking, hostVars, ptyVars
<1>4. ASSUME NEW d \in Clients PROVE Linked(d)'
  BY DEF Inv, Linked, Owned, Started, Knocking, hostVars, ptyVars, consoleVars, sessionVars
<1>5. ASSUME NEW d \in Clients PROVE Flows(d)'
  <2>1. Upstream(d)'
    BY UpSame DEF Inv, Flows, hostVars, ptyVars, consoleVars
  <2>2. CASE d # c
    BY <2>1, <2>2, DownSame DEF Inv, TypeOK, Flows, ptyVars, consoleVars
  <2>3. CASE d = c
    <3>1. Conveys(shown[c], Unread(down[c], n), "OUTPUT", c, emitted[c])
      BY <1>1, ConveysRest DEF Inv, Flows, Downstream
    <3>2. down'[c] = Unread(down[c], n)
      BY DEF Inv, TypeOK
    <3> QED
      BY <2>1, <2>3, <3>1, <3>2 DEF Flows, Downstream, Conveys, InOrder, ptyVars, consoleVars
  <2> QED
    BY <2>2, <2>3
<1> QED
  BY <1>2, <1>3, <1>4, <1>5 DEF Inv

LEMMA ClientReadsKeeps ==
  ASSUME Inv, NEW c \in Clients, ClientReads(c)
  PROVE  Inv'
<1>1. PICK n \in 1..Len(down[c]), whole \in BOOLEAN :
        /\ down' = [down EXCEPT ![c] = Unread(@, n)]
        /\ LET m == Chunk(down[c], n, whole) IN
             \/ m.type = "OUTPUT" /\ OnOutput(c, m)
             \/ m.type = "CLOSE" /\ OnDisconnect(c)
             \/ m = Malformed /\ UNCHANGED consoleVars
  BY DEF ClientReads
<1> DEFINE m == Chunk(down[c], n, whole)
<1>2. clientUp[c] = "up" /\ UNCHANGED <<hostVars, conn, up, ptyVars>>
  BY DEF ClientReads
<1>3. \/ m = Malformed
      \/ n = 1 /\ m = down[c][1] /\ 1 \in DOMAIN down[c]
  BY ChunkIs DEF Inv, TypeOK
<1>4. CASE m.type = "OUTPUT" /\ OnOutput(c, m)
  BY <1>1, <1>2, <1>3, <1>4, Packets, DisplaysKeeps
<1>5. CASE m.type = "CLOSE" /\ OnDisconnect(c)
  BY <1>1, <1>2, <1>5, GoneKeeps
<1>6. CASE m = Malformed /\ UNCHANGED consoleVars
  BY <1>1, <1>2, <1>6, LosesKeeps
<1> QED
  BY <1>1, <1>4, <1>5, <1>6

LEMMA ClientStepKeeps == Inv /\ ClientNext => Inv'
<1> SUFFICES ASSUME Inv, NEW c \in Clients,
                    \/ ClientConnects(c) \/ ClientFails(c) \/ ClientReads(c)
                    \/ ClientNotices(c) \/ ClientTypes(c) \/ ClientDetaches(c)
                    \/ ClientCrashes(c)
             PROVE  Inv'
  BY DEF ClientNext
<1>1. CASE ClientNotices(c)
  BY <1>1, GoneKeeps DEF ClientNotices, tcpVars
<1>2. CASE ClientDetaches(c)
  BY <1>2, GoneKeeps DEF ClientDetaches
<1>3. CASE ClientCrashes(c)
  BY <1>3, GoneKeeps DEF ClientCrashes, Crashes, tcpVars
<1> QED
  BY <1>1, <1>2, <1>3, ClientConnectsKeeps, ClientFailsKeeps, ClientReadsKeeps,
     ClientTypesKeeps

LEMMA StutterKeeps ==
  ASSUME Inv, UNCHANGED vars
  PROVE  Inv'
<1>1. UNCHANGED <<ptyVars, consoleVars, hostVars, tcpVars>>
  BY DEF vars
<1>2. LinkTyped'
  BY <1>1 DEF Inv, TypeOK, LinkTyped, hostVars, tcpVars
<1>3. ASSUME NEW d \in Clients PROVE Owned(d)' /\ Started(d)'
  BY <1>1 DEF Inv, Linked, Owned, Started, ptyVars, consoleVars, sessionVars, hostVars, tcpVars
<1> QED
  BY <1>1, <1>2, <1>3, StillsKeep, PtyTypeSame, ConsoleTypeSame, TypeParts
     DEF Inv, ptyVars, consoleVars, hostVars, tcpVars

(* Inv holds in every reachable state.                                     *)
LEMMA Invariance == Spec => []Inv
<1>1. Inv /\ [Next]_vars => Inv'
  BY HostStepKeeps, ClientStepKeeps, StutterKeeps DEF Next
<1> QED
  BY <1>1, InitEstablishes, PTL DEF Spec

-----------------------------------------------------------------------------
(* Every variable keeps its type.                                          *)
THEOREM TypeCorrect == Spec => []TypeOK
<1>1. Inv => TypeOK
  BY DEF Inv
<1> QED
  BY <1>1, Invariance, PTL

(* One answer of the operator never decides on two clients, and no         *)
(* question is put over a session: the handshake listener hears one knock, *)
(* since createServer keeps one connection for good.                       *)
THEOREM OperatorAskedOnce == Spec => []AskedOnce
<1>1. Inv => AskedOnce
  <2> SUFFICES ASSUME Inv PROVE AskedOnce
    OBVIOUS
  <2>1. questions <= 1
    BY DEF Inv, TypeOK, Asking
  <2>2. ASSUME questions > 0 PROVE ~Sharing /\ session[socket] # "IDLE"
    <3>1. questions # 0 /\ socket \in Clients /\ shell[socket] = "none"
      BY <2>2 DEF Inv, TypeOK, Asking
    <3>2. \A c \in Clients : shell[c] = "none"
      BY <3>1 DEF Inv, Linked, Owned
    <3>3. conn[socket] # "none"
      BY <3>1 DEF Inv, Linked, Owned
    <3> QED
      BY <3>1, <3>2, <3>3 DEF Inv, Linked, Started, Sharing
  <2>3. \A c, d \in Clients : shell[c] # "none" /\ shell[d] # "none" => c = d
    BY DEF Inv, Linked, Owned
  <2> QED
    BY <2>1, <2>2, <2>3 DEF AskedOnce
<1> QED
  BY <1>1, Invariance, PTL

(* A client that takes itself for approved is the one at the socket, and   *)
(* the operator's yes has spawned its shell: session.ts:164 infers the     *)
(* approval from output, and there is output after the yes alone.          *)
THEOREM ApprovalIsOperators == Spec => []ApprovedByOperator
<1>1. Inv => ApprovedByOperator
  BY DEF Inv, Linked, Owned, Started, ApprovedByOperator
<1> QED
  BY <1>1, Invariance, PTL

(* What TCP joins or cuts is lost, but what both ends show or hear is in   *)
(* order and their own session's; a read-only host's shell hears nothing.  *)
THEOREM PacketsStreamInOrder == Spec => []StreamsInOrder
<1>1. Inv => StreamsInOrder
  BY DEF Inv, Flows, Downstream, Upstream, Conveys, StreamsInOrder
<1> QED
  BY <1>1, Invariance, PTL

(* A client of the loopback that ends by itself hands its terminal back    *)
(* cooked (cleanExit of local-tcp-cli-connect.ts).                         *)
THEOREM TerminalsHandedBack == Spec => []TerminalHandedBack
<1>1. Init => Console
  BY DEF Init, ConsoleInit, Console, TerminalHandedBack
<1>2. TypeOK /\ Console /\ [Next]_vars => Console'
  <2> SUFFICES ASSUME TypeOK, Console, [Next]_vars PROVE Console'
    OBVIOUS
  <2>1. ConsoleTypeOK
    BY DEF TypeOK
  <2>2. CASE HostNext \/ UNCHANGED vars
    <3>1. UNCHANGED consoleVars
      BY <2>2 DEF HostNext, HostAccepts, HostReads, HostNotices, ShellPrints, ShellExits,
         HostApproves, HostRefuses, HostDies, HostGone, vars
    <3> QED
      BY <3>1, ConsoleSame DEF consoleVars
  <2>3. ASSUME NEW c \in Clients, ClientConnects(c) \/ ClientFails(c) PROVE Console'
    BY <2>1, <2>3 DEF ClientConnects, ClientFails, Console, TerminalHandedBack, ConsoleTypeOK
  <2>4. ASSUME NEW c \in Clients, ClientReads(c) PROVE Console'
    BY <2>1, <2>4, ConsoleSame, ConsoleDisplays, ConsoleDisconnects
       DEF ClientReads, consoleVars
  <2>5. ASSUME NEW c \in Clients, ClientNotices(c) \/ ClientDetaches(c) PROVE Console'
    BY <2>1, <2>5, ConsoleDisconnects DEF ClientNotices, ClientDetaches
  <2>6. ASSUME NEW c \in Clients, ClientTypes(c) PROVE Console'
    BY <2>6, ConsoleSame DEF ClientTypes, Types
  <2>7. ASSUME NEW c \in Clients, ClientCrashes(c) PROVE Console'
    BY <2>1, <2>7, ConsoleCrashes DEF ClientCrashes
  <2> QED
    BY <2>2, <2>3, <2>4, <2>5, <2>6, <2>7 DEF Next, ClientNext
<1>3. Console => TerminalHandedBack
  BY DEF Console
<1> QED
  BY <1>1, <1>2, <1>3, TypeCorrect, PTL DEF Spec

-----------------------------------------------------------------------------
(* The refinement: every step is one of the shared shell, or changes       *)
(* nothing that it speaks of.                                              *)
Promise == <<Users, shell, emitted, heard, shown, sent, isReadOnly>>

LEMMA UsersSame ==
  ASSUME UNCHANGED clientUp
  PROVE  Users' = Users
  BY DEF Users

LEMMA UserLeaves ==
  ASSUME Inv, NEW c \in Clients, clientUp[c] # "exited" /\ clientUp[c] # "crashed",
         \/ clientUp' = [clientUp EXCEPT ![c] = "exited"]
         \/ clientUp' = [clientUp EXCEPT ![c] = "crashed"],
         UNCHANGED <<shell, emitted, heard, shown, sent, isReadOnly>>
  PROVE  Shared!Next
<1>1. Users[c] # "gone"
  BY DEF Users, Inv, TypeOK, ConsoleTypeOK
<1>2. Users' = [Users EXCEPT ![c] = "gone"]
  BY DEF Users, Inv, TypeOK, ConsoleTypeOK
<1>3. Shared!Leave(c)
  BY <1>1, <1>2 DEF Shared!Leave
<1> QED
  BY <1>3 DEF Shared!Next

LEMMA HostEndsMaps ==
  ASSUME HostGone
  PROVE  Shared!Next
<1>1. UNCHANGED <<clientUp, emitted, heard, shown, sent, isReadOnly>>
  BY DEF HostGone, ShellsEnd, consoleVars
<1>2. Shared!EndShells
  BY <1>1, UsersSame DEF HostGone, ShellsEnd, Shared!EndShells
<1> QED
  BY <1>2 DEF Shared!Next

LEMMA HostReadsMaps ==
  ASSUME Inv, NEW c \in Clients, HostReads(c)
  PROVE  Shared!Next \/ Promise' = Promise
<1>1. PICK n \in 1..Len(up[c]), whole \in BOOLEAN :
        IF Sharing THEN Executes(Chunk(up[c], n, whole)) ELSE Asks(Chunk(up[c], n, whole))
  BY DEF HostReads
<1> DEFINE m == Chunk(up[c], n, whole)
<1>2. /\ socket = c /\ up[c] \in Seq(ToHost)
      /\ UNCHANGED <<clientUp, shown, sent, isReadOnly>>
  BY DEF HostReads, Inv, TypeOK, Linked, Owned, consoleVars
<1>3. CASE UNCHANGED ptyVars
  BY <1>2, <1>3, UsersSame DEF Promise, ptyVars
<1>4. CASE MayWrite(m) /\ Hears(c, m) /\ shell[c] = "running"
  <2>1. m = up[c][1] /\ 1 \in DOMAIN up[c] /\ m \in Inputs /\ m.type = "INPUT" /\ ~isReadOnly
    BY <1>2, <1>4, ChunkIs, Packets DEF MayWrite
  <2> DEFINE k == m.n
  <2>2. Conveys(heard[c], up[c], "INPUT", c, sent[c])
    BY DEF Inv, Flows, Upstream
  <2>3. m.of = c /\ k \in 1..sent[c] /\ \A i \in DOMAIN heard[c] : heard[c][i].n < k
    BY <2>1, <2>2 DEF Conveys
  <2>4. m = Input(c, k)
    BY <2>1, <2>3, PacketsAre
  <2>5. Shared!MayFollow(heard[c], k, sent[c])
    BY <2>3 DEF Shared!MayFollow
  <2>6. /\ heard' = [heard EXCEPT ![c] = Append(@, m)]
        /\ UNCHANGED <<Users, shell, emitted, shown, sent, isReadOnly>>
    BY <1>2, <1>4, UsersSame DEF Hears
  <2> HIDE DEF m, k
  <2>7. Shared!Hear(c, k)
    BY <1>4, <2>1, <2>4, <2>5, <2>6 DEF Shared!Hear, Shared!Input, Input
  <2> QED
    BY <2>3, <2>7 DEF Shared!Next
<1> QED
  BY <1>1, <1>2, <1>3, <1>4 DEF Executes, Asks, Hears, ptyVars

LEMMA HostStepMaps ==
  ASSUME Inv, HostNext
  PROVE  Shared!Next \/ Promise' = Promise
<1>1. ASSUME NEW c \in Clients, HostAccepts(c) \/ HostNotices(c) PROVE Promise' = Promise
  BY <1>1, UsersSame DEF HostAccepts, HostNotices, Promise, ptyVars, consoleVars
<1>2. ASSUME NEW c \in Clients, ShellPrints(c) PROVE Shared!Next
  <2>1. Shared!Speak(c)
    BY <1>2, UsersSame DEF ShellPrints, Emits, hostVars, consoleVars, Shared!Speak
  <2> QED
    BY <2>1 DEF Shared!Next
<1>3. CASE HostApproves
  <2>1. socket \in Clients /\ shell[socket] = "none"
    BY <1>3 DEF HostApproves, Inv, Asking, TypeOK
  <2>2. Shared!Spawn(socket)
    BY <1>3, <2>1, UsersSame DEF HostApproves, Spawns, consoleVars, Shared!Spawn
  <2> QED
    BY <2>1, <2>2 DEF Shared!Next
<1>4. CASE HostRefuses \/ HostDies \/ \E c \in Clients : ShellExits(c)
  BY <1>4, HostEndsMaps DEF HostRefuses, HostDies, ShellExits
<1> QED
  BY <1>1, <1>2, <1>3, <1>4, HostReadsMaps DEF HostNext

LEMMA DisplaysMaps ==
  ASSUME Inv, NEW c \in Clients, clientUp[c] = "up", 1 \in DOMAIN down[c],
         down[c][1].type = "OUTPUT", OnOutput(c, down[c][1]),
         UNCHANGED <<hostVars, ptyVars>>
  PROVE  Shared!Next \/ Promise' = Promise
<1> DEFINE m == down[c][1]
           k == m.n
<1>1. /\ Users' = Users /\ Users[c] = "here"
      /\ UNCHANGED <<shell, emitted, heard, sent, isReadOnly>>
  BY UsersSame DEF OnOutput, ptyVars, hostVars, Users
<1>2. Conveys(shown[c], down[c], "OUTPUT", c, emitted[c])
  BY DEF Inv, Flows, Downstream
<1>3. m.of = c /\ k \in 1..emitted[c] /\ \A i \in DOMAIN shown[c] : shown[c][i].n < k
  BY <1>2 DEF Conveys
<1>4. m \in Outputs
  BY Packets DEF Inv, TypeOK
<1>5. m = Output(c, k)
  BY <1>3, <1>4, PacketsAre
<1>6. Shared!MayFollow(shown[c], k, emitted[c])
  BY <1>3 DEF Shared!MayFollow
<1>7. UNCHANGED shown \/ shown' = [shown EXCEPT ![c] = Append(@, m)]
  BY DEF OnOutput, Displays
<1> HIDE DEF m, k
<1>8. CASE UNCHANGED shown
  BY <1>1, <1>8 DEF Promise
<1>9. CASE shown' = [shown EXCEPT ![c] = Append(@, m)]
  <2>1. Shared!Show(c, k)
    BY <1>1, <1>5, <1>6, <1>9 DEF Shared!Show, Shared!Output, Output
  <2> QED
    BY <1>3, <2>1 DEF Shared!Next
<1> QED
  BY <1>7, <1>8, <1>9

LEMMA ClientStepMaps ==
  ASSUME Inv, ClientNext
  PROVE  Shared!Next \/ Promise' = Promise
<1>1. PICK c \in Clients :
        \/ ClientConnects(c) \/ ClientFails(c) \/ ClientReads(c) \/ ClientNotices(c)
        \/ ClientTypes(c) \/ ClientDetaches(c) \/ ClientCrashes(c)
  BY DEF ClientNext
<1>2. UNCHANGED <<shell, emitted, heard, isReadOnly>>
  BY <1>1 DEF ClientConnects, ClientFails, ClientReads, ClientNotices, ClientTypes,
     ClientDetaches, ClientCrashes, ptyVars, hostVars
<1>3. CASE ClientConnects(c)
  <2>1. Users' = [Users EXCEPT ![c] = "here"] /\ Users[c] = "away"
    BY <1>3 DEF ClientConnects, Users, Inv, TypeOK, ConsoleTypeOK
  <2>2. Shared!Enter(c)
    BY <1>2, <1>3, <2>1 DEF ClientConnects, Shared!Enter
  <2> QED
    BY <2>2 DEF Shared!Next
<1>4. CASE ClientFails(c) \/ ClientCrashes(c)
  BY <1>2, <1>4, UserLeaves DEF ClientFails, ClientCrashes, Crashes
<1>5. ASSUME clientUp[c] = "up", OnDisconnect(c) PROVE Shared!Next
  BY <1>2, <1>5, UserLeaves DEF OnDisconnect
<1>6. CASE ClientNotices(c) \/ ClientDetaches(c)
  BY <1>5, <1>6 DEF ClientNotices, ClientDetaches
<1>7. CASE ClientTypes(c)
  <2>1. Users[c] = "here" /\ Users' = Users
    BY <1>7, UsersSame DEF ClientTypes, Types, Users
  <2>2. Shared!Type(c)
    BY <1>2, <1>7, <2>1 DEF ClientTypes, Types, Shared!Type
  <2> QED
    BY <2>2 DEF Shared!Next
<1>8. CASE ClientReads(c)
  <2>1. PICK n \in 1..Len(down[c]), whole \in BOOLEAN :
          LET m == Chunk(down[c], n, whole) IN
             \/ m.type = "OUTPUT" /\ OnOutput(c, m)
             \/ m.type = "CLOSE" /\ OnDisconnect(c)
             \/ m = Malformed /\ UNCHANGED consoleVars
    BY <1>8 DEF ClientReads
  <2> DEFINE m == Chunk(down[c], n, whole)
  <2>2. clientUp[c] = "up" /\ UNCHANGED <<hostVars, ptyVars>>
    BY <1>8 DEF ClientReads
  <2>3. CASE m.type = "OUTPUT" /\ OnOutput(c, m)
    <3>1. m = down[c][1] /\ 1 \in DOMAIN down[c]
      BY <2>3, ChunkIs, Packets DEF Inv, TypeOK
    <3> QED
      BY <2>2, <2>3, <3>1, DisplaysMaps
  <2>4. CASE OnDisconnect(c)
    BY <1>5, <2>2, <2>4
  <2>5. CASE UNCHANGED consoleVars
    BY <1>2, <2>5, UsersSame DEF consoleVars, Promise
  <2> QED
    BY <2>1, <2>3, <2>4, <2>5
<1> QED
  BY <1>1, <1>3, <1>4, <1>6, <1>7, <1>8

(* The local path implements the shared shell: it may lose packets, and    *)
(* does nothing else that a shell with a user at either end would not.     *)
THEOREM LocalSharingKeepsItsPromise == Spec => ImplementsSharedShell
<1>1. Init => Shared!Init
  <2> SUFFICES ASSUME Init PROVE Shared!Init
    OBVIOUS
  <2>1. Users \in [Clients -> {"away", "here"}]
    BY DEF Init, ConsoleInit, Users
  <2> QED
    BY <2>1 DEF Init, PtyInit, ConsoleInit, Shared!Init
<1>2. Inv /\ [Next]_vars => [Shared!Next]_(Shared!sharedVars)
  <2> SUFFICES ASSUME Inv, [Next]_vars PROVE Shared!Next \/ Promise' = Promise
    BY DEF Promise, Shared!sharedVars
  <2>1. CASE UNCHANGED vars
    BY <2>1, UsersSame DEF vars, ptyVars, consoleVars, hostVars, Promise
  <2> QED
    BY <2>1, HostStepMaps, ClientStepMaps DEF Next
<1> QED
  BY <1>1, <1>2, Invariance, PTL DEF Spec, ImplementsSharedShell, Shared!Spec

===============================================================================
