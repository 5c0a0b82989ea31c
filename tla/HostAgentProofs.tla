---------------------------- MODULE HostAgentProofs ----------------------------
(***************************************************************************)
(* Every step of a host, in whatever system it runs, keeps the types of    *)
(* its state and the discipline of its lock and of its terminal.  First,   *)
(* what the operations on the sockets do, which others use as well.        *)
(***************************************************************************)
EXTENDS HostAgent, SequenceTheorems, TLAPS

-----------------------------------------------------------------------------
(* The sockets: what the operations on them do to their types, and to what *)
(* a queue holds, for the proofs about all the programs that use them.     *)

(* The frames the programs build are frames of the protocol.               *)
LEMMA FramesTyped ==
  /\ HostRegister \in FramesToServer
  /\ \A k \in Codes : ClientLookup(k) \in FramesToServer /\ HostRegistered(k) \in FramesToPeer
  /\ \A c \in Clients : ApprovalRequest(c) \in Forwarded
  /\ \A c \in Clients, b \in BOOLEAN : ApprovalResponse(c, b) \in Forwarded
  /\ \A h \in Hosts, c \in Clients : Offer(h, c) \in Forwarded
  /\ \A d \in Clients, h \in Hosts, c \in Clients : Answer(d, h, c) \in Forwarded
  /\ MatchSuccess \in FramesToPeer /\ MatchFailed \in FramesToPeer
  /\ \A c \in Clients : ClientDisconnect(c) \in FramesToPeer
  /\ Forwarded \subseteq FramesToServer
  /\ Forwarded \subseteq FramesToPeer
  BY DEF FramesToServer, FramesToPeer, Forwarded, Requests, Responses, Offers, Answers

(* What a frame of each type carries.                                      *)
LEMMA FrameFields ==
  ASSUME NEW m \in FramesToPeer
  PROVE  /\ m.type \in {"APPROVAL_REQUEST", "CLIENT_DISCONNECT"} => m.clientId \in Clients
         /\ m.type = "SIGNAL_FORWARD" => \/ m \in Offers
                                         \/ m \in Answers
         /\ (m.type = "SIGNAL_FORWARD" /\ m.sdp = "answer") => m.from \in Clients
         /\ (m.type = "SIGNAL_FORWARD") => m.for \in Hosts \X Clients
  BY DEF FramesToPeer, Forwarded, Requests, Responses, Offers, Answers, HostRegistered,
         MatchSuccess, MatchFailed, ClientDisconnect, ApprovalRequest, ApprovalResponse,
         Offer, Answer

Lookups == {ClientLookup(k) : k \in Codes}

(* The frames each peer writes.                                            *)
HostFrames(h) == {HostRegister} \cup Responses \cup {Offer(h, c) : c \in Clients}
ClientFrames(c) ==
  Lookups \cup {ApprovalRequest(c)} \cup {Answer(c, h, d) : h \in Hosts, d \in Clients}

(* Frames of different kinds, or about different peers, differ.            *)
LEMMA FramesDiffer ==
  /\ \A k, l : ClientLookup(k) = ClientLookup(l) => k = l
  /\ \A c, d : ApprovalRequest(c) = ApprovalRequest(d) => c = d
  /\ \A c, d, a, b : ApprovalResponse(c, a) = ApprovalResponse(d, b) => c = d /\ a = b
  /\ \A g, h, c, d : Offer(g, c) = Offer(h, d) => g = h /\ c = d
  /\ HostRegister \notin Lookups \cup Forwarded \cup {MatchSuccess, MatchFailed}
  /\ Lookups \cap Forwarded = {} /\ Lookups \cap {MatchSuccess, MatchFailed} = {}
  /\ {MatchSuccess, MatchFailed} \cap Forwarded = {} /\ MatchSuccess # MatchFailed
  /\ Requests \cap (Responses \cup Offers \cup Answers) = {}
  /\ Responses \cap (Offers \cup Answers) = {}
  /\ Offers \cap Answers = {}
  /\ \A k : HostRegistered(k) \notin Forwarded \cup {MatchSuccess, MatchFailed}
<1>1. /\ \A k, l : ClientLookup(k) = ClientLookup(l) => k = l
      /\ \A c, d : ApprovalRequest(c) = ApprovalRequest(d) => c = d
      /\ \A c, d, a, b : ApprovalResponse(c, a) = ApprovalResponse(d, b) => c = d /\ a = b
      /\ \A g, h, c, d : Offer(g, c) = Offer(h, d) => g = h /\ c = d
  BY DEF ClientLookup, ApprovalRequest, ApprovalResponse, Offer
<1>2. /\ \A m \in Lookups : m.type = "CLIENT_LOOKUP"
      /\ HostRegister.type = "HOST_REGISTER"
      /\ MatchSuccess.type = "MATCH_SUCCESS"
      /\ MatchFailed.type = "MATCH_FAILED"
      /\ \A k : HostRegistered(k).type = "HOST_REGISTERED"
      /\ \A m \in Requests : m.type = "APPROVAL_REQUEST"
      /\ \A m \in Responses : m.type = "APPROVAL_RESPONSE"
      /\ \A m \in Offers : m.type = "SIGNAL_FORWARD" /\ m.sdp = "offer"
      /\ \A m \in Answers : m.type = "SIGNAL_FORWARD" /\ m.sdp = "answer"
  BY DEF Lookups, ClientLookup, HostRegister, MatchSuccess, MatchFailed, HostRegistered,
         Requests, ApprovalRequest, Responses, ApprovalResponse, Offers, Offer, Answers, Answer
<1>3. \A m \in Forwarded : m.type \in {"APPROVAL_REQUEST", "APPROVAL_RESPONSE", "SIGNAL_FORWARD"}
  BY <1>2 DEF Forwarded
<1> QED
  BY <1>1, <1>2, <1>3

(* What the sets of frames contain.                                        *)
LEMMA FramesAre ==
  /\ \A c \in Clients : ApprovalRequest(c) \in Requests
  /\ \A c \in Clients, b \in BOOLEAN : ApprovalResponse(c, b) \in Responses
  /\ \A h \in Hosts, c \in Clients : Offer(h, c) \in Offers
  /\ \A d \in Clients, h \in Hosts, c \in Clients : Answer(d, h, c) \in Answers
  /\ \A k \in Codes : ClientLookup(k) \in Lookups
  /\ \A h \in Hosts : HostFrames(h) \subseteq {HostRegister} \cup Responses \cup Offers
  /\ \A c \in Clients : ClientFrames(c) \subseteq Lookups \cup {ApprovalRequest(c)} \cup Answers
  BY DEF Requests, Responses, Offers, Answers, Lookups, HostFrames, ClientFrames

LEMMA WrittenTyped ==
  ASSUME ChannelTypeOK, NEW p \in Peers, NEW fs \in Seq(FramesToServer)
  PROVE  Written(p, fs) \in [Peers -> Seq(FramesToServer)]
  BY DEF ChannelTypeOK, Written

LEMMA ConnectTyped ==
  ASSUME ChannelTypeOK, NEW p \in Peers, NEW m \in FramesToServer, Connect(p, m)
  PROVE  ChannelTypeOK'
  BY DEF ChannelTypeOK, Connect, LinkStates

LEMMA ReadsTyped ==
  ASSUME ChannelTypeOK, NEW p \in Peers, NEW t, Reads(p, t)
  PROVE  /\ toPeer' \in [Peers -> Seq(FramesToPeer)]
         /\ Head(toPeer[p]) \in FramesToPeer
         /\ Head(toPeer[p]).type = t
  BY DEF ChannelTypeOK, Reads

LEMMA HangupTyped ==
  ASSUME ChannelTypeOK, NEW p \in Peers, Hangup(p)
  PROVE  ChannelTypeOK'
  BY DEF ChannelTypeOK, Hangup, LinkStates

LEMMA CutTyped ==
  ASSUME ChannelTypeOK, NEW p \in Peers, Cut(p)
  PROVE  ChannelTypeOK'
<1>1. PICK n \in 0..Len(toServer[p]) :
        toServer' = [toServer EXCEPT ![p] = SubSeq(@, 1, n)]
  BY DEF Cut
<1>2. SubSeq(toServer[p], 1, n) \in Seq(FramesToServer)
  BY <1>1 DEF ChannelTypeOK
<1>3. toServer' \in [Peers -> Seq(FramesToServer)]
  BY <1>1, <1>2 DEF ChannelTypeOK
<1>4. link' \in [Peers -> LinkStates] /\ toPeer' \in [Peers -> Seq(FramesToPeer)]
  BY DEF ChannelTypeOK, Cut, LinkStates
<1> QED
  BY <1>3, <1>4 DEF ChannelTypeOK

-----------------------------------------------------------------------------
(* What queues hold: s has no element of S, and s has none after an f.     *)

Free(s, S) == \A i \in DOMAIN s : s[i] \notin S
Orderly(s, f, S) == \A i, j \in DOMAIN s : (i < j /\ s[i] = f) => s[j] \notin S

(* s is what is left of t when its head is taken, its end is lost, or all  *)
(* of it.                                                                  *)
Less(s, t) ==
  \/ s = t
  \/ s = <<>>
  \/ t # <<>> /\ s = Tail(t)
  \/ \E n \in 0..Len(t) : s = SubSeq(t, 1, n)

LEMMA FreeOfMember ==
  ASSUME NEW T, NEW s \in Seq(T), NEW S, NEW f \in S, Free(s, S)
  PROVE  Free(s, {f})
  BY DEF Free

LEMMA FreeIsOrderly ==
  ASSUME NEW s, NEW f, NEW S, Free(s, {f})
  PROVE  Orderly(s, f, S)
  BY DEF Free, Orderly

LEMMA EmptyHolds ==
  ASSUME NEW f, NEW S
  PROVE  Free(<<>>, S) /\ Orderly(<<>>, f, S)
  BY DEF Free, Orderly

LEMMA TailHolds ==
  ASSUME NEW T, NEW s \in Seq(T), s # <<>>, NEW f, NEW S
  PROVE  /\ Free(s, S) => Free(Tail(s), S)
         /\ Orderly(s, f, S) => Orderly(Tail(s), f, S)
         /\ (Orderly(s, f, S) /\ Head(s) = f) => Free(Tail(s), S)
         /\ (Free(Tail(s), S) /\ Head(s) \notin S) => Free(s, S)
         /\ Free(s, S) => Head(s) \notin S
<1>1. /\ Len(s) \in Nat \ {0} /\ Len(Tail(s)) = Len(s) - 1
      /\ \A i \in 1..(Len(s) - 1) : Tail(s)[i] = s[i + 1]
      /\ Head(s) = s[1]
      /\ DOMAIN s = 1..Len(s) /\ DOMAIN Tail(s) = 1..(Len(s) - 1)
  OBVIOUS
<1> DEFINE t == Tail(s)
           n == Len(s)
<1> HIDE DEF t, n
<1>2. /\ n \in Nat \ {0} /\ DOMAIN s = 1..n /\ DOMAIN t = 1..(n - 1)
      /\ \A i \in 1..(n - 1) : t[i] = s[i + 1]
      /\ Head(s) = s[1]
  BY <1>1 DEF t, n
<1>3. \A i \in DOMAIN t : i + 1 \in DOMAIN s /\ t[i] = s[i + 1]
  BY <1>2
<1>4. Free(s, S) => Free(t, S)
  BY <1>3 DEF Free
<1>5. Orderly(s, f, S) => Orderly(t, f, S)
  BY <1>2, <1>3 DEF Orderly
<1>6. (Orderly(s, f, S) /\ Head(s) = f) => Free(t, S)
  BY <1>2, <1>3 DEF Free, Orderly
<1>7. (Free(t, S) /\ Head(s) \notin S) => Free(s, S)
  <2>1. \A i \in DOMAIN s : i = 1 \/ (i - 1 \in DOMAIN t /\ s[i] = t[i - 1])
    BY <1>2
  <2> QED
    BY <1>2, <2>1 DEF Free
<1>8. Free(s, S) => Head(s) \notin S
  BY <1>2 DEF Free
<1> QED
  BY <1>4, <1>5, <1>6, <1>7, <1>8 DEF t

LEMMA ConcatHolds ==
  ASSUME NEW T, NEW s \in Seq(T), NEW t \in Seq(T), NEW f, NEW S
  PROVE  /\ Free(s \o t, S) <=> Free(s, S) /\ Free(t, S)
         /\ (Orderly(s, f, S) /\ Orderly(t, f, S) /\ (Free(s, {f}) \/ Free(t, S)))
               => Orderly(s \o t, f, S)
<1> DEFINE n == Len(s)
           k == Len(t)
           u == s \o t
<1>1. /\ n \in Nat /\ k \in Nat /\ DOMAIN s = 1..n /\ DOMAIN t = 1..k
      /\ DOMAIN u = 1..(n + k)
      /\ \A i \in 1..(n + k) : u[i] = IF i <= n THEN s[i] ELSE t[i - n]
  OBVIOUS
<1> HIDE DEF n, k, u
<1>2. \A i \in DOMAIN u : \/ i \in DOMAIN s /\ u[i] = s[i]
                          \/ i > n /\ i - n \in DOMAIN t /\ u[i] = t[i - n]
  BY <1>1
<1>3. /\ \A i \in DOMAIN s : i <= n /\ i \in DOMAIN u /\ u[i] = s[i]
      /\ \A i \in DOMAIN t : i + n \in DOMAIN u /\ u[i + n] = t[i]
  BY <1>1
<1>4. Free(u, S) <=> Free(s, S) /\ Free(t, S)
  BY <1>2, <1>3 DEF Free
<1>5. ASSUME Orderly(s, f, S), Orderly(t, f, S), Free(s, {f}) \/ Free(t, S),
             NEW i \in DOMAIN u, NEW j \in DOMAIN u, i < j, u[i] = f
      PROVE  u[j] \notin S
  <2>1. CASE i \in DOMAIN s /\ u[i] = s[i] /\ j \in DOMAIN s /\ u[j] = s[j]
    BY <1>5, <2>1 DEF Orderly
  <2>2. CASE /\ i > n /\ i - n \in DOMAIN t /\ u[i] = t[i - n]
             /\ j > n /\ j - n \in DOMAIN t /\ u[j] = t[j - n]
    <3>1. i - n < j - n
      BY <1>1, <1>5
    <3> QED
      BY <1>5, <2>2, <3>1 DEF Orderly
  <2>3. CASE /\ i \in DOMAIN s /\ u[i] = s[i]
             /\ j > n /\ j - n \in DOMAIN t /\ u[j] = t[j - n]
    BY <1>5, <2>3 DEF Free
  <2>4. ~(i > n /\ j \in DOMAIN s)
    BY <1>1, <1>5
  <2> QED
    BY <1>2, <2>1, <2>2, <2>3, <2>4
<1> QED
  BY <1>4, <1>5 DEF Orderly, u

LEMMA SingleHolds ==
  ASSUME NEW g, NEW f, NEW S
  PROVE  /\ Free(<<g>>, S) <=> g \notin S
         /\ Orderly(<<g>>, f, S)
  BY DEF Free, Orderly

LEMMA AppendHolds ==
  ASSUME NEW T, NEW s \in Seq(T), NEW g \in T, NEW f, NEW S
  PROVE  /\ Append(s, g) \in Seq(T)
         /\ Free(Append(s, g), S) <=> Free(s, S) /\ g \notin S
         /\ (Orderly(s, f, S) /\ (Free(s, {f}) \/ g \notin S)) => Orderly(Append(s, g), f, S)
<1>1. Append(s, g) = s \o <<g>> /\ <<g>> \in Seq(T) /\ Append(s, g) \in Seq(T)
  OBVIOUS
<1>2. /\ Free(s \o <<g>>, S) <=> Free(s, S) /\ Free(<<g>>, S)
      /\ (Orderly(s, f, S) /\ Orderly(<<g>>, f, S) /\ (Free(s, {f}) \/ Free(<<g>>, S)))
           => Orderly(s \o <<g>>, f, S)
  BY <1>1, ConcatHolds
<1> QED
  BY <1>1, <1>2, SingleHolds

LEMMA PrefixHolds ==
  ASSUME NEW T, NEW s \in Seq(T), NEW n \in 0..Len(s), NEW f, NEW S
  PROVE  /\ SubSeq(s, 1, n) \in Seq(T)
         /\ Free(s, S) => Free(SubSeq(s, 1, n), S)
         /\ Orderly(s, f, S) => Orderly(SubSeq(s, 1, n), f, S)
<1> DEFINE t == SubSeq(s, 1, n)
<1>1. t \in Seq(T) /\ \A i \in DOMAIN t : i \in DOMAIN s /\ t[i] = s[i]
  OBVIOUS
<1> HIDE DEF t
<1>2. Free(s, S) => Free(t, S)
  BY <1>1 DEF Free
<1>3. Orderly(s, f, S) => Orderly(t, f, S)
  BY <1>1 DEF Orderly
<1> QED
  BY <1>1, <1>2, <1>3 DEF t

LEMMA LessHolds ==
  ASSUME NEW T, NEW t \in Seq(T), NEW s, Less(s, t), NEW f, NEW S
  PROVE  /\ s \in Seq(T)
         /\ Free(t, S) => Free(s, S)
         /\ Orderly(t, f, S) => Orderly(s, f, S)
<1>1. CASE s = t
  BY <1>1
<1>2. CASE s = <<>>
  BY <1>2, EmptyHolds
<1>3. CASE t # <<>> /\ s = Tail(t)
  BY <1>3, TailHolds
<1>4. CASE \E n \in 0..Len(t) : s = SubSeq(t, 1, n)
  BY <1>4, PrefixHolds
<1> QED
  BY <1>1, <1>2, <1>3, <1>4 DEF Less

(* Less than one element is that element or nothing.                       *)
LEMMA LessThanOne ==
  ASSUME NEW g, NEW s, Less(s, <<g>>)
  PROVE  s \in {<<g>>, <<>>}
<1>1. CASE \E n \in 0..Len(<<g>>) : s = SubSeq(<<g>>, 1, n)
  <2>1. PICK n \in 0..1 : s = SubSeq(<<g>>, 1, n)
    BY <1>1
  <2>2. CASE n = 0
    BY <2>1, <2>2
  <2>3. CASE n = 1
    <3>1. /\ s \in Seq({g}) /\ <<g>> \in Seq({g})
          /\ Len(s) = 1 /\ Len(<<g>>) = 1 /\ s[1] = <<g>>[1]
      BY <2>1, <2>3
    <3>2. s = <<g>>
      BY <3>1, SeqEqual
    <3> QED
      BY <3>2
  <2> QED
    BY <2>2, <2>3
<1> QED
  BY <1>1 DEF Less

LEMMA NothingLess ==
  ASSUME NEW s, Less(s, <<>>)
  PROVE  s = <<>>
  BY DEF Less

-----------------------------------------------------------------------------
(* The host.                                                               *)

HostTypes == ChannelTypeOK /\ RtcTypeOK /\ HostTypeOK

LEMMA HostIsPeer == Hosts \subseteq Peers
  BY DEF Peers

-----------------------------------------------------------------------------
(* Types: the helpers.                                                     *)

(* The process of h ends, one way or another.                              *)
Leaves(h) == \E how \in {"exited", "crashed"}, raw \in BOOLEAN : HostEnds(h, how, raw)

LEMMA ExitsLeave ==
  ASSUME HostTypes, NEW h \in Hosts
  PROVE  /\ HostExits(h) => Leaves(h)
         /\ HostDies(h) => Leaves(h)
         /\ HostEnds(h, "exited", Restored(stdin[h])) => Leaves(h)
<1>1. stdin[h].raw \in BOOLEAN /\ stdin[h].saved \in BOOLEAN
  BY DEF HostTypes, HostTypeOK, Stdins
<1> QED
  BY <1>1 DEF Leaves, HostExits, HostDies, Restored

LEMMA HostExitTyped ==
  ASSUME HostTypes, NEW h \in Hosts, Leaves(h)
  PROVE  HostTypes'
<1>0. PICK how \in {"exited", "crashed"}, raw \in BOOLEAN : HostEnds(h, how, raw)
  BY DEF Leaves
<1>1. ChannelTypeOK'
  BY <1>0, HostIsPeer, CutTyped DEF HostEnds, HostTypes
<1>2. RtcTypeOK'
  BY <1>0 DEF HostEnds, HostTypes, RtcTypeOK, HostPcStates
<1>3. HostTypeOK'
  <2>1. /\ hostUp' \in [Hosts -> {"off", "up", "exited", "crashed"}]
        /\ approvalQueue' \in [Hosts -> Seq(Clients)]
        /\ isApproving' \in [Hosts -> BOOLEAN]
    BY <1>0 DEF HostEnds, HostTypes, HostTypeOK
  <2>2. /\ lobby' \in [Hosts -> Lobbies \cup {None}]
        /\ settled' \in [Hosts -> Settlements \cup {None}]
    BY <1>0 DEF HostEnds, HostTypes, HostTypeOK
  <2>3. /\ shell' \in [Hosts -> [Clients -> {"none", "running", "ended"}]]
        /\ stdin' \in [Hosts -> Stdins]
        /\ verdicts' \in [Clients -> Seq(BOOLEAN)]
    BY <1>0 DEF HostEnds, HostTypes, HostTypeOK, Stdins
  <2> QED
    BY <2>1, <2>2, <2>3 DEF HostTypeOK
<1> QED
  BY <1>1, <1>2, <1>3 DEF HostTypes

LEMMA RenderedTyped ==
  ASSUME NEW q \in Seq(Clients), NEW i \in Nat
  PROVE  Rendered(q, i) \in Lobbies
  BY DEF Rendered, Lobbies

LEMMA HighlightedTyped ==
  ASSUME NEW l \in Lobbies
  PROVE  Highlighted(l) \in Choices
<1>1. l.cursor \in Nat /\ l.entries \in Seq(Clients)
  BY DEF Lobbies
<1>2. l.cursor < Len(l.entries) => l.entries[l.cursor + 1] \in Clients
  BY <1>1
<1> QED
  BY <1>2 DEF Highlighted, Choices

LEMMA FinishTyped ==
  ASSUME HostTypes, NEW h \in Hosts, NEW r \in Choices, lobby[h] \in Lobbies, Finish(h, r)
  PROVE  /\ settled' \in [Hosts -> Settlements \cup {None}]
         /\ stdin' \in [Hosts -> Stdins]
<1>1. [result |-> r, seen |-> Highlighted(lobby[h])] \in Settlements
  BY HighlightedTyped DEF Settlements
<1> QED
  BY <1>1 DEF Finish, HostTypes, HostTypeOK, Stdins

LEMMA ProcessQueueTyped ==
  ASSUME HostTypes, NEW h \in Hosts, NEW q \in Seq(Clients), ProcessQueue(h, q)
  PROVE  /\ isApproving' \in [Hosts -> BOOLEAN]
         /\ lobby' \in [Hosts -> Lobbies \cup {None}]
         /\ stdin' \in [Hosts -> Stdins]
<1>1. CASE MayPrompt(h, q)
  <2>1. Rendered(q, 0) \in Lobbies
    BY RenderedTyped
  <2>2. /\ isApproving' = [isApproving EXCEPT ![h] = TRUE]
        /\ lobby' = [lobby EXCEPT ![h] = Rendered(q, 0)]
        /\ stdin' = [stdin EXCEPT ![h].raw = TRUE, ![h].readers = {Lobby}]
    BY <1>1 DEF ProcessQueue, LobbyReads
  <2>3. isApproving' \in [Hosts -> BOOLEAN] /\ lobby' \in [Hosts -> Lobbies \cup {None}]
    BY <2>1, <2>2 DEF HostTypes, HostTypeOK
  <2>4. stdin' \in [Hosts -> Stdins]
    BY <2>2 DEF HostTypes, HostTypeOK, Stdins
  <2> QED
    BY <2>3, <2>4
<1>2. CASE ~MayPrompt(h, q)
  BY <1>2 DEF ProcessQueue, HostTypes, HostTypeOK
<1> QED
  BY <1>1, <1>2

LEMMA WithoutTyped ==
  ASSUME NEW q \in Seq(Clients), NEW c
  PROVE  Without(q, c) \in Seq(Clients)
<1>1. CASE \A i \in DOMAIN q : q[i] # c
  BY <1>1 DEF Without
<1>2. CASE ~\A i \in DOMAIN q : q[i] # c
  <2> DEFINE i == CHOOSE j \in DOMAIN q : q[j] = c
  <2>1. i \in 1..Len(q)
    BY <1>2
  <2>2. Without(q, c) = SubSeq(q, 1, i - 1) \o SubSeq(q, i + 1, Len(q))
    BY <1>2 DEF Without
  <2> HIDE DEF i
  <2>3. SubSeq(q, 1, i - 1) \in Seq(Clients) /\ SubSeq(q, i + 1, Len(q)) \in Seq(Clients)
    BY <2>1
  <2> QED
    BY <2>2, <2>3
<1> QED
  BY <1>1, <1>2

LEMMA DenialsTyped ==
  ASSUME NEW q \in Seq(Clients)
  PROVE  Denials(q) \in Seq(FramesToServer)
<1>1. ASSUME NEW i \in 1..Len(q)
      PROVE  Denial(q[i]) \in FramesToServer
  <2>1. q[i] \in Clients
    OBVIOUS
  <2> QED
    BY <2>1, FramesTyped DEF Denial
<1>2. [i \in 1..Len(q) |-> Denial(q[i])] \in Seq(FramesToServer)
  BY <1>1, IsASeq
<1> QED
  BY <1>2 DEF Denials

(* What stands before and after an element of the queue.                   *)
LEMMA HalvesAre ==
  ASSUME NEW q \in Seq(Clients), NEW i \in DOMAIN q
  PROVE  /\ SubSeq(q, 1, i - 1) \in Seq(Clients) /\ Len(SubSeq(q, 1, i - 1)) = i - 1
         /\ \A j \in 1..(i - 1) : SubSeq(q, 1, i - 1)[j] = q[j]
         /\ SubSeq(q, i + 1, Len(q)) \in Seq(Clients)
         /\ Len(SubSeq(q, i + 1, Len(q))) = Len(q) - i
         /\ \A j \in 1..(Len(q) - i) : SubSeq(q, i + 1, Len(q))[j] = q[i + j]
<1>1. Len(q) \in Nat /\ DOMAIN q = 1..Len(q) /\ i \in 1..Len(q)
  OBVIOUS
<1>2. i - 1 \in 0..Len(q) /\ i + 1 \in 1..(Len(q) + 1)
  BY <1>1
<1>3. /\ SubSeq(q, 1, i - 1) \in Seq(Clients) /\ Len(SubSeq(q, 1, i - 1)) = i - 1
      /\ \A j \in 1..(i - 1) : SubSeq(q, 1, i - 1)[j] = q[j]
  BY <1>1, <1>2
<1>4. /\ SubSeq(q, i + 1, Len(q)) \in Seq(Clients)
      /\ Len(SubSeq(q, i + 1, Len(q))) = Len(q) - i
      /\ \A j \in 1..(Len(q) - i) : SubSeq(q, i + 1, Len(q))[j] = q[i + j]
  BY <1>1, <1>2
<1> QED
  BY <1>3, <1>4

(* The queue without a client, and the denials of those in it.             *)
LEMMA WithoutHolds ==
  ASSUME NEW q \in Seq(Clients), NEW c \in Clients, Orderly(q, c, {c}), NEW d \in Clients
  PROVE  Free(Without(q, c), {d}) <=> (Free(q, {d}) \/ d = c)
<1>1. CASE \A i \in DOMAIN q : q[i] # c
  BY <1>1 DEF Without, Free
<1>2. CASE ~\A i \in DOMAIN q : q[i] # c
  <2> DEFINE i == CHOOSE j \in DOMAIN q : q[j] = c
             n == Len(q)
             w == Without(q, c)
  <2>1. i \in DOMAIN q /\ q[i] = c /\ DOMAIN q = 1..n /\ n \in Nat
    BY <1>2
  <2>2. w = SubSeq(q, 1, i - 1) \o SubSeq(q, i + 1, Len(q))
    BY <1>2 DEF Without
  <2> HIDE DEF i
  <2>3. /\ SubSeq(q, 1, i - 1) \in Seq(Clients) /\ Len(SubSeq(q, 1, i - 1)) = i - 1
        /\ \A j \in 1..(i - 1) : SubSeq(q, 1, i - 1)[j] = q[j]
        /\ SubSeq(q, i + 1, n) \in Seq(Clients) /\ Len(SubSeq(q, i + 1, n)) = n - i
        /\ \A j \in 1..(n - i) : SubSeq(q, i + 1, n)[j] = q[i + j]
    BY <2>1, HalvesAre
  <2> DEFINE s == SubSeq(q, 1, i - 1)
             t == SubSeq(q, i + 1, n)
  <2>4. /\ s \in Seq(Clients) /\ DOMAIN s = 1..(i - 1) /\ \A j \in 1..(i - 1) : s[j] = q[j]
        /\ t \in Seq(Clients) /\ DOMAIN t = 1..(n - i) /\ \A j \in 1..(n - i) : t[j] = q[i + j]
        /\ w = s \o t
    BY <2>2, <2>3
  <2> HIDE DEF s, t, n, w
  <2>5. Free(w, {d}) <=> Free(s, {d}) /\ Free(t, {d})
    BY <2>4, ConcatHolds
  <2>6. \A j \in DOMAIN q : q[j] = c => j = i
    BY <2>1 DEF Orderly
  <2>7. ASSUME Free(q, {d}) \/ d = c
        PROVE  Free(s, {d}) /\ Free(t, {d})
    <3>1. /\ \A j \in DOMAIN s : j \in DOMAIN q /\ j # i /\ s[j] = q[j]
          /\ \A j \in DOMAIN t : i + j \in DOMAIN q /\ i + j # i /\ t[j] = q[i + j]
      BY <2>1, <2>4
    <3> QED
      BY <2>6, <2>7, <3>1 DEF Free
  <2>8. ASSUME Free(s, {d}), Free(t, {d}), d # c
        PROVE  Free(q, {d})
    <3>1. \A j \in DOMAIN q : \/ j = i
                              \/ j \in DOMAIN s /\ q[j] = s[j]
                              \/ j - i \in DOMAIN t /\ q[j] = t[j - i]
      <4> SUFFICES ASSUME NEW j \in DOMAIN q, j # i
                   PROVE  \/ j \in DOMAIN s /\ q[j] = s[j]
                          \/ j - i \in DOMAIN t /\ q[j] = t[j - i]
        OBVIOUS
      <4>1. CASE j < i
        BY <2>1, <2>4, <4>1
      <4>2. CASE j > i
        <5>1. j - i \in 1..(n - i) /\ i + (j - i) = j
          BY <2>1, <4>2
        <5> QED
          BY <2>4, <5>1
      <4> QED
        BY <2>1, <4>1, <4>2
    <3> QED
      BY <2>1, <2>8, <3>1 DEF Free
  <2> QED
    BY <2>5, <2>7, <2>8 DEF w
<1> QED
  BY <1>1, <1>2

(* It is the queue with one entry left out.                                *)
LEMMA WithoutIs ==
  ASSUME NEW q \in Seq(Clients), NEW c
  PROVE  \/ Without(q, c) = q
         \/ \E i \in DOMAIN q :
              /\ DOMAIN Without(q, c) = 1..(Len(q) - 1)
              /\ \A j \in 1..(Len(q) - 1) : Without(q, c)[j] = q[IF j < i THEN j ELSE j + 1]
<1>1. CASE \A i \in DOMAIN q : q[i] # c
  BY <1>1 DEF Without
<1>2. CASE ~\A i \in DOMAIN q : q[i] # c
  <2> DEFINE i == CHOOSE j \in DOMAIN q : q[j] = c
             n == Len(q)
             w == SubSeq(q, 1, i - 1) \o SubSeq(q, i + 1, n)
  <2>1. i \in 1..n /\ n \in Nat /\ DOMAIN q = 1..n
    BY <1>2
  <2>2. Without(q, c) = w
    BY <1>2 DEF Without
  <2> HIDE DEF i
  <2> DEFINE s == SubSeq(q, 1, i - 1)
             t == SubSeq(q, i + 1, n)
  <2>3. /\ s \in Seq(Clients) /\ Len(s) = i - 1 /\ \A j \in 1..(i - 1) : s[j] = q[j]
        /\ t \in Seq(Clients) /\ Len(t) = n - i /\ \A j \in 1..(n - i) : t[j] = q[i + j]
    BY <2>1, HalvesAre
  <2>4. w = s \o t
    OBVIOUS
  <2> HIDE DEF s, t, n, w
  <2>5. DOMAIN w = 1..(n - 1) /\ \A j \in 1..(n - 1) : w[j] = IF j < i THEN q[j] ELSE q[j + 1]
    <3>1. /\ w \in Seq(Clients) /\ Len(w) = n - 1
          /\ \A j \in 1..(n - 1) : w[j] = IF j <= i - 1 THEN s[j] ELSE t[j - (i - 1)]
      BY <2>1, <2>3, <2>4
    <3>2. ASSUME NEW j \in 1..(n - 1), ~(j < i)
          PROVE  t[j - (i - 1)] = q[j + 1]
      <4>1. j - (i - 1) \in 1..(n - i) /\ i + (j - (i - 1)) = j + 1
        BY <2>1, <3>2
      <4> QED
        BY <2>3, <4>1
    <3>3. ASSUME NEW j \in 1..(n - 1), j < i
          PROVE  s[j] = q[j] /\ j <= i - 1
      BY <2>1, <2>3, <3>3
    <3>4. \A j \in 1..(n - 1) : ~(j < i) => ~(j <= i - 1)
      BY <2>1
    <3> QED
      BY <3>1, <3>2, <3>3, <3>4
  <2>6. \A j \in 1..(n - 1) : w[j] = q[IF j < i THEN j ELSE j + 1]
    BY <2>5
  <2> QED
    BY <2>1, <2>2, <2>5, <2>6 DEF w, n
<1> QED
  BY <1>1, <1>2

LEMMA WithoutOrderly ==
  ASSUME NEW q \in Seq(Clients), NEW c, NEW d
  PROVE  /\ Orderly(q, d, {d}) => Orderly(Without(q, c), d, {d})
         /\ Free(q, {d}) => Free(Without(q, c), {d})
<1> DEFINE w == Without(q, c)
           n == Len(q)
<1>1. CASE w = q
  BY <1>1
<1>2. CASE \E i \in DOMAIN q :
             /\ DOMAIN w = 1..(n - 1)
             /\ \A j \in 1..(n - 1) : w[j] = q[IF j < i THEN j ELSE j + 1]
  <2>1. PICK i \in DOMAIN q :
          /\ DOMAIN w = 1..(n - 1)
          /\ \A j \in 1..(n - 1) : w[j] = q[IF j < i THEN j ELSE j + 1]
    BY <1>2
  <2> DEFINE at(j) == IF j < i THEN j ELSE j + 1
  <2>2. DOMAIN q = 1..n /\ n \in Nat
    OBVIOUS
  <2> HIDE DEF w, n
  <2>3. /\ \A j \in DOMAIN w : at(j) \in DOMAIN q /\ w[j] = q[at(j)]
        /\ \A j, k \in DOMAIN w : j < k => at(j) < at(k)
    BY <2>1, <2>2
  <2> HIDE DEF at
  <2> QED
    BY <2>3 DEF Free, Orderly, w
<1> QED
  BY <1>1, <1>2, WithoutIs

LEMMA DenialsHold ==
  ASSUME NEW q \in Seq(Clients), NEW d \in Clients
  PROVE  /\ Denials(q) \in Seq(Responses)
         /\ Free(Denials(q), {Denial(d)}) <=> Free(q, {d})
         /\ Free(Denials(q), {Approval(d)})
<1>1. \A i \in 1..Len(q) : Denial(q[i]) \in Responses
  <2>1. \A i \in 1..Len(q) : q[i] \in Clients
    OBVIOUS
  <2> QED
    BY <2>1, FramesAre DEF Denial
<1>2. Denials(q) \in Seq(Responses)
  <2>1. [i \in 1..Len(q) |-> Denial(q[i])] \in Seq(Responses)
    BY <1>1, IsASeq
  <2> QED
    BY <2>1 DEF Denials
<1>3. DOMAIN Denials(q) = DOMAIN q /\ \A i \in DOMAIN q : Denials(q)[i] = Denial(q[i])
  BY DEF Denials
<1>4. /\ \A i \in DOMAIN q : Denial(q[i]) = Denial(d) <=> q[i] = d
      /\ \A i \in DOMAIN q : Denial(q[i]) # Approval(d)
  BY FramesDiffer DEF Denial, Approval
<1> QED
  BY <1>2, <1>3, <1>4 DEF Free

LEMMA ToldTyped ==
  ASSUME NEW fs, NEW c, NEW b \in BOOLEAN
  PROVE  Told(fs, c, b) \in Seq(BOOLEAN)
<1>1. <<b>> \in Seq(BOOLEAN) /\ <<>> \in Seq(BOOLEAN)
  OBVIOUS
<1> QED
  BY <1>1 DEF Told

LEMMA ReplyTyped ==
  ASSUME HostTypes, NEW h \in Hosts, NEW fs \in Seq(FramesToServer), Reply(h, fs)
  PROVE  ChannelTypeOK' /\ verdicts' \in [Clients -> Seq(BOOLEAN)]
<1>1. ChannelTypeOK'
  BY HostIsPeer, WrittenTyped DEF Reply, HostTypes, ChannelTypeOK
<1>2. ASSUME NEW c \in Clients
      PROVE  verdicts[c] \o Told(fs, c, FALSE) \o Told(fs, c, TRUE) \in Seq(BOOLEAN)
  <2>1. Told(fs, c, FALSE) \in Seq(BOOLEAN) /\ Told(fs, c, TRUE) \in Seq(BOOLEAN)
    BY ToldTyped
  <2>2. verdicts[c] \in Seq(BOOLEAN)
    BY DEF HostTypes, HostTypeOK
  <2> QED
    BY <2>1, <2>2, ConcatProperties, Zenon
<1>3. verdicts' \in [Clients -> Seq(BOOLEAN)]
  BY <1>2 DEF Reply
<1> QED
  BY <1>1, <1>3

-----------------------------------------------------------------------------
(* Types: the actions.                                                     *)

LEMMA HostCallbacksTyped ==
  ASSUME HostTypes, NEW h \in Hosts,
         HostOnRequest(h) \/ HostOnDisconnect(h) \/ HostOnSignal(h) \/ HostIgnores(h)
  PROVE  HostTypes'
<1> DEFINE m == Head(toPeer[h])
<1>1. PICK t : Reads(h, t) /\ UNCHANGED <<link, toServer>>
  BY DEF HostOnRequest, HostOnDisconnect, HostOnSignal, HostIgnores
<1>2. ChannelTypeOK' /\ m \in FramesToPeer /\ m.type = t
  BY <1>1, HostIsPeer, ReadsTyped DEF HostTypes, ChannelTypeOK
<1>3. CASE HostOnRequest(h)
  <2>1. m.clientId \in Clients
    BY <1>2, <1>3, HostIsPeer, ReadsTyped, FrameFields DEF HostOnRequest, HostTypes
  <2> DEFINE q == Append(approvalQueue[h], m.clientId)
  <2>2. q \in Seq(Clients)
    BY <2>1 DEF HostTypes, HostTypeOK
  <2>3. /\ approvalQueue' = [approvalQueue EXCEPT ![h] = q]
        /\ ProcessQueue(h, q)
        /\ UNCHANGED <<hostUp, settled, shell, verdicts, rtcVars>>
    BY <1>3 DEF HostOnRequest, Enqueued, CallbackIsApproving
  <2>4. HostTypeOK'
    BY <2>2, <2>3, ProcessQueueTyped DEF HostTypes, HostTypeOK
  <2>5. RtcTypeOK'
    BY <2>3 DEF HostTypes, RtcTypeOK, rtcVars
  <2> QED
    BY <1>2, <2>4, <2>5 DEF HostTypes
<1>4. CASE HostOnDisconnect(h)
  <2>1. /\ \/ approvalQueue' = approvalQueue
           \/ \E c : approvalQueue' = [approvalQueue EXCEPT ![h] = Without(approvalQueue[h], c)]
        /\ UNCHANGED <<hostUp, isApproving, lobby, settled, shell, stdin, verdicts, rtcVars>>
    BY <1>4 DEF HostOnDisconnect, CallbackIsApproving
  <2>2. approvalQueue' \in [Hosts -> Seq(Clients)]
    <3>1. approvalQueue \in [Hosts -> Seq(Clients)] /\ approvalQueue[h] \in Seq(Clients)
      BY DEF HostTypes, HostTypeOK
    <3> QED
      BY <2>1, <3>1, WithoutTyped
  <2>3. RtcTypeOK' /\ HostTypeOK'
    BY <2>1, <2>2 DEF HostTypes, HostTypeOK, RtcTypeOK, rtcVars
  <2> QED
    BY <1>2, <2>3 DEF HostTypes
<1>5. CASE HostOnSignal(h)
  <2>1. (m.sdp = "answer") => m.from \in Clients
    BY <1>2, <1>5, HostIsPeer, ReadsTyped, FrameFields DEF HostOnSignal, HostTypes
  <2>2. hostAnswer' \in [Hosts -> [Clients -> Clients \cup {None}]]
    BY <1>5, <2>1 DEF HostOnSignal, HostAppliesSignal, HostTypes, RtcTypeOK
  <2>3. RtcTypeOK' /\ HostTypeOK'
    BY <1>5, <2>2 DEF HostOnSignal, HostAppliesSignal, HostTypes, RtcTypeOK, HostTypeOK,
                      hostVars
  <2> QED
    BY <1>2, <2>3 DEF HostTypes
<1>6. CASE HostIgnores(h)
  BY <1>2, <1>6 DEF HostIgnores, HostTypes, RtcTypeOK, HostTypeOK, hostVars, rtcVars
<1> QED
  BY <1>3, <1>4, <1>5, <1>6

LEMMA OperatorTyped ==
  ASSUME HostTypes, NEW h \in Hosts, OperatorActs(h)
  PROVE  HostTypes'
<1>1. Picking(h) /\ lobby[h] \in Lobbies
  BY DEF OperatorActs, HostKeyUp, HostKeyDown, HostKeyEnter, HostKeyCtrlC, Picking,
         HostTypes, HostTypeOK
<1>2. lobby[h].selectedIndex \in Nat /\ approvalQueue[h] \in Seq(Clients)
  BY <1>1 DEF Lobbies, HostTypes, HostTypeOK
<1>3. CASE HostKeyUp(h) \/ HostKeyDown(h)
  <2>1. PICK i \in Nat : MovesTo(h, i)
    BY <1>2, <1>3 DEF HostKeyUp, HostKeyDown, CursorAbove, CursorBelow
  <2>2. Rendered(approvalQueue[h], i) \in Lobbies
    BY <1>2, RenderedTyped
  <2> QED
    BY <2>1, <2>2 DEF MovesTo, HostTypes, HostTypeOK, RtcTypeOK, ChannelTypeOK, channelVars,
                      rtcVars
<1>4. CASE HostKeyEnter(h) \/ HostKeyCtrlC(h)
  <2>1. CASE HostDies(h)
    BY <2>1, ExitsLeave, HostExitTyped
  <2>2. CASE ~HostDies(h)
    <3>1. PICK r \in Choices :
            /\ Finish(h, r)
            /\ UNCHANGED <<hostUp, approvalQueue, isApproving, lobby, shell, verdicts,
                           channelVars, rtcVars>>
      BY <1>2, <1>4, <2>2 DEF HostKeyEnter, HostKeyCtrlC, Choices
    <3> QED
      BY <1>1, <3>1, FinishTyped DEF HostTypes, HostTypeOK, RtcTypeOK, ChannelTypeOK,
         channelVars, rtcVars
  <2> QED
    BY <2>1, <2>2
<1> QED
  BY <1>3, <1>4 DEF OperatorActs

LEMMA ResumeTyped ==
  ASSUME HostTypes, NEW h \in Hosts,
         HostResumesExit(h) \/ HostResumesRejectAll(h) \/ HostResumesSelected(h)
  PROVE  HostTypes'
<1> DEFINE q == approvalQueue[h]
<1>1. CASE HostResumesExit(h)
  BY <1>1, ExitsLeave, HostExitTyped DEF HostResumesExit
<1>2. q \in Seq(Clients) /\ <<>> \in Seq(Clients)
  BY DEF HostTypes, HostTypeOK
<1>3. CASE HostResumesRejectAll(h)
  <2>1. ChannelTypeOK' /\ verdicts' \in [Clients -> Seq(BOOLEAN)]
    BY <1>2, <1>3, DenialsTyped, ReplyTyped DEF HostResumesRejectAll
  <2>2. RtcTypeOK'
    BY <1>3 DEF HostResumesRejectAll, HostTypes, RtcTypeOK, rtcVars
  <2>3. HostTypeOK'
    BY <1>2, <1>3, <2>1 DEF HostResumesRejectAll, LobbyDone, EmptyQueue, HostTypes, HostTypeOK
  <2> QED
    BY <2>1, <2>2, <2>3 DEF HostTypes
<1>4. CASE HostResumesSelected(h)
  <2> DEFINE c == settled[h].result
  <2>1. c \in Clients
    BY <1>4 DEF HostResumesSelected
  <2>2. PICK fs \in Seq(FramesToServer) : Reply(h, fs)
    <3>1. Denials(q) \in Seq(FramesToServer) /\ Denials(Without(q, c)) \in Seq(FramesToServer)
      BY <1>2, DenialsTyped, WithoutTyped
    <3>2. Approval(c) \in FramesToServer
      BY <2>1, FramesTyped DEF Approval
    <3>3. Denials(Without(q, c)) \o <<Approval(c)>> \in Seq(FramesToServer)
      BY <3>1, <3>2
    <3> QED
      BY <1>4, <3>1, <3>3 DEF HostResumesSelected
  <2>3. ChannelTypeOK' /\ verdicts' \in [Clients -> Seq(BOOLEAN)]
    BY <2>2, ReplyTyped
  <2>4. /\ hostPc' = hostPc \/ hostPc' = [hostPc EXCEPT ![h][c] = "new"]
        /\ UNCHANGED <<hostAnswer, clientPc, clientOffer>>
    BY <1>4 DEF HostResumesSelected
  <2>5. RtcTypeOK'
    <3>1. [hostPc EXCEPT ![h][c] = "new"] \in [Hosts -> [Clients -> HostPcStates]]
      BY <2>1 DEF HostTypes, RtcTypeOK, HostPcStates
    <3>2. hostPc' \in [Hosts -> [Clients -> HostPcStates]]
      BY <2>4, <3>1 DEF HostTypes, RtcTypeOK
    <3> QED
      BY <2>4, <3>2 DEF HostTypes, RtcTypeOK
  <2>6. /\ isApproving' = isApproving \/ isApproving' = [isApproving EXCEPT ![h] = FALSE]
        /\ lobby' = [lobby EXCEPT ![h] = None]
        /\ settled' = [settled EXCEPT ![h] = None]
        /\ approvalQueue' = [approvalQueue EXCEPT ![h] = <<>>]
        /\ UNCHANGED <<hostUp, shell, stdin>>
    BY <1>4 DEF HostResumesSelected, LobbyDone, EmptyQueue
  <2>7. isApproving' \in [Hosts -> BOOLEAN]
    BY <2>6 DEF HostTypes, HostTypeOK
  <2>8. HostTypeOK'
    BY <1>2, <2>3, <2>6, <2>7 DEF HostTypes, HostTypeOK
  <2> QED
    BY <2>3, <2>5, <2>8 DEF HostTypes
<1> QED
  BY <1>1, <1>3, <1>4

LEMMA SessionTyped ==
  ASSUME HostTypes, NEW h \in Hosts, NEW c \in Clients,
         \/ HostOffers(h, c)
         \/ HostSessionStarts(h, c)
         \/ HostSessionCloses(h, c)
         \/ HostNegotiationFails(h, c)
  PROVE  HostTypes'
<1>1. CASE HostOffers(h, c)
  <2>1. <<Offer(h, c)>> \in Seq(FramesToServer)
    BY FramesTyped
  <2>2. ChannelTypeOK'
    BY <1>1, <2>1, HostIsPeer, WrittenTyped
    DEF HostOffers, HostSignalsOffer, HostTypes, ChannelTypeOK
  <2>3. RtcTypeOK' /\ HostTypeOK'
    BY <1>1 DEF HostOffers, HostSignalsOffer, HostTypes, RtcTypeOK, HostPcStates, HostTypeOK,
                hostVars
  <2> QED
    BY <2>2, <2>3 DEF HostTypes
<1>2. ASSUME HostSessionStarts(h, c) \/ HostSessionCloses(h, c) \/ HostNegotiationFails(h, c)
      PROVE  ChannelTypeOK' /\ RtcTypeOK'
  <2>1. ChannelTypeOK' /\ UNCHANGED <<hostAnswer, clientPc, clientOffer>>
    BY <1>2 DEF HostSessionStarts, HostSessionCloses, HostNegotiationFails, HostTypes,
                ChannelTypeOK, channelVars
  <2>2. PICK v \in HostPcStates : hostPc' = [hostPc EXCEPT ![h][c] = v]
    BY <1>2 DEF HostSessionStarts, HostSessionCloses, HostNegotiationFails, HostPcStates
  <2>3. hostPc' \in [Hosts -> [Clients -> HostPcStates]]
    BY <2>2 DEF HostTypes, RtcTypeOK
  <2> QED
    BY <2>1, <2>3 DEF HostTypes, RtcTypeOK
<1>3. stdin[h] \in Stdins /\ stdin[h].raw \in BOOLEAN /\ stdin[h].saved \in BOOLEAN
      /\ stdin[h].readers \in SUBSET (Clients \cup {Lobby})
  BY DEF HostTypes, HostTypeOK, Stdins
<1>4. CASE HostSessionStarts(h, c)
  <2>1. [raw |-> TRUE, readers |-> stdin[h].readers \cup {c}, saved |-> stdin[h].raw] \in Stdins
    BY <1>3 DEF Stdins
  <2>2. stdin' \in [Hosts -> Stdins]
    BY <1>4, <2>1 DEF HostSessionStarts, HostTypes, HostTypeOK
  <2>3. shell' \in [Hosts -> [Clients -> {"none", "running", "ended"}]]
    BY <1>4 DEF HostSessionStarts, HostTypes, HostTypeOK
  <2>4. HostTypeOK'
    BY <1>4, <2>2, <2>3 DEF HostSessionStarts, HostTypes, HostTypeOK
  <2> QED
    BY <1>2, <1>4, <2>4 DEF HostTypes
<1>5. CASE HostSessionCloses(h, c)
  <2>1. Released(stdin[h], c) \in Stdins
    BY <1>3 DEF Stdins, Released
  <2>2. stdin' \in [Hosts -> Stdins]
    BY <1>5, <2>1 DEF HostSessionCloses, HostTypes, HostTypeOK
  <2>3. isApproving' \in [Hosts -> BOOLEAN]
    BY <1>5 DEF HostSessionCloses, HostTypes, HostTypeOK
  <2>4. HostTypeOK'
    BY <1>5, <2>2, <2>3 DEF HostSessionCloses, HostTypes, HostTypeOK
  <2> QED
    BY <1>2, <1>5, <2>4 DEF HostTypes
<1>6. CASE HostNegotiationFails(h, c)
  BY <1>2, <1>6 DEF HostNegotiationFails, HostTypes, HostTypeOK, hostVars
<1> QED
  BY <1>1, <1>4, <1>5, <1>6

LEMMA StartTyped ==
  ASSUME HostTypes, NEW h \in Hosts, HostStart(h)
  PROVE  HostTypes'
<1>1. ChannelTypeOK'
  BY HostIsPeer, FramesTyped, ConnectTyped DEF HostStart, HostTypes
<1> QED
  BY <1>1 DEF HostStart, HostTypes, RtcTypeOK, rtcVars, HostTypeOK

LEMMA SocketLossTyped ==
  ASSUME HostTypes, NEW h \in Hosts, HostLosesSocket(h)
  PROVE  HostTypes'
<1>1. ChannelTypeOK'
  BY HostIsPeer, CutTyped DEF HostLosesSocket, HostTypes
<1> QED
  BY <1>1 DEF HostLosesSocket, HostTypes, RtcTypeOK, rtcVars, HostTypeOK, hostVars

LEMMA HostStepTyped ==
  ASSUME HostTypes, HostNext
  PROVE  HostTypes'
<1>1. PICK h \in Hosts : HostStart(h) \/ HostReacts(h) \/ OperatorActs(h) \/ HostSuffers(h)
  BY DEF HostNext
<1>2. CASE HostStart(h)
  BY <1>2, StartTyped
<1>3. CASE HostReacts(h)
  BY <1>3, HostCallbacksTyped, ResumeTyped, SessionTyped DEF HostReacts
<1>4. CASE OperatorActs(h)
  BY <1>4, OperatorTyped
<1>5. CASE HostSuffers(h)
  BY <1>5, SessionTyped, SocketLossTyped, ExitsLeave, HostExitTyped
  DEF HostSuffers, HostShellExits, HostDrains, HostCrashes
<1> QED
  BY <1>1, <1>2, <1>3, <1>4, <1>5

-----------------------------------------------------------------------------
(* The lock and the terminal.  HostExclusive and TerminalOwned are not     *)
(* inductive: a lobby that has settled is still there until its            *)
(* continuation runs, and the profile a session saved is the cooked one,   *)
(* which is what the terminal gets back when a shell ends the process.     *)

Locked(g) ==
  /\ settled[g] # None => lobby[g] # None /\ hostUp[g] # "crashed"
  /\ lobby[g] # None => isApproving[g] /\ Engaged(g) = {}
  /\ ~isApproving[g] => Engaged(g) = {}
  /\ \A c, d \in Engaged(g) : c = d

InUse(g) == {c \in Clients : hostPc[g][c] = "open"}
Owned(g) ==
  /\ stdin[g].readers = (IF LobbyWaits(g) THEN {Lobby} ELSE {}) \cup InUse(g)
  /\ hostUp[g] # "crashed" => (stdin[g].raw <=> stdin[g].readers # {})
  /\ ~stdin[g].saved

HostDiscipline == \A g \in Hosts : Locked(g) /\ Owned(g)

LEMMA DisciplineSuffices ==
  ASSUME HostDiscipline
  PROVE  HostExclusive /\ TerminalOwned
<1>1. HostExclusive
  BY DEF HostDiscipline, Locked, HostExclusive
<1>2. TerminalOwned
  <2> SUFFICES ASSUME NEW h \in Hosts
               PROVE  /\ stdin[h].readers = (IF LobbyWaits(h) THEN {Lobby} ELSE {}) \cup InUse(h)
                      /\ hostUp[h] # "crashed" => (stdin[h].raw <=> stdin[h].readers # {})
                      /\ \A x, y \in stdin[h].readers : x = y
    BY DEF TerminalOwned, InUse
  <2>1. InUse(h) \subseteq Engaged(h)
    BY DEF InUse, Engaged, Live
  <2>2. \A x, y \in InUse(h) : x = y
    BY <2>1 DEF HostDiscipline, Locked
  <2>3. LobbyWaits(h) => InUse(h) = {}
    BY <2>1 DEF HostDiscipline, Locked, LobbyWaits
  <2>4. \A x, y \in stdin[h].readers : x = y
    BY <2>2, <2>3 DEF HostDiscipline, Owned
  <2> QED
    BY <2>4 DEF HostDiscipline, Owned
<1> QED
  BY <1>1, <1>2

(* A host is disciplined as long as what its lock and terminal depend on   *)
(* stays as it is.                                                         *)
LEMMA DisciplineStutters ==
  ASSUME NEW g, Locked(g) /\ Owned(g),
         /\ (hostUp'[g] = "crashed") <=> (hostUp[g] = "crashed")
         /\ isApproving'[g] = isApproving[g]
         /\ (lobby'[g] = None) <=> (lobby[g] = None)
         /\ settled'[g] = settled[g]
         /\ stdin'[g] = stdin[g]
         /\ InUse(g)' = InUse(g)
         /\ Engaged(g)' \subseteq Engaged(g)
  PROVE  (Locked(g) /\ Owned(g))'
<1>1. Locked(g)'
  BY DEF Locked
<1>2. Owned(g)'
  BY DEF Owned, LobbyWaits
<1> QED
  BY <1>1, <1>2

(* What the lock and the terminal of g depend on.                          *)
Same(g) ==
  /\ (hostUp'[g] = "crashed") <=> (hostUp[g] = "crashed")
  /\ isApproving'[g] = isApproving[g]
  /\ lobby'[g] = lobby[g]
  /\ settled'[g] = settled[g]
  /\ stdin'[g] = stdin[g]
  /\ hostPc'[g] = hostPc[g]

LEMMA SameKeepsDiscipline ==
  ASSUME NEW g, Locked(g) /\ Owned(g), Same(g)
  PROVE  (Locked(g) /\ Owned(g))'
  BY DisciplineStutters DEF Same, InUse, Engaged

LEMMA ProcessQueueLocal ==
  ASSUME HostTypes, NEW h \in Hosts, NEW q, ProcessQueue(h, q), NEW g \in Hosts \ {h}
  PROVE  isApproving'[g] = isApproving[g] /\ lobby'[g] = lobby[g] /\ stdin'[g] = stdin[g]
  BY DEF ProcessQueue, LobbyReads, HostTypes, HostTypeOK

LEMMA HostExitLocal ==
  ASSUME HostTypes, NEW h \in Hosts, Leaves(h), NEW g \in Hosts \ {h}
  PROVE  Same(g)
  BY DEF Leaves, HostEnds, Same, HostTypes, HostTypeOK, RtcTypeOK

LEMMA CallbacksLocal ==
  ASSUME HostTypes, NEW h \in Hosts, NEW g \in Hosts \ {h},
         HostOnRequest(h) \/ HostOnDisconnect(h) \/ HostOnSignal(h) \/ HostIgnores(h)
  PROVE  Same(g)
<1>1. CASE HostOnRequest(h)
  <2>1. PICK q : ProcessQueue(h, q)
    BY <1>1 DEF HostOnRequest, CallbackIsApproving
  <2> QED
    BY <1>1, <2>1, ProcessQueueLocal DEF HostOnRequest, Same, rtcVars
<1>2. CASE HostOnDisconnect(h)
  BY <1>2 DEF HostOnDisconnect, CallbackIsApproving, Same, rtcVars
<1>3. CASE HostOnSignal(h)
  BY <1>3 DEF HostOnSignal, HostAppliesSignal, Same, hostVars
<1>4. CASE HostIgnores(h)
  BY <1>4 DEF HostIgnores, Same, hostVars, rtcVars
<1> QED
  BY <1>1, <1>2, <1>3, <1>4

LEMMA OperatorLocal ==
  ASSUME HostTypes, NEW h \in Hosts, NEW g \in Hosts \ {h}, OperatorActs(h)
  PROVE  Same(g)
<1>1. CASE HostKeyUp(h) \/ HostKeyDown(h)
  <2>1. PICK i : MovesTo(h, i)
    BY <1>1 DEF HostKeyUp, HostKeyDown
  <2> QED
    BY <2>1 DEF MovesTo, Same, HostTypes, HostTypeOK, rtcVars
<1>2. CASE HostKeyEnter(h) \/ HostKeyCtrlC(h)
  <2>1. CASE HostDies(h)
    BY <2>1, ExitsLeave, HostExitLocal
  <2>2. CASE ~HostDies(h)
    <3>1. PICK r : Finish(h, r) /\ UNCHANGED <<hostUp, isApproving, lobby, rtcVars>>
      BY <1>2, <2>2 DEF HostKeyEnter, HostKeyCtrlC
    <3> QED
      BY <3>1 DEF Finish, Same, HostTypes, HostTypeOK, rtcVars
  <2> QED
    BY <2>1, <2>2
<1> QED
  BY <1>1, <1>2 DEF OperatorActs

LEMMA ResumeLocal ==
  ASSUME HostTypes, NEW h \in Hosts, NEW g \in Hosts \ {h},
         HostResumesExit(h) \/ HostResumesRejectAll(h) \/ HostResumesSelected(h)
  PROVE  Same(g)
<1>1. CASE HostResumesExit(h)
  BY <1>1, ExitsLeave, HostExitLocal DEF HostResumesExit
<1>2. CASE HostResumesRejectAll(h)
  BY <1>2 DEF HostResumesRejectAll, LobbyDone, Same, HostTypes, HostTypeOK, rtcVars
<1>3. CASE HostResumesSelected(h)
  BY <1>3 DEF HostResumesSelected, LobbyDone, Same, HostTypes, HostTypeOK, RtcTypeOK
<1> QED
  BY <1>1, <1>2, <1>3

LEMMA SessionLocal ==
  ASSUME HostTypes, NEW h \in Hosts, NEW g \in Hosts \ {h}, NEW c \in Clients,
         \/ HostOffers(h, c)
         \/ HostSessionStarts(h, c)
         \/ HostSessionCloses(h, c)
         \/ HostNegotiationFails(h, c)
  PROVE  Same(g)
<1>1. CASE HostOffers(h, c)
  BY <1>1 DEF HostOffers, HostSignalsOffer, Same, HostTypes, RtcTypeOK, hostVars
<1>2. CASE HostSessionStarts(h, c)
  BY <1>2 DEF HostSessionStarts, Same, HostTypes, HostTypeOK, RtcTypeOK
<1>3. CASE HostSessionCloses(h, c)
  BY <1>3 DEF HostSessionCloses, Same, HostTypes, HostTypeOK, RtcTypeOK
<1>4. CASE HostNegotiationFails(h, c)
  BY <1>4 DEF HostNegotiationFails, Same, HostTypes, HostTypeOK, RtcTypeOK, hostVars
<1> QED
  BY <1>1, <1>2, <1>3, <1>4

(* The steps of h itself.                                                  *)

LEMMA HostExitDisciplined ==
  ASSUME HostTypes, NEW h \in Hosts, Owned(h), NEW how, NEW raw \in BOOLEAN,
         HostEnds(h, how, raw), how = "crashed" \/ ~raw
  PROVE  (Locked(h) /\ Owned(h))'
<1>1. /\ settled'[h] = None /\ lobby'[h] = None
      /\ hostUp'[h] = how
      /\ stdin'[h].readers = {} /\ stdin'[h].raw = raw /\ stdin'[h].saved = stdin[h].saved
      /\ \A c \in Clients : hostPc'[h][c] \in {"none", "closed"}
  BY DEF HostEnds, HostTypes, HostTypeOK, RtcTypeOK, Stdins
<1>2. Engaged(h)' = {} /\ InUse(h)' = {}
  BY <1>1 DEF Engaged, Live, InUse
<1>3. Locked(h)'
  BY <1>1, <1>2 DEF Locked
<1>4. Owned(h)'
  BY <1>1, <1>2 DEF Owned, LobbyWaits
<1> QED
  BY <1>3, <1>4

(* A host that exits by itself does so with its terminal cooked: no one    *)
(* listens to it any more, or the profile is restored.                     *)
LEMMA ExitDisciplined ==
  ASSUME HostTypes, NEW h \in Hosts, Locked(h), Owned(h),
         HostResumesExit(h) \/ HostShellExits(h) \/ HostDrains(h) \/ HostDies(h)
  PROVE  (Locked(h) /\ Owned(h))'
<1>1. stdin[h].raw \in BOOLEAN /\ stdin[h].saved \in BOOLEAN
  BY DEF HostTypes, HostTypeOK, Stdins
<1>2. CASE HostResumesExit(h)
  <2>1. InUse(h) = {} /\ ~LobbyWaits(h) /\ hostUp[h] # "crashed"
    BY <1>2 DEF HostResumesExit, Locked, LobbyWaits, InUse, Engaged, Live
  <2>2. ~stdin[h].raw
    BY <2>1 DEF Owned
  <2> QED
    BY <1>1, <1>2, <2>2, HostExitDisciplined DEF HostResumesExit, HostExits
<1>3. CASE HostShellExits(h)
  BY <1>1, <1>3, HostExitDisciplined DEF HostShellExits, Restored, Owned
<1>4. CASE HostDrains(h)
  <2>1. InUse(h) = {} /\ ~LobbyWaits(h) /\ hostUp[h] # "crashed"
    BY <1>4 DEF HostDrains, HostIdle, LobbyWaits, InUse, Engaged, Live
  <2>2. ~stdin[h].raw
    BY <2>1 DEF Owned
  <2> QED
    BY <1>1, <1>4, <2>2, HostExitDisciplined DEF HostDrains, HostExits
<1>5. CASE HostDies(h)
  BY <1>1, <1>5, HostExitDisciplined DEF HostDies
<1> QED
  BY <1>2, <1>3, <1>4, <1>5

(* A lobby opens only over a host that is unlocked and quiet.              *)
LEMMA ProcessQueueDisciplined ==
  ASSUME HostTypes, NEW h \in Hosts, NEW q \in Seq(Clients), Locked(h), Owned(h),
         ProcessQueue(h, q), HostIdle(h), UNCHANGED <<hostUp, settled, hostPc>>
  PROVE  (Locked(h) /\ Owned(h))'
<1>1. Engaged(h)' = Engaged(h) /\ InUse(h)' = InUse(h)
  BY DEF Engaged, InUse
<1>2. CASE MayPrompt(h, q)
  <2>1. ~isApproving[h] /\ Engaged(h) = {} /\ InUse(h) = {} /\ settled'[h] = None
    BY <1>2 DEF MayPrompt, Locked, HostIdle, Engaged, InUse, Live
  <2>2. /\ isApproving'[h]
        /\ lobby'[h] = Rendered(q, 0)
        /\ stdin'[h] = [stdin[h] EXCEPT !.raw = TRUE, !.readers = {Lobby}]
    BY <1>2 DEF ProcessQueue, LobbyReads, HostTypes, HostTypeOK
  <2>3. lobby'[h] # None
    BY <2>2, RenderedTyped, ChoicesAssumption
  <2>4. Locked(h)'
    BY <1>1, <2>1, <2>2, <2>3 DEF Locked
  <2>5. stdin'[h].readers = {Lobby} /\ stdin'[h].raw = TRUE /\ stdin'[h].saved = stdin[h].saved
    BY <2>2 DEF HostTypes, HostTypeOK, Stdins
  <2>6. Owned(h)'
    BY <1>1, <2>1, <2>3, <2>5 DEF Owned, LobbyWaits
  <2> QED
    BY <2>4, <2>6
<1>3. CASE ~MayPrompt(h, q)
  BY <1>1, <1>3, DisciplineStutters DEF ProcessQueue
<1> QED
  BY <1>2, <1>3

LEMMA CallbacksDisciplined ==
  ASSUME HostTypes, NEW h \in Hosts, Locked(h), Owned(h),
         HostOnRequest(h) \/ HostOnDisconnect(h) \/ HostOnSignal(h) \/ HostIgnores(h)
  PROVE  (Locked(h) /\ Owned(h))'
<1>1. CASE HostOnRequest(h)
  <2>1. Head(toPeer[h]).clientId \in Clients
    BY <1>1, HostIsPeer, ReadsTyped, FrameFields DEF HostOnRequest, HostTypes
  <2> DEFINE q == Append(approvalQueue[h], Head(toPeer[h]).clientId)
  <2>2. q \in Seq(Clients)
    BY <2>1 DEF HostTypes, HostTypeOK
  <2>3. ProcessQueue(h, q)
    BY <1>1 DEF HostOnRequest, CallbackIsApproving, Enqueued
  <2> QED
    BY <1>1, <2>2, <2>3, ProcessQueueDisciplined DEF HostOnRequest, rtcVars
<1>2. CASE HostOnDisconnect(h)
  <2>1. Same(h)
    BY <1>2 DEF HostOnDisconnect, CallbackIsApproving, Same, rtcVars
  <2> QED
    BY <2>1, SameKeepsDiscipline
<1>3. CASE HostOnSignal(h) \/ HostIgnores(h)
  <2>1. Same(h)
    BY <1>3 DEF HostOnSignal, HostAppliesSignal, HostIgnores, Same, hostVars, rtcVars
  <2> QED
    BY <2>1, SameKeepsDiscipline
<1> QED
  BY <1>1, <1>2, <1>3

(* Finish: the lobby lets go of stdin but is not gone.                     *)
LEMMA OperatorDisciplined ==
  ASSUME HostTypes, NEW h \in Hosts, Locked(h), Owned(h), OperatorActs(h)
  PROVE  (Locked(h) /\ Owned(h))'
<1>1. Picking(h) /\ lobby[h] \in Lobbies /\ approvalQueue[h] \in Seq(Clients)
  BY DEF OperatorActs, HostKeyUp, HostKeyDown, HostKeyEnter, HostKeyCtrlC, Picking,
         HostTypes, HostTypeOK
<1>2. lobby[h].selectedIndex \in Nat
  BY <1>1 DEF Lobbies
<1>3. CASE HostKeyUp(h) \/ HostKeyDown(h)
  <2>1. PICK i \in Nat : MovesTo(h, i)
    BY <1>1, <1>2, <1>3 DEF HostKeyUp, HostKeyDown, CursorAbove, CursorBelow
  <2>2. lobby'[h] # None
    BY <1>1, <2>1, RenderedTyped, ChoicesAssumption DEF MovesTo, HostTypes, HostTypeOK
  <2>3. lobby[h] # None /\ UNCHANGED <<hostUp, isApproving, settled, stdin, hostPc>>
    BY <1>1, <2>1 DEF Picking, MovesTo, rtcVars
  <2>4. InUse(h)' = InUse(h) /\ Engaged(h)' = Engaged(h)
    BY <2>3 DEF InUse, Engaged
  <2> QED
    BY <2>2, <2>3, <2>4, DisciplineStutters
<1>4. CASE HostDies(h)
  BY <1>4, ExitDisciplined
<1>5. CASE (HostKeyEnter(h) \/ HostKeyCtrlC(h)) /\ ~HostDies(h)
  <2>1. PICK r : Finish(h, r) /\ UNCHANGED <<hostUp, isApproving, lobby, rtcVars>>
             /\ r \in Choices
    <3>1. CASE HostKeyCtrlC(h)
      BY <3>1 DEF HostKeyCtrlC, Choices
    <3>2. CASE HostKeyEnter(h)
      <4>1. ASSUME lobby[h].selectedIndex < Len(approvalQueue[h])
            PROVE  approvalQueue[h][lobby[h].selectedIndex + 1] \in Choices
        BY <1>1, <1>2, <4>1 DEF Choices
      <4>2. Len(approvalQueue[h]) \in Nat
        BY <1>1
      <4> QED
        BY <1>2, <1>5, <3>2, <4>1, <4>2 DEF HostKeyEnter, Choices
    <3> QED
      BY <1>5, <3>1, <3>2
  <2>2. Engaged(h)' = Engaged(h) /\ InUse(h)' = InUse(h)
    BY <2>1 DEF Engaged, InUse, rtcVars
  <2>3. /\ lobby'[h] = lobby[h] /\ lobby[h] # None /\ isApproving'[h] = isApproving[h]
        /\ hostUp[h] = "up" /\ hostUp'[h] = "up"
    BY <1>1, <2>1 DEF Picking, HostIdle
  <2>4. InUse(h) = {} /\ LobbyWaits(h)
    BY <1>1, <2>3 DEF Locked, Engaged, InUse, Live, Picking, HostIdle, LobbyWaits
  <2>5. settled'[h] \in Settlements
    <3>1. [result |-> r, seen |-> Highlighted(lobby[h])] \in Settlements
      BY <1>1, <2>1, HighlightedTyped DEF Settlements
    <3> QED
      BY <2>1, <3>1 DEF Finish, HostTypes, HostTypeOK
  <2>6. settled'[h] # None
    BY <2>5, ChoicesAssumption
  <2>7. Locked(h)'
    BY <2>2, <2>3 DEF Locked
  <2>8. /\ stdin'[h].readers = stdin[h].readers \ {Lobby}
        /\ stdin'[h].raw = FALSE
        /\ stdin'[h].saved = stdin[h].saved
    BY <2>1 DEF Finish, HostTypes, HostTypeOK, Stdins
  <2>9. stdin'[h].readers = {}
    BY <2>4, <2>8 DEF Owned
  <2>10. Owned(h)'
    BY <2>2, <2>4, <2>6, <2>8, <2>9 DEF Owned, LobbyWaits
  <2> QED
    BY <2>7, <2>10
<1> QED
  BY <1>3, <1>4, <1>5 DEF OperatorActs

LEMMA ResumeDisciplined ==
  ASSUME HostTypes, NEW h \in Hosts, Locked(h), Owned(h),
         HostResumesExit(h) \/ HostResumesRejectAll(h) \/ HostResumesSelected(h)
  PROVE  (Locked(h) /\ Owned(h))'
<1>1. CASE HostResumesExit(h)
  BY <1>1, ExitDisciplined
<1>2. CASE HostResumesRejectAll(h) \/ HostResumesSelected(h)
  <2>1. /\ settled[h] # None /\ lobby[h] # None /\ isApproving[h] /\ Engaged(h) = {}
        /\ ~LobbyWaits(h)
    BY <1>2 DEF HostResumesRejectAll, HostResumesSelected, Locked, LobbyWaits
  <2>2. settled'[h] = None /\ lobby'[h] = None /\ stdin' = stdin /\ hostUp' = hostUp
    BY <1>2 DEF HostResumesRejectAll, HostResumesSelected, LobbyDone, HostTypes, HostTypeOK
  <2>3. \/ hostPc' = hostPc
        \/ \E c \in Clients : /\ hostPc' = [hostPc EXCEPT ![h][c] = "new"]
                             /\ isApproving'[h] = isApproving[h]
    BY <1>2 DEF HostResumesRejectAll, HostResumesSelected, rtcVars
  <2>4. InUse(h)' = InUse(h)
    <3>1. InUse(h) = {}
      BY <2>1 DEF InUse, Engaged, Live
    <3>2. \A c \in Clients : hostPc'[h][c] # "open"
      BY <2>3, <3>1 DEF InUse, HostTypes, RtcTypeOK
    <3> QED
      BY <3>1, <3>2 DEF InUse
  <2>5. Locked(h)'
    <3>1. CASE hostPc' = hostPc
      <4>1. Engaged(h)' = {}
        BY <2>1, <3>1 DEF Engaged
      <4> QED
        BY <2>2, <4>1 DEF Locked
    <3>2. CASE hostPc' # hostPc
      <4>1. PICK c \in Clients : /\ hostPc' = [hostPc EXCEPT ![h][c] = "new"]
                                 /\ isApproving'[h] = isApproving[h]
        BY <2>3, <3>2
      <4>2. \A d \in Clients \ {c} : hostPc'[h][d] = hostPc[h][d]
        BY <4>1 DEF HostTypes, RtcTypeOK
      <4>3. Engaged(h)' \subseteq {c}
        BY <2>1, <4>2 DEF Engaged
      <4> QED
        BY <2>1, <2>2, <4>1, <4>3 DEF Locked
    <3> QED
      BY <3>1, <3>2
  <2>6. Owned(h)'
    BY <2>1, <2>2, <2>4 DEF Owned, LobbyWaits
  <2> QED
    BY <2>5, <2>6
<1> QED
  BY <1>1, <1>2

(* A session opens on the transport that holds the lock, with no lobby in  *)
(* front of it, so that the profile it saves is a cooked one.              *)
LEMMA SessionStartDisciplined ==
  ASSUME HostTypes, NEW h \in Hosts, NEW c \in Clients, Locked(h), Owned(h),
         HostSessionStarts(h, c)
  PROVE  (Locked(h) /\ Owned(h))'
<1>1. hostPc[h][c] = "offered" /\ settled[h] = None /\ hostUp[h] = "up"
  BY DEF HostSessionStarts, HostMayOpen, HostIdle
<1>2. Engaged(h) = {c}
  BY <1>1 DEF Engaged, Live, Locked
<1>3. lobby[h] = None /\ InUse(h) = {}
  BY <1>1, <1>2 DEF Locked, InUse, Engaged, Live
<1>4. /\ hostPc' = [hostPc EXCEPT ![h][c] = "open"]
      /\ UNCHANGED <<hostUp, isApproving, lobby, settled>>
      /\ stdin'[h] = [raw |-> TRUE, readers |-> stdin[h].readers \cup {c},
                      saved |-> stdin[h].raw]
  BY DEF HostSessionStarts, HostTypes, HostTypeOK
<1>5. \A d \in Clients : hostPc'[h][d] = IF d = c THEN "open" ELSE hostPc[h][d]
  BY <1>4 DEF HostTypes, RtcTypeOK
<1>6. Engaged(h)' = {c} /\ InUse(h)' = {c}
  BY <1>2, <1>3, <1>5 DEF Engaged, InUse, Live
<1>7. stdin[h].readers = {} /\ ~stdin[h].raw
  BY <1>1, <1>3 DEF Owned, LobbyWaits
<1>8. Locked(h)'
  BY <1>1, <1>2, <1>3, <1>4, <1>6 DEF Locked
<1>9. stdin'[h].readers = {c} /\ stdin'[h].raw = TRUE /\ stdin'[h].saved = stdin[h].raw
  BY <1>4, <1>7
<1>10. Owned(h)'
  BY <1>3, <1>4, <1>6, <1>7, <1>9 DEF Owned, LobbyWaits
<1> QED
  BY <1>8, <1>10

LEMMA SessionCloseDisciplined ==
  ASSUME HostTypes, NEW h \in Hosts, NEW c \in Clients, Locked(h), Owned(h),
         HostSessionCloses(h, c)
  PROVE  (Locked(h) /\ Owned(h))'
<1>1. hostPc[h][c] = "open" /\ settled[h] = None
  BY DEF HostSessionCloses, HostIdle
<1>2. Engaged(h) = {c} /\ InUse(h) = {c} /\ lobby[h] = None
  BY <1>1 DEF Engaged, InUse, Live, Locked
<1>3. /\ hostPc' = [hostPc EXCEPT ![h][c] = "closed"]
      /\ UNCHANGED <<lobby, settled>>
      /\ stdin'[h] = Released(stdin[h], c)
  BY DEF HostSessionCloses, HostTypes, HostTypeOK
<1>4. \A d \in Clients : hostPc'[h][d] = IF d = c THEN "closed" ELSE hostPc[h][d]
  BY <1>3 DEF HostTypes, RtcTypeOK
<1>5. Engaged(h)' = {} /\ InUse(h)' = {}
  BY <1>2, <1>4 DEF Engaged, InUse, Live
<1>6. Locked(h)'
  BY <1>1, <1>2, <1>3, <1>5 DEF Locked
<1>7. /\ stdin'[h].readers = stdin[h].readers \ {c}
      /\ stdin'[h].raw = stdin[h].saved
      /\ stdin'[h].saved = stdin[h].saved
  BY <1>3 DEF Released, HostTypes, HostTypeOK, Stdins
<1>8. stdin[h].readers = {c} /\ ~stdin[h].saved
  BY <1>2 DEF Owned, LobbyWaits
<1>9. Owned(h)'
  BY <1>2, <1>3, <1>5, <1>7, <1>8 DEF Owned, LobbyWaits
<1> QED
  BY <1>6, <1>9

LEMMA OneHostDisciplined ==
  ASSUME HostTypes, NEW h \in Hosts, Locked(h), Owned(h),
         HostStart(h) \/ HostReacts(h) \/ OperatorActs(h) \/ HostSuffers(h)
  PROVE  (Locked(h) /\ Owned(h))'
<1>1. CASE HostStart(h) \/ HostLosesSocket(h)
  <2>1. Same(h)
    BY <1>1 DEF HostStart, HostLosesSocket, Same, hostVars, rtcVars, HostTypes, HostTypeOK
  <2> QED
    BY <2>1, SameKeepsDiscipline
<1>2. ASSUME NEW c \in Clients, HostOffers(h, c) \/ HostNegotiationFails(h, c)
      PROVE  (Locked(h) /\ Owned(h))'
  <2>1. /\ UNCHANGED hostVars
        /\ hostPc[h][c] # "open"
        /\ \E v \in {"offered", "closed"} : hostPc' = [hostPc EXCEPT ![h][c] = v]
        /\ hostPc[h][c] \in Live
    BY <1>2 DEF HostOffers, HostSignalsOffer, HostNegotiationFails, Live
  <2>2. \A d \in Clients : hostPc'[h][d] \in
             IF d = c THEN {"offered", "closed"} ELSE {hostPc[h][d]}
    BY <2>1 DEF HostTypes, RtcTypeOK
  <2>3. Engaged(h)' \subseteq Engaged(h) /\ InUse(h)' = InUse(h)
    BY <2>1, <2>2 DEF Engaged, InUse
  <2> QED
    BY <2>1, <2>3, DisciplineStutters DEF hostVars
<1>3. CASE HostReacts(h)
  BY <1>2, <1>3, CallbacksDisciplined, ResumeDisciplined DEF HostReacts
<1>4. CASE OperatorActs(h)
  BY <1>4, OperatorDisciplined
<1>5. CASE HostSuffers(h)
  BY <1>1, <1>2, <1>5, SessionStartDisciplined, SessionCloseDisciplined, ExitDisciplined
  DEF HostSuffers, HostCrashes
<1> QED
  BY <1>1, <1>3, <1>4, <1>5

LEMMA HostStepDisciplined ==
  ASSUME HostTypes, HostDiscipline, HostNext
  PROVE  HostDiscipline'
<1>1. PICK h \in Hosts : HostStart(h) \/ HostReacts(h) \/ OperatorActs(h) \/ HostSuffers(h)
  BY DEF HostNext
<1>2. (Locked(h) /\ Owned(h))'
  BY <1>1, OneHostDisciplined DEF HostDiscipline
<1>3. ASSUME NEW g \in Hosts \ {h}
      PROVE  (Locked(g) /\ Owned(g))'
  <2>1. CASE HostStart(h) \/ HostLosesSocket(h)
    <3>1. Same(g)
      BY <2>1 DEF HostStart, HostLosesSocket, Same, hostVars, rtcVars, HostTypes, HostTypeOK
    <3> QED
      BY <3>1, SameKeepsDiscipline DEF HostDiscipline
  <2>2. CASE ~(HostStart(h) \/ HostLosesSocket(h))
    <3>1. Same(g)
      BY <1>1, <2>2, CallbacksLocal, OperatorLocal, ResumeLocal, SessionLocal, ExitsLeave,
         HostExitLocal
      DEF HostReacts, HostSuffers, HostShellExits, HostDrains, HostCrashes
    <3> QED
      BY <3>1, SameKeepsDiscipline DEF HostDiscipline
  <2> QED
    BY <2>1, <2>2
<1> QED
  BY <1>2, <1>3 DEF HostDiscipline

(* Steps of others leave a host's lock and terminal alone.                 *)
LEMMA OthersKeepDiscipline ==
  ASSUME HostDiscipline, UNCHANGED <<hostUp, isApproving, lobby, settled, stdin, hostPc>>
  PROVE  HostDiscipline'
  BY SameKeepsDiscipline DEF HostDiscipline, Same

-----------------------------------------------------------------------------
(* The screen.  As long as no CLIENT_DISCONNECT is read the queue of a     *)
(* lobby only grows at its end: what was painted is a prefix of it, and    *)
(* the cursor is within what was painted.                                  *)

Painted(l, q) ==
  /\ l.selectedIndex = l.cursor
  /\ l.cursor <= Len(l.entries)
  /\ Len(l.entries) <= Len(q)
  /\ \A i \in 1..Len(l.entries) : l.entries[i] = q[i]

ScreenOK(g) ==
  /\ lobby[g] # None => Painted(lobby[g], approvalQueue[g])
  /\ (settled[g] # None /\ settled[g].seen \in Clients)
       => settled[g].result \in {settled[g].seen, "EXIT"}

Screens == \A g \in Hosts : ScreenOK(g)

LEMMA RenderedPaints ==
  ASSUME NEW q \in Seq(Clients), NEW i \in Nat, i <= Len(q)
  PROVE  Painted(Rendered(q, i), q)
  BY DEF Painted, Rendered

LEMMA AppendKeepsPainted ==
  ASSUME NEW l \in Lobbies, NEW q \in Seq(Clients), NEW c \in Clients, Painted(l, q)
  PROVE  Painted(l, Append(q, c))
<1>1. l.entries \in Seq(Clients) /\ l.cursor \in Nat
  BY DEF Lobbies
<1>2. /\ Len(Append(q, c)) = Len(q) + 1
      /\ \A i \in 1..Len(q) : Append(q, c)[i] = q[i]
  OBVIOUS
<1> QED
  BY <1>1, <1>2 DEF Painted

(* Enter on a highlighted client selects it.                               *)
LEMMA EnterSelectsSeen ==
  ASSUME NEW l \in Lobbies, NEW q \in Seq(Clients), Painted(l, q),
         Highlighted(l) \in Clients
  PROVE  /\ l.selectedIndex < Len(q)
         /\ q[l.selectedIndex + 1] = Highlighted(l)
<1>1. l.entries \in Seq(Clients) /\ l.cursor \in Nat /\ Len(l.entries) \in Nat
  BY DEF Lobbies
<1>2. l.cursor < Len(l.entries)
  BY <1>1, ChoicesAssumption DEF Painted, Highlighted
<1>3. Highlighted(l) = l.entries[l.cursor + 1]
  BY <1>2 DEF Highlighted
<1> QED
  BY <1>1, <1>2, <1>3 DEF Painted

LEMMA NoLobbyScreens ==
  ASSUME NEW g, lobby'[g] = None, settled'[g] = None
  PROVE  ScreenOK(g)'
  BY DEF ScreenOK

LEMMA ProcessQueueScreens ==
  ASSUME HostTypes, NEW h \in Hosts, NEW c \in Clients, ScreenOK(h),
         approvalQueue' = [approvalQueue EXCEPT ![h] = Append(approvalQueue[h], c)],
         ProcessQueue(h, Append(approvalQueue[h], c)), UNCHANGED settled
  PROVE  ScreenOK(h)'
<1> DEFINE q == Append(approvalQueue[h], c)
<1>1. approvalQueue[h] \in Seq(Clients) /\ q \in Seq(Clients) /\ approvalQueue'[h] = q
  BY DEF HostTypes, HostTypeOK
<1>2. CASE MayPrompt(h, q)
  <2>1. lobby'[h] = Rendered(q, 0)
    BY <1>2 DEF ProcessQueue, HostTypes, HostTypeOK
  <2>2. Painted(Rendered(q, 0), q)
    <3> HIDE DEF q
    <3> QED
      BY <1>1, RenderedPaints
  <2> QED
    BY <1>1, <2>1, <2>2 DEF ScreenOK
<1>3. CASE ~MayPrompt(h, q)
  <2>1. lobby' = lobby
    BY <1>3 DEF ProcessQueue
  <2>2. lobby[h] # None => Painted(lobby[h], q)
    BY <1>1, AppendKeepsPainted DEF ScreenOK, HostTypes, HostTypeOK
  <2> QED
    BY <1>1, <2>1, <2>2 DEF ScreenOK
<1> QED
  BY <1>2, <1>3

LEMMA OperatorScreens ==
  ASSUME HostTypes, NEW h \in Hosts, ScreenOK(h), OperatorActs(h)
  PROVE  ScreenOK(h)'
<1> DEFINE q == approvalQueue[h]
           l == lobby[h]
<1>1. Picking(h) /\ l \in Lobbies /\ q \in Seq(Clients) /\ Painted(l, q)
  BY DEF OperatorActs, HostKeyUp, HostKeyDown, HostKeyEnter, HostKeyCtrlC, Picking,
         HostTypes, HostTypeOK, ScreenOK
<1>2. l.selectedIndex \in Nat /\ l.selectedIndex <= Len(q) /\ Len(q) \in Nat
  BY <1>1 DEF Lobbies, Painted
<1>3. CASE HostKeyUp(h) \/ HostKeyDown(h)
  <2>1. PICK i \in Nat : MovesTo(h, i) /\ i <= Len(q)
    BY <1>2, <1>3 DEF HostKeyUp, HostKeyDown, CursorAbove, CursorBelow
  <2>2. lobby'[h] = Rendered(q, i) /\ UNCHANGED <<approvalQueue, settled>>
    BY <2>1 DEF MovesTo, HostTypes, HostTypeOK
  <2>3. Painted(Rendered(q, i), q)
    BY <1>1, <2>1, RenderedPaints
  <2> QED
    BY <2>2, <2>3 DEF ScreenOK
<1>4. CASE HostDies(h)
  <2>1. lobby'[h] = None /\ settled'[h] = None
    BY <1>4 DEF HostDies, HostEnds, HostTypes, HostTypeOK
  <2> QED
    BY <2>1, NoLobbyScreens
<1>5. CASE (HostKeyEnter(h) \/ HostKeyCtrlC(h)) /\ ~HostDies(h)
  <2>1. PICK r : /\ Finish(h, r) /\ UNCHANGED <<approvalQueue, lobby>>
                 /\ \/ r = "EXIT"
                    \/ r = IF l.selectedIndex = Len(q) THEN "REJECT_ALL"
                           ELSE q[l.selectedIndex + 1]
    BY <1>5 DEF HostKeyEnter, HostKeyCtrlC
  <2>2. settled'[h] = [result |-> r, seen |-> Highlighted(l)]
    BY <2>1 DEF Finish, HostTypes, HostTypeOK
  <2>3. Highlighted(l) \in Clients => r \in {Highlighted(l), "EXIT"}
    BY <1>1, <1>2, <2>1, EnterSelectsSeen
  <2> QED
    BY <2>1, <2>2, <2>3 DEF ScreenOK
<1> QED
  BY <1>3, <1>4, <1>5 DEF OperatorActs

LEMMA ResumeScreens ==
  ASSUME HostTypes, NEW h \in Hosts,
         HostResumesExit(h) \/ HostResumesRejectAll(h) \/ HostResumesSelected(h)
  PROVE  ScreenOK(h)'
<1>1. lobby'[h] = None /\ settled'[h] = None
  BY DEF HostResumesExit, HostResumesRejectAll, HostResumesSelected, LobbyDone, HostExits,
         HostEnds, HostTypes, HostTypeOK
<1> QED
  BY <1>1, NoLobbyScreens

(* The rest of a host's steps leave queue and screen alone, or end it.     *)
LEMMA OtherScreens ==
  ASSUME HostTypes, NEW h \in Hosts, ScreenOK(h),
         \/ HostStart(h) \/ HostOnSignal(h) \/ HostIgnores(h)
         \/ \E c \in Clients : HostOffers(h, c)
         \/ HostSuffers(h)
  PROVE  ScreenOK(h)'
<1>1. CASE Leaves(h)
  <2>1. lobby'[h] = None /\ settled'[h] = None
    BY <1>1 DEF Leaves, HostEnds, HostTypes, HostTypeOK
  <2> QED
    BY <2>1, NoLobbyScreens
<1>2. CASE ~Leaves(h)
  <2>1. UNCHANGED <<approvalQueue, lobby, settled>>
    BY <1>2, ExitsLeave DEF HostStart, HostOnSignal, HostIgnores, HostOffers, HostSuffers,
       HostSessionStarts, HostSessionCloses, HostNegotiationFails, HostShellExits,
       HostLosesSocket, HostDrains, HostCrashes, hostVars
  <2> QED
    BY <2>1 DEF ScreenOK
<1> QED
  BY <1>1, <1>2

LEMMA HostStepScreens ==
  ASSUME HostTypes, Screens, HostNext,
         \A g \in Hosts : ~Reads(g, "CLIENT_DISCONNECT")
  PROVE  Screens'
<1>1. PICK h \in Hosts : HostStart(h) \/ HostReacts(h) \/ OperatorActs(h) \/ HostSuffers(h)
  BY DEF HostNext
<1>2. ~HostOnDisconnect(h)
  BY DEF HostOnDisconnect
<1>3. ScreenOK(h)
  BY DEF Screens
<1>4. CASE HostOnRequest(h)
  <2> DEFINE c == Head(toPeer[h]).clientId
             q == Append(approvalQueue[h], c)
  <2>1. c \in Clients
    BY <1>4, HostIsPeer, ReadsTyped, FrameFields DEF HostOnRequest, HostTypes
  <2>2. /\ approvalQueue' = [approvalQueue EXCEPT ![h] = q]
        /\ ProcessQueue(h, q) /\ UNCHANGED settled
    BY <1>4 DEF HostOnRequest, Enqueued, CallbackIsApproving
  <2> HIDE DEF c
  <2>3. ScreenOK(h)'
    BY <1>3, <2>1, <2>2, ProcessQueueScreens
  <2>4. ASSUME NEW g \in Hosts \ {h}
        PROVE  ScreenOK(g)'
    <3>1. lobby'[g] = lobby[g] /\ settled'[g] = settled[g]
      BY <2>2, ProcessQueueLocal
    <3>2. approvalQueue'[g] = approvalQueue[g]
      BY <2>2 DEF HostTypes, HostTypeOK
    <3> QED
      BY <3>1, <3>2 DEF ScreenOK, Screens
  <2> QED
    BY <2>3, <2>4 DEF Screens
<1>5. CASE ~HostOnRequest(h)
  <2>1. ScreenOK(h)'
    BY <1>1, <1>2, <1>3, <1>5, OperatorScreens, ResumeScreens, OtherScreens DEF HostReacts
  <2>2. ASSUME NEW g \in Hosts \ {h}
        PROVE  approvalQueue'[g] = approvalQueue[g] /\ lobby'[g] = lobby[g]
               /\ settled'[g] = settled[g]
    <3>1. CASE HostStart(h) \/ HostLosesSocket(h)
      BY <3>1 DEF HostStart, HostLosesSocket, hostVars
    <3>2. CASE ~(HostStart(h) \/ HostLosesSocket(h))
      <4>1. Same(g)
        BY <1>1, <3>2, CallbacksLocal, OperatorLocal, ResumeLocal, SessionLocal, ExitsLeave,
         HostExitLocal
        DEF HostReacts, HostSuffers, HostShellExits, HostDrains, HostCrashes
      <4>2. approvalQueue'[g] = approvalQueue[g]
        BY <1>1, <1>2, <1>5, <3>2 DEF HostReacts, OperatorActs, HostSuffers, HostOnSignal,
           HostIgnores, HostResumesExit, HostResumesRejectAll, HostResumesSelected, HostOffers,
           HostKeyUp, HostKeyDown, HostKeyEnter, HostKeyCtrlC, MovesTo, HostExits, HostDies, HostEnds,
           HostSessionStarts, HostSessionCloses, HostNegotiationFails, HostShellExits,
           HostDrains, HostCrashes, hostVars, HostTypes, HostTypeOK
      <4> QED
        BY <4>1, <4>2 DEF Same
    <3> QED
      BY <3>1, <3>2
  <2>3. \A g \in Hosts \ {h} : ScreenOK(g)'
    BY <2>2 DEF ScreenOK, Screens
  <2> QED
    BY <2>1, <2>3 DEF Screens
<1> QED
  BY <1>4, <1>5

===============================================================================
