---------------------------- MODULE AdmissionProofs ----------------------------
(***************************************************************************)
(* Who gets in, for any number of hosts, clients and codes.  A client's    *)
(* request exists once: it is a lookup, then a MATCH_SUCCESS, a request on *)
(* its way to the server, a request on its way to one host, an entry of    *)
(* that host's queue, and then one verdict.  From this follow OneVerdict   *)
(* and the refinement of AccessControl.                                    *)
(***************************************************************************)
EXTENDS MatchmakingProofs, FiniteSetTheorems

(* What a peer writes is of its own kinds.                                 *)
Senders ==
  /\ \A h \in Hosts : toServer[h] \in Seq(HostFrames(h))
  /\ \A c \in Clients : toServer[c] \in Seq(ClientFrames(c))

(* A peer that has not connected has no frames and no room.                *)
Quiet ==
  \A p \in Peers : link[p] = "new" =>
    toServer[p] = <<>> /\ toPeer[p] = <<>> /\ socketToSession[p] = None

(* A host registers once.                                                  *)
Registers ==
  \A h \in Hosts :
    /\ Orderly(toServer[h], HostRegister, {HostRegister})
    /\ ~Free(toServer[h], {HostRegister}) => socketToSession[h] = None

Rooms == Senders /\ Quiet /\ Registers /\ RoomsDistinct

(* No host has heard of client c yet.                                      *)
Untold(c) ==
  /\ \A h \in Hosts : /\ Free(toPeer[h], {ApprovalRequest(c)})
                      /\ Free(approvalQueue[h], {c})
                      /\ hostPc[h][c] = "none"
  /\ verdicts[c] = <<>>
  /\ clientPc[c] = "none"

(* Until its request is with the server, c is at one of four stages.       *)
Asking(c) ==
  /\ link[c] = "new" => Untold(c)
  /\ \A k \in Codes : ~Free(toServer[c], {ClientLookup(k)}) =>
       /\ toServer[c] = <<ClientLookup(k)>>
       /\ toPeer[c] = <<>> /\ socketToSession[c] = None
       /\ Untold(c)
  /\ Orderly(toPeer[c], MatchSuccess, {MatchSuccess})
  /\ ~Free(toPeer[c], {MatchSuccess}) => toServer[c] = <<>> /\ Untold(c)
  /\ ~Free(toServer[c], {ApprovalRequest(c)}) =>
       toServer[c] = <<ApprovalRequest(c)>> /\ Untold(c)

(* A request on its way to h is nowhere else, and not yet judged.          *)
Knocking(h, c) ==
  /\ Orderly(toPeer[h], ApprovalRequest(c), {ApprovalRequest(c)})
  /\ ~Free(toPeer[h], {ApprovalRequest(c)}) =>
       /\ verdicts[c] = <<>>
       /\ \A g \in Hosts : /\ hostPc[g][c] = "none"
                           /\ Free(approvalQueue[g], {c})
                           /\ g # h => Free(toPeer[g], {ApprovalRequest(c)})

(* Nor is a request in the queue of h.                                     *)
Waiting(h, c) ==
  /\ Orderly(approvalQueue[h], c, {c})
  /\ ~Free(approvalQueue[h], {c}) =>
       /\ verdicts[c] = <<>>
       /\ \A g \in Hosts : g # h => Free(approvalQueue[g], {c})

(* There is one verdict at most, and the responses and transports are its. *)
Judged(c) ==
  /\ verdicts[c] \in {<<>>, <<TRUE>>, <<FALSE>>}
  /\ clientPc[c] # "none" => verdicts[c] = <<TRUE>>
  /\ \A h \in Hosts : hostPc[h][c] # "none" =>
       verdicts[c] = <<TRUE>> /\ \A g \in Hosts : g # h => hostPc[g][c] = "none"
  /\ \A p \in Peers, b \in BOOLEAN :
       /\ ~Free(toServer[p], {ApprovalResponse(c, b)}) => verdicts[c] = <<b>>
       /\ ~Free(toPeer[p], {ApprovalResponse(c, b)}) => verdicts[c] = <<b>>

Token ==
  \A c \in Clients :
    Asking(c) /\ Judged(c) /\ \A h \in Hosts : Knocking(h, c) /\ Waiting(h, c)

-----------------------------------------------------------------------------
(* Most steps are calm: frames are read or lost, a queue is dropped, and   *)
(* at most a description is written, by a peer that has a transport.       *)

Signals(p, f) ==
  /\ link[p] = "open"
  /\ toServer'[p] = Append(toServer[p], f)
  /\ \/ p \in Hosts /\ hostUp[p] = "up" /\ \E c \in Engaged(p) : f = Offer(p, c)
     \/ p \in Clients /\ clientPc[p] # "none" /\ \E h \in Hosts, d \in Clients : f = Answer(p, h, d)

Calm ==
  /\ \A p \in Peers :
       /\ Less(toPeer'[p], toPeer[p])
       /\ Less(toServer'[p], toServer[p]) \/ (\E f : Signals(p, f))
       /\ link'[p] = link[p] \/ (link[p] = "open" /\ link'[p] = "closing")
  /\ \A h \in Hosts : Less(approvalQueue'[h], approvalQueue[h])
  /\ \A h \in Hosts, c \in Clients : hostPc'[h][c] = "none" <=> hostPc[h][c] = "none"
  /\ \A c \in Clients : clientPc'[c] = "none" <=> clientPc[c] = "none"
  /\ UNCHANGED <<serverVars, verdicts>>

(* For the server it is enough that peers lose frames, or write some that  *)
(* are neither a lookup nor a registration.                                *)
Says(p) ==
  (IF p \in Hosts THEN HostFrames(p) ELSE ClientFrames(p)) \ ({HostRegister} \cup Lookups)

Adds(p, fs) == link[p] = "open" /\ fs \in Seq(Says(p)) /\ toServer'[p] = toServer[p] \o fs

PeersUse ==
  /\ \A p \in Peers :
       /\ Less(toPeer'[p], toPeer[p])
       /\ Less(toServer'[p], toServer[p]) \/ (\E fs : Adds(p, fs))
       /\ link'[p] = link[p] \/ (link[p] = "open" /\ link'[p] = "closing")
  /\ UNCHANGED serverVars

LEMMA AddsWrites ==
  ASSUME Senders, NEW p \in Peers,
         Less(toServer'[p], toServer[p]) \/ (\E fs : Adds(p, fs)),
         NEW g, NEW S, S \subseteq {HostRegister} \cup Lookups
  PROVE  /\ Free(toServer[p], S) => Free(toServer'[p], S)
         /\ Orderly(toServer[p], g, S) => Orderly(toServer'[p], g, S)
         /\ p \in Hosts => toServer'[p] \in Seq(HostFrames(p))
         /\ p \in Clients => toServer'[p] \in Seq(ClientFrames(p))
<1> DEFINE W == IF p \in Hosts THEN HostFrames(p) ELSE ClientFrames(p)
           Z == {HostRegister} \cup Lookups
<1>1. toServer[p] \in Seq(W) /\ (p \in Hosts => p \notin Clients) /\ p \in Hosts \cup Clients
  BY PeersAssumption DEF Senders, Peers
<1>2. Says(p) = W \ Z /\ S \subseteq Z
  BY DEF Says
<1> HIDE DEF W, Z
<1>3. /\ toServer'[p] \in Seq(W)
      /\ Free(toServer[p], S) => Free(toServer'[p], S)
      /\ Orderly(toServer[p], g, S) => Orderly(toServer'[p], g, S)
  <2>1. CASE Less(toServer'[p], toServer[p])
    BY <1>1, <2>1, LessHolds
  <2>2. CASE \E fs : Adds(p, fs)
    <3>1. PICK fs : Adds(p, fs)
      BY <2>2
    <3>2. fs \in Seq(W \ Z) /\ toServer'[p] = toServer[p] \o fs
      BY <1>2, <3>1 DEF Adds
    <3>3. fs \in Seq(W) /\ \A i \in DOMAIN fs : fs[i] \notin Z
      BY <3>2
    <3>4. Free(fs, S) /\ Orderly(fs, g, S)
      BY <1>2, <3>3 DEF Free, Orderly
    <3>5. /\ Free(toServer[p], S) => Free(toServer[p] \o fs, S)
          /\ Orderly(toServer[p], g, S) => Orderly(toServer[p] \o fs, g, S)
      BY <1>1, <3>3, <3>4, ConcatHolds
    <3> QED
      BY <1>1, <3>2, <3>3, <3>5
  <2> QED
    BY <2>1, <2>2
<1> QED
  BY <1>1, <1>3 DEF W

LEMMA PeersKeepRooms ==
  ASSUME Types, Rooms, PeersUse
  PROVE  Rooms'
<1>1. Senders'
  <2>1. ASSUME NEW p \in Peers
        PROVE  /\ p \in Hosts => toServer'[p] \in Seq(HostFrames(p))
               /\ p \in Clients => toServer'[p] \in Seq(ClientFrames(p))
    <3>1. {} \subseteq {HostRegister} \cup Lookups
      OBVIOUS
    <3> QED
      BY <3>1, AddsWrites DEF Rooms, PeersUse
  <2> QED
    BY <2>1 DEF Senders, Peers
<1>2. Quiet'
  <2> SUFFICES ASSUME NEW p \in Peers, link'[p] = "new"
               PROVE  (toServer[p] = <<>> /\ toPeer[p] = <<>> /\ socketToSession[p] = None)'
    BY DEF Quiet
  <2>1. link[p] = "new" /\ toServer[p] = <<>> /\ toPeer[p] = <<>> /\ socketToSession[p] = None
    BY DEF PeersUse, Rooms, Quiet
  <2>2. ~\E fs : Adds(p, fs)
    BY <2>1 DEF Adds
  <2> QED
    BY <2>1, <2>2, NothingLess DEF PeersUse, serverVars
<1>3. Registers'
  <2> SUFFICES ASSUME NEW h \in Hosts
               PROVE  /\ Orderly(toServer'[h], HostRegister, {HostRegister})
                      /\ ~Free(toServer'[h], {HostRegister}) => socketToSession'[h] = None
    BY DEF Registers
  <2>1. h \in Peers /\ {HostRegister} \subseteq {HostRegister} \cup Lookups
    BY HostIsPeer
  <2>2. /\ Orderly(toServer[h], HostRegister, {HostRegister})
        /\ ~Free(toServer[h], {HostRegister}) => socketToSession[h] = None
    BY DEF Rooms, Registers
  <2>3. /\ Free(toServer[h], {HostRegister}) => Free(toServer'[h], {HostRegister})
        /\ Orderly(toServer'[h], HostRegister, {HostRegister})
    BY <2>1, <2>2, AddsWrites DEF Rooms, PeersUse
  <2> QED
    BY <2>2, <2>3 DEF PeersUse, serverVars
<1>4. RoomsDistinct'
  <2>1. \A h \in Hosts : link[h] \in {"open", "closing"} => link'[h] \in {"open", "closing"}
    BY HostIsPeer DEF PeersUse
  <2> QED
    BY <2>1 DEF PeersUse, Rooms, RoomsDistinct, serverVars
<1> QED
  BY <1>1, <1>2, <1>3, <1>4 DEF Rooms

LEMMA CalmUses ==
  ASSUME Types, Calm
  PROVE  PeersUse
<1>1. ASSUME NEW p \in Peers, NEW f, Signals(p, f)
      PROVE  Adds(p, <<f>>)
  <2>1. f \in (IF p \in Hosts THEN HostFrames(p) ELSE ClientFrames(p)) /\ f \in Offers \cup Answers
    BY <1>1, FramesAre, PeersAssumption DEF Signals, HostFrames, ClientFrames, Engaged
  <2>2. f \in Says(p)
    BY <2>1, FramesDiffer DEF Says, Forwarded
  <2>3. toServer[p] \o <<f>> = Append(toServer[p], f)
    BY DEF Types, ChannelTypeOK
  <2> QED
    BY <1>1, <2>2, <2>3 DEF Signals, Adds
<1> QED
  BY <1>1 DEF Calm, PeersUse

-----------------------------------------------------------------------------
(* A step that is steady for client c moves neither its request nor its    *)
(* verdict.                                                                *)
Steady(c) ==
  /\ \A h \in Hosts :
       /\ Free(toPeer[h], {ApprovalRequest(c)}) => Free(toPeer'[h], {ApprovalRequest(c)})
       /\ Orderly(toPeer[h], ApprovalRequest(c), {ApprovalRequest(c)})
            => Orderly(toPeer'[h], ApprovalRequest(c), {ApprovalRequest(c)})
       /\ Free(approvalQueue[h], {c}) => Free(approvalQueue'[h], {c})
       /\ Orderly(approvalQueue[h], c, {c}) => Orderly(approvalQueue'[h], c, {c})
       /\ hostPc'[h][c] = "none" <=> hostPc[h][c] = "none"
  /\ \A p \in Peers, b \in BOOLEAN :
       /\ Free(toServer[p], {ApprovalResponse(c, b)}) => Free(toServer'[p], {ApprovalResponse(c, b)})
       /\ Free(toPeer[p], {ApprovalResponse(c, b)}) => Free(toPeer'[p], {ApprovalResponse(c, b)})
  /\ clientPc'[c] = "none" <=> clientPc[c] = "none"
  /\ verdicts'[c] = verdicts[c]

(* What Token says of c.                                                   *)
TokenOf(c) == Judged(c) /\ \A h \in Hosts : Knocking(h, c) /\ Waiting(h, c)

LEMMA SteadyKeeps ==
  ASSUME NEW c \in Clients, Steady(c)
  PROVE  /\ TokenOf(c) => TokenOf(c)'
         /\ Untold(c) => Untold(c)'
<1>1. Untold(c) => Untold(c)'
  BY DEF Steady, Untold
<1>2. Judged(c) => Judged(c)'
  BY DEF Steady, Judged
<1>3. ASSUME NEW h \in Hosts
      PROVE  /\ Knocking(h, c) => Knocking(h, c)'
             /\ Waiting(h, c) => Waiting(h, c)'
  <2>1. Knocking(h, c) => Knocking(h, c)'
    BY DEF Steady, Knocking
  <2>2. Waiting(h, c) => Waiting(h, c)'
    BY DEF Steady, Waiting
  <2> QED
    BY <2>1, <2>2
<1> QED
  BY <1>1, <1>2, <1>3 DEF TokenOf

(* What a calm step adds to what p writes is no lookup, registration,      *)
(* request or response.                                                    *)
Descriptions == Offers \cup Answers

LEMMA CalmWrites ==
  ASSUME Types, NEW p \in Peers,
         Less(toServer'[p], toServer[p]) \/ (\E f : Signals(p, f)),
         NEW S, S \cap Descriptions = {}
  PROVE  Free(toServer[p], S) => Free(toServer'[p], S)
<1>1. CASE Less(toServer'[p], toServer[p])
  BY <1>1, LessHolds DEF Types, ChannelTypeOK
<1>2. ASSUME NEW f, Signals(p, f)
      PROVE  Free(toServer[p], S) => Free(toServer'[p], S)
  <2>1. f \notin S /\ f \in FramesToServer /\ toServer[p] \in Seq(FramesToServer)
    BY <1>2, FramesAre, FramesTyped DEF Signals, Descriptions, Engaged, Types, ChannelTypeOK
  <2>2. Free(toServer[p], S) => Free(Append(toServer[p], f), S)
    BY <2>1, AppendHolds
  <2> QED
    BY <1>2, <2>2 DEF Signals
<1> QED
  BY <1>1, <1>2

LEMMA CalmIsSteady ==
  ASSUME Types, Calm, NEW c \in Clients
  PROVE  Steady(c)
<1>1. ASSUME NEW p \in Peers, NEW g, NEW S
      PROVE  /\ Free(toPeer[p], S) => Free(toPeer'[p], S)
             /\ Orderly(toPeer[p], g, S) => Orderly(toPeer'[p], g, S)
  BY LessHolds DEF Types, ChannelTypeOK, Calm
<1>2. ASSUME NEW h \in Hosts, NEW g, NEW S
      PROVE  /\ Free(approvalQueue[h], S) => Free(approvalQueue'[h], S)
             /\ Orderly(approvalQueue[h], g, S) => Orderly(approvalQueue'[h], g, S)
  BY LessHolds DEF Types, HostTypeOK, Calm
<1>3. ASSUME NEW p \in Peers, NEW b \in BOOLEAN
      PROVE  Free(toServer[p], {ApprovalResponse(c, b)}) => Free(toServer'[p], {ApprovalResponse(c, b)})
  <2>1. {ApprovalResponse(c, b)} \cap Descriptions = {}
    BY FramesAre, FramesDiffer DEF Descriptions
  <2> QED
    BY <2>1, CalmWrites DEF Calm
<1> QED
  BY <1>1, <1>2, <1>3, HostIsPeer DEF Steady, Calm

LEMMA CalmKeepsAsking ==
  ASSUME Types, Calm, NEW c \in Clients, Asking(c)
  PROVE  Asking(c)'
<1>1. c \in Peers
  BY ClientIsPeer
<1>2. Untold(c) => Untold(c)'
  BY CalmIsSteady, SteadyKeeps
<1>3. Less(toPeer'[c], toPeer[c]) /\ (Less(toServer'[c], toServer[c]) \/ (\E f : Signals(c, f)))
  BY <1>1 DEF Calm
<1>4. Untold(c) => Less(toServer'[c], toServer[c])
  BY <1>3, PeersAssumption DEF Untold, Signals
<1>5. link'[c] = "new" => Untold(c)'
  BY <1>1, <1>2 DEF Calm, Asking
<1>6. ASSUME NEW k \in Codes, ~Free(toServer'[c], {ClientLookup(k)})
      PROVE  /\ toServer'[c] = <<ClientLookup(k)>>
             /\ toPeer'[c] = <<>> /\ socketToSession'[c] = None
             /\ Untold(c)'
  <2>1. {ClientLookup(k)} \cap Descriptions = {}
    BY FramesAre, FramesDiffer DEF Descriptions, Forwarded
  <2>2. ~Free(toServer[c], {ClientLookup(k)})
    BY <1>1, <1>3, <1>6, <2>1, CalmWrites
  <2>3. /\ toServer[c] = <<ClientLookup(k)>>
        /\ toPeer[c] = <<>> /\ socketToSession[c] = None
        /\ Untold(c)
    BY <2>2 DEF Asking
  <2>4. toServer'[c] \in {<<ClientLookup(k)>>, <<>>} /\ toPeer'[c] = <<>>
    BY <1>3, <1>4, <2>3, LessThanOne, NothingLess
  <2>5. toServer'[c] # <<>>
    BY <1>6, EmptyHolds
  <2> QED
    BY <1>2, <2>3, <2>4, <2>5 DEF Calm, serverVars
<1>7. /\ Orderly(toPeer'[c], MatchSuccess, {MatchSuccess})
      /\ ~Free(toPeer'[c], {MatchSuccess}) => toServer'[c] = <<>> /\ Untold(c)'
  <2>1. /\ Free(toPeer[c], {MatchSuccess}) => Free(toPeer'[c], {MatchSuccess})
        /\ Orderly(toPeer'[c], MatchSuccess, {MatchSuccess})
    BY <1>1, <1>3, LessHolds DEF Types, ChannelTypeOK, Asking
  <2> QED
    BY <1>2, <1>4, <2>1, NothingLess DEF Asking
<1>8. ASSUME ~Free(toServer'[c], {ApprovalRequest(c)})
      PROVE  toServer'[c] = <<ApprovalRequest(c)>> /\ Untold(c)'
  <2>1. {ApprovalRequest(c)} \cap Descriptions = {}
    BY FramesAre, FramesDiffer DEF Descriptions
  <2>2. ~Free(toServer[c], {ApprovalRequest(c)})
    BY <1>1, <1>3, <1>8, <2>1, CalmWrites
  <2>3. toServer[c] = <<ApprovalRequest(c)>> /\ Untold(c)
    BY <2>2 DEF Asking
  <2>4. toServer'[c] \in {<<ApprovalRequest(c)>>, <<>>}
    BY <1>4, <2>3, LessThanOne
  <2>5. toServer'[c] # <<>>
    BY <1>8, EmptyHolds
  <2> QED
    BY <1>2, <2>3, <2>4, <2>5
<1> QED
  BY <1>5, <1>6, <1>7, <1>8 DEF Asking

LEMMA CalmKeeps ==
  ASSUME Types, Rooms, Token, Calm
  PROVE  Rooms' /\ Token'
<1>1. Rooms'
  BY CalmUses, PeersKeepRooms
<1>2. Token'
  BY CalmKeepsAsking, CalmIsSteady, SteadyKeeps DEF Token, TokenOf
<1> QED
  BY <1>1, <1>2

(* Reading, hanging up and being cut off only lose frames.                 *)
LEMMA LosingCalm ==
  ASSUME Types, NEW p \in Peers, UNCHANGED <<serverVars, verdicts>>,
         \/ Cut(p)
         \/ Hangup(p)
         \/ (\E t : Reads(p, t)) /\ UNCHANGED <<link, toServer>>
         \/ UNCHANGED channelVars,
         \A h \in Hosts : approvalQueue'[h] \in {approvalQueue[h], <<>>},
         \A h \in Hosts, c \in Clients : hostPc'[h][c] = "none" <=> hostPc[h][c] = "none",
         \A c \in Clients : clientPc'[c] = "none" <=> clientPc[c] = "none"
  PROVE  Calm
<1>1. ASSUME NEW q \in Peers
      PROVE  /\ Less(toPeer'[q], toPeer[q])
             /\ Less(toServer'[q], toServer[q])
             /\ link'[q] = link[q] \/ (link[q] = "open" /\ link'[q] = "closing")
  <2>1. CASE Cut(p)
    <3>1. PICK n \in 0..Len(toServer[p]) :
            toServer' = [toServer EXCEPT ![p] = SubSeq(toServer[p], 1, n)]
      BY <2>1 DEF Cut
    <3>2. Less(toServer'[q], toServer[q])
      BY <3>1 DEF Less, Types, ChannelTypeOK
    <3> QED
      BY <2>1, <3>2 DEF Cut, Less, Types, ChannelTypeOK
  <2>2. CASE Hangup(p)
    BY <2>2 DEF Hangup, Less, Types, ChannelTypeOK
  <2>3. CASE (\E t : Reads(p, t)) /\ UNCHANGED <<link, toServer>>
    BY <2>3 DEF Reads, Less, Types, ChannelTypeOK
  <2>4. CASE UNCHANGED channelVars
    BY <2>4 DEF channelVars, Less
  <2> QED
    BY <2>1, <2>2, <2>3, <2>4
<1>2. \A h \in Hosts : Less(approvalQueue'[h], approvalQueue[h])
  BY DEF Less
<1> QED
  BY <1>1, <1>2 DEF Calm

(* The steps of a host that do not concern a request.                      *)
HostCalmStep(h) ==
  \/ HostOnSignal(h)
  \/ HostIgnores(h)
  \/ OperatorActs(h)
  \/ HostResumesExit(h)
  \/ HostSuffers(h)
  \/ \E c \in Clients : HostOffers(h, c)

LEMMA HostExitsCalm ==
  ASSUME Types, NEW h \in Hosts, Leaves(h), UNCHANGED <<serverVars, clientVars>>
  PROVE  Calm
<1>1. h \in Peers /\ Cut(h) /\ UNCHANGED <<serverVars, verdicts, clientPc>>
  BY HostIsPeer DEF Leaves, HostEnds
<1>2. \A g \in Hosts : approvalQueue'[g] \in {approvalQueue[g], <<>>}
  BY DEF Leaves, HostEnds, Types, HostTypeOK
<1>3. \A g \in Hosts, c \in Clients : hostPc'[g][c] = "none" <=> hostPc[g][c] = "none"
  BY DEF Leaves, HostEnds, Types, RtcTypeOK
<1> QED
  BY <1>1, <1>2, <1>3, LosingCalm

LEMMA HostOffersCalm ==
  ASSUME Types, NEW h \in Hosts, NEW c \in Clients, HostOffers(h, c), UNCHANGED serverVars
  PROVE  Calm
<1>1. /\ hostUp[h] = "up"
      /\ hostPc[h][c] = "new" /\ hostPc' = [hostPc EXCEPT ![h][c] = "offered"]
      /\ toServer' = Written(h, <<Offer(h, c)>>)
      /\ UNCHANGED <<clientPc, link, toPeer, hostVars>>
  BY DEF HostOffers, HostIdle, HostSignalsOffer
<1>2. ASSUME NEW p \in Peers
      PROVE  Less(toServer'[p], toServer[p]) \/ (\E f : Signals(p, f))
  <2>1. CASE toServer'[p] = toServer[p]
    BY <2>1 DEF Less
  <2>2. CASE toServer'[p] # toServer[p]
    <3>1. p = h /\ link[h] = "open" /\ toServer'[p] = toServer[p] \o <<Offer(h, c)>>
      BY <1>1, <2>2 DEF Written, Types, ChannelTypeOK
    <3>2. toServer[p] \o <<Offer(h, c)>> = Append(toServer[p], Offer(h, c))
      BY DEF Types, ChannelTypeOK
    <3>3. Signals(p, Offer(h, c))
      BY <1>1, <3>1, <3>2 DEF Signals, Engaged, Live
    <3> QED
      BY <3>3
  <2> QED
    BY <2>1, <2>2
<1>3. \A g \in Hosts, d \in Clients : hostPc'[g][d] = "none" <=> hostPc[g][d] = "none"
  BY <1>1 DEF Types, RtcTypeOK
<1> QED
  BY <1>1, <1>2, <1>3 DEF Calm, Less, hostVars

LEMMA HostStepsCalm ==
  ASSUME Types, NEW h \in Hosts, HostCalmStep(h), UNCHANGED <<serverVars, clientVars>>
  PROVE  Calm
<1>0. HostTypes
  BY DEF Types, HostTypes
<1>1. CASE Leaves(h)
  BY <1>1, HostExitsCalm
<1>2. CASE \E c \in Clients : HostOffers(h, c)
  BY <1>2, HostOffersCalm
<1>3. CASE HostCalmStep(h) /\ ~Leaves(h) /\ ~\E c \in Clients : HostOffers(h, c)
  <2>1. UNCHANGED <<verdicts, approvalQueue, clientPc>>
    BY <1>0, <1>3, ExitsLeave DEF HostCalmStep, HostOnSignal, HostIgnores, OperatorActs, HostKeyUp, HostKeyDown,
       HostKeyEnter, HostKeyCtrlC, MovesTo, HostResumesExit, HostSuffers, HostSessionStarts,
       HostSessionCloses, HostNegotiationFails, HostShellExits, HostLosesSocket, HostDrains,
       HostCrashes, HostAppliesSignal, hostVars, rtcVars
  <2>2. \/ Cut(h)
        \/ (\E t : Reads(h, t)) /\ UNCHANGED <<link, toServer>>
        \/ UNCHANGED channelVars
    BY <1>0, <1>3, ExitsLeave DEF HostCalmStep, HostOnSignal, HostIgnores, OperatorActs, HostKeyUp, HostKeyDown,
       HostKeyEnter, HostKeyCtrlC, MovesTo, HostResumesExit, HostSuffers, HostSessionStarts,
       HostSessionCloses, HostNegotiationFails, HostShellExits, HostLosesSocket, HostDrains,
       HostCrashes, channelVars
  <2>3. ASSUME NEW g \in Hosts, NEW c \in Clients
        PROVE  hostPc'[g][c] = "none" <=> hostPc[g][c] = "none"
    <3>1. \/ hostPc' = hostPc
          \/ \E d \in Clients, v \in {"open", "closed"} :
               hostPc[h][d] # "none" /\ hostPc' = [hostPc EXCEPT ![h][d] = v]
      BY <1>0, <1>3, ExitsLeave DEF HostCalmStep, HostOnSignal, HostIgnores, OperatorActs, HostKeyUp, HostKeyDown,
         HostKeyEnter, HostKeyCtrlC, MovesTo, HostResumesExit, HostSuffers, HostSessionStarts,
         HostSessionCloses, HostNegotiationFails, HostShellExits, HostLosesSocket, HostDrains,
         HostCrashes, HostAppliesSignal, HostMayOpen, rtcVars
    <3> QED
      BY <3>1 DEF Types, RtcTypeOK
  <2> QED
    BY <2>1, <2>2, <2>3, HostIsPeer, LosingCalm
<1> QED
  BY <1>1, <1>2, <1>3

(* The steps of a client other than its way to its request, and the        *)
(* approval.                                                               *)
ClientCalmStep(c) ==
  \/ ClientExits(c)
  \/ ClientIgnores(c)
  \/ ClientOnSignal(c)
  \/ ClientAnswers(c)
  \/ ClientSessionStarts(c)
  \/ ClientLosesSocket(c)

LEMMA ClientAnswersCalm ==
  ASSUME Types, OffersNamed, NEW c \in Clients, ClientAnswers(c),
         UNCHANGED <<serverVars, hostVars>>
  PROVE  Calm
<1>1. PICK h \in Hosts, d \in Clients : clientOffer[c] = <<h, d>>
  BY DEF ClientAnswers, ClientSignalsAnswer, OffersNamed
<1>2. /\ clientPc[c] = "remote" /\ clientPc' = [clientPc EXCEPT ![c] = "answered"]
      /\ toServer' = Written(c, <<Answer(c, h, d)>>)
      /\ UNCHANGED <<hostPc, link, toPeer>>
  BY <1>1 DEF ClientAnswers, ClientSignalsAnswer
<1>3. ASSUME NEW p \in Peers
      PROVE  Less(toServer'[p], toServer[p]) \/ (\E f : Signals(p, f))
  <2>1. CASE toServer'[p] = toServer[p]
    BY <2>1 DEF Less
  <2>2. CASE toServer'[p] # toServer[p]
    <3>1. p = c /\ link[c] = "open" /\ toServer'[p] = toServer[p] \o <<Answer(c, h, d)>>
      BY <1>2, <2>2 DEF Written, Types, ChannelTypeOK
    <3>2. toServer[p] \o <<Answer(c, h, d)>> = Append(toServer[p], Answer(c, h, d))
      BY DEF Types, ChannelTypeOK
    <3>3. Signals(p, Answer(c, h, d))
      BY <1>2, <3>1, <3>2 DEF Signals
    <3> QED
      BY <3>3
  <2> QED
    BY <2>1, <2>2
<1>4. \A e \in Clients : clientPc'[e] = "none" <=> clientPc[e] = "none"
  BY <1>2 DEF Types, RtcTypeOK
<1> QED
  BY <1>2, <1>3, <1>4 DEF Calm, Less, hostVars

LEMMA ClientStepsCalm ==
  ASSUME Types, OffersNamed, NEW c \in Clients, ClientCalmStep(c),
         UNCHANGED <<serverVars, hostVars>>
  PROVE  Calm
<1>1. CASE ClientAnswers(c)
  BY <1>1, ClientAnswersCalm
<1>2. CASE ClientCalmStep(c) /\ ~ClientAnswers(c)
  <2>1. UNCHANGED <<verdicts, approvalQueue, hostPc>>
    BY <1>2 DEF ClientCalmStep, ClientExits, ClientIgnores, ClientOnSignal, ClientSessionStarts,
       ClientLosesSocket, ClientAppliesSignal, hostVars, rtcVars
  <2>2. \/ Cut(c)
        \/ Hangup(c)
        \/ (\E t : Reads(c, t)) /\ UNCHANGED <<link, toServer>>
    BY <1>2 DEF ClientCalmStep, ClientExits, ClientIgnores, ClientOnSignal, ClientSessionStarts,
       ClientLosesSocket
  <2>3. ASSUME NEW e \in Clients
        PROVE  clientPc'[e] = "none" <=> clientPc[e] = "none"
    <3>1. \/ clientPc' = clientPc
          \/ clientPc' = [clientPc EXCEPT ![c] = IF clientPc[c] = "none" THEN "none" ELSE "closed"]
          \/ \E v \in {"remote", "open"} :
               clientPc[c] # "none" /\ clientPc' = [clientPc EXCEPT ![c] = v]
      BY <1>2 DEF ClientCalmStep, ClientExits, ClientIgnores, ClientOnSignal, ClientSessionStarts,
         ClientLosesSocket, ClientAppliesSignal, ClientMayOpen, rtcVars
    <3> QED
      BY <3>1 DEF Types, RtcTypeOK
  <2> QED
    BY <2>1, <2>2, <2>3, ClientIsPeer, LosingCalm
<1> QED
  BY <1>1, <1>2

-----------------------------------------------------------------------------
(* A request's way to the server: connecting, and the match.               *)

LEMMA ConnectKeepsRooms ==
  ASSUME Types, Rooms, NEW p \in Peers, NEW f,
         p \in Hosts => f = HostRegister,
         p \in Clients => f \in Lookups,
         Connect(p, f), UNCHANGED serverVars
  PROVE  /\ Rooms' /\ toServer[p] = <<>> /\ toServer'[p] = <<f>>
         /\ \A q \in Peers : q # p => toServer'[q] = toServer[q] /\ link'[q] = link[q]
<1>1. /\ link[p] = "new" /\ toServer[p] = <<>> /\ toPeer[p] = <<>> /\ socketToSession[p] = None
      /\ Append(<<>>, f) = <<f>>
  BY DEF Connect, Rooms, Quiet
<1>2. /\ link'[p] = "open" /\ toServer'[p] = <<f>> /\ toPeer' = toPeer
      /\ \A q \in Peers : q # p => toServer'[q] = toServer[q] /\ link'[q] = link[q]
  BY <1>1 DEF Connect, Types, ChannelTypeOK
<1>3. p \in Hosts => p \notin Clients
  BY PeersAssumption
<1>4. Senders'
  <2>1. \A h \in Hosts : toServer'[h] \in Seq(HostFrames(h))
    <3>1. p \in Hosts => <<f>> \in Seq(HostFrames(p))
      BY DEF HostFrames
    <3> QED
      BY <1>2, <1>3, <3>1, HostIsPeer DEF Rooms, Senders
  <2>2. \A c \in Clients : toServer'[c] \in Seq(ClientFrames(c))
    <3>1. p \in Clients => <<f>> \in Seq(ClientFrames(p))
      BY DEF ClientFrames
    <3> QED
      BY <1>2, <1>3, <3>1, ClientIsPeer DEF Rooms, Senders
  <2> QED
    BY <2>1, <2>2 DEF Senders
<1>5. Quiet'
  BY <1>2 DEF Rooms, Quiet, serverVars
<1>6. Registers'
  <2> SUFFICES ASSUME NEW h \in Hosts
               PROVE  /\ Orderly(toServer'[h], HostRegister, {HostRegister})
                      /\ ~Free(toServer'[h], {HostRegister}) => socketToSession'[h] = None
    BY DEF Registers
  <2>1. CASE h = p
    BY <1>1, <1>2, <2>1, SingleHolds DEF serverVars
  <2>2. CASE h # p
    BY <1>2, <2>2, HostIsPeer DEF Rooms, Registers, serverVars
  <2> QED
    BY <2>1, <2>2
<1>7. RoomsDistinct'
  <2>1. \A h \in Hosts : link[h] \in {"open", "closing"} => link'[h] \in {"open", "closing"}
    BY <1>2, HostIsPeer
  <2> QED
    BY <2>1 DEF Rooms, RoomsDistinct, serverVars
<1> QED
  BY <1>1, <1>2, <1>4, <1>5, <1>6, <1>7 DEF Rooms

(* Where nothing of c's own changes, it stays at the stage it is at.       *)
LEMMA AskingSame ==
  ASSUME NEW c \in Clients, Asking(c), Untold(c) => Untold(c)',
         link'[c] = link[c], toServer'[c] = toServer[c], toPeer'[c] = toPeer[c],
         socketToSession'[c] = socketToSession[c]
  PROVE  Asking(c)'
  BY DEF Asking

(* A step that writes one frame f on p's socket, no response, is steady.   *)
LEMMA WritingIsSteady ==
  ASSUME Types, NEW c \in Clients, NEW p \in Peers, NEW f \in FramesToServer \ Responses,
         \A q \in Peers : toServer'[q] \in {toServer[q], toServer[q] \o <<f>>},
         \A q \in Peers : Less(toPeer'[q], toPeer[q]),
         UNCHANGED <<approvalQueue, hostPc, clientPc, verdicts>>
  PROVE  Steady(c)
<1>1. ASSUME NEW q \in Peers, NEW b \in BOOLEAN
      PROVE  Free(toServer[q], {ApprovalResponse(c, b)}) => Free(toServer'[q], {ApprovalResponse(c, b)})
  <2>1. <<f>> \in Seq(FramesToServer) /\ toServer[q] \in Seq(FramesToServer)
    BY DEF Types, ChannelTypeOK
  <2>2. Free(<<f>>, {ApprovalResponse(c, b)})
    BY FramesAre, SingleHolds
  <2> QED
    BY <2>1, <2>2, ConcatHolds
<1>2. ASSUME NEW q \in Peers, NEW g, NEW S
      PROVE  /\ Free(toPeer[q], S) => Free(toPeer'[q], S)
             /\ Orderly(toPeer[q], g, S) => Orderly(toPeer'[q], g, S)
  BY LessHolds DEF Types, ChannelTypeOK
<1> QED
  BY <1>1, <1>2, HostIsPeer DEF Steady

LEMMA ConnectSteady ==
  ASSUME Types, NEW p \in Peers, NEW f \in FramesToServer \ Responses, Connect(p, f),
         UNCHANGED <<serverVars, approvalQueue, hostPc, clientPc, verdicts>>
  PROVE  \A c \in Clients : Steady(c)
<1>1. \A q \in Peers : toServer'[q] \in {toServer[q], toServer[q] \o <<f>>}
  <2>1. \A q \in Peers : toServer'[q] \in {toServer[q], Append(toServer[q], f)}
    BY DEF Connect, Types, ChannelTypeOK
  <2>2. \A q \in Peers : Append(toServer[q], f) = toServer[q] \o <<f>>
    BY DEF Types, ChannelTypeOK
  <2> QED
    BY <2>1, <2>2
<1>2. \A q \in Peers : Less(toPeer'[q], toPeer[q])
  BY DEF Connect, Less
<1> QED
  BY <1>1, <1>2, WritingIsSteady

LEMMA HostStartKeeps ==
  ASSUME Types, Rooms, Token, NEW h \in Hosts, HostStart(h), UNCHANGED <<serverVars, clientVars>>
  PROVE  Rooms' /\ Token'
<1>1. /\ Connect(h, HostRegister) /\ h \in Peers /\ h \notin Clients
      /\ UNCHANGED <<approvalQueue, hostPc, clientPc, verdicts, toPeer>>
  BY HostIsPeer, PeersAssumption DEF HostStart, Connect, rtcVars
<1>2. HostRegister \in FramesToServer \ Responses
  BY FramesDiffer, FramesTyped DEF Forwarded
<1>3. Rooms' /\ \A q \in Peers : q # h => toServer'[q] = toServer[q] /\ link'[q] = link[q]
  BY <1>1, ConnectKeepsRooms
<1>4. \A c \in Clients : Steady(c)
  BY <1>1, <1>2, ConnectSteady
<1>5. \A c \in Clients : TokenOf(c)' /\ (Untold(c) => Untold(c)')
  BY <1>4, SteadyKeeps DEF Token, TokenOf
<1>6. \A c \in Clients : Asking(c)'
  BY <1>1, <1>3, <1>5, AskingSame, ClientIsPeer DEF Token, serverVars
<1> QED
  BY <1>3, <1>5, <1>6 DEF Token, TokenOf

LEMMA ClientStartKeeps ==
  ASSUME Types, Rooms, Token, NEW c \in Clients, ClientStart(c), UNCHANGED <<serverVars, hostVars>>
  PROVE  Rooms' /\ Token'
<1>1. PICK k \in Codes : Connect(c, ClientLookup(k))
  BY DEF ClientStart
<1>2. /\ c \in Peers /\ c \notin Hosts /\ ClientLookup(k) \in Lookups
      /\ UNCHANGED <<approvalQueue, hostPc, clientPc, verdicts, toPeer>>
  BY <1>1, ClientIsPeer, PeersAssumption, FramesAre DEF ClientStart, Connect, rtcVars, hostVars
<1>3. ClientLookup(k) \in FramesToServer \ Responses
  BY <1>2, FramesDiffer, FramesTyped DEF Forwarded
<1>4. /\ Rooms' /\ toServer[c] = <<>> /\ toServer'[c] = <<ClientLookup(k)>>
      /\ \A q \in Peers : q # c => toServer'[q] = toServer[q] /\ link'[q] = link[q]
  BY <1>1, <1>2, ConnectKeepsRooms
<1>5. \A d \in Clients : TokenOf(d)' /\ (Untold(d) => Untold(d)')
  BY <1>1, <1>2, <1>3, ConnectSteady, SteadyKeeps DEF Token, TokenOf
<1>6. \A d \in Clients \ {c} : Asking(d)'
  BY <1>2, <1>4, <1>5, AskingSame, ClientIsPeer DEF Token, serverVars
<1>7. Asking(c)'
  <2>1. link[c] = "new" /\ link'[c] = "open"
    BY <1>1, <1>2 DEF Connect, Types, ChannelTypeOK
  <2>2. toPeer[c] = <<>> /\ socketToSession[c] = None /\ Untold(c)
    BY <1>2, <2>1 DEF Rooms, Quiet, Token, Asking
  <2>3. Free(<<ClientLookup(k)>>, {ApprovalRequest(c)})
    BY <1>2, FramesAre, FramesDiffer, SingleHolds DEF Forwarded
  <2>4. ASSUME NEW l \in Codes, ~Free(<<ClientLookup(k)>>, {ClientLookup(l)})
        PROVE  l = k
    BY <2>4, SingleHolds, FramesDiffer
  <2>5. Free(<<>>, {MatchSuccess}) /\ Orderly(<<>>, MatchSuccess, {MatchSuccess})
    BY EmptyHolds
  <2>6. Untold(c)' /\ toPeer'[c] = <<>> /\ socketToSession'[c] = None
    BY <1>2, <1>5, <2>2 DEF serverVars
  <2> QED
    BY <1>4, <2>1, <2>3, <2>4, <2>5, <2>6 DEF Asking
<1> QED
  BY <1>4, <1>5, <1>6, <1>7 DEF Token, TokenOf

(* A frame read, and frames written by the one who read it.                *)
LEMMA ReadingUses ==
  ASSUME Types, NEW p \in Peers, NEW t, Reads(p, t), UNCHANGED <<link, serverVars>>,
         \/ UNCHANGED toServer
         \/ \E fs \in Seq(Says(p)) : toServer' = Written(p, fs)
  PROVE  PeersUse
<1>1. \A q \in Peers : Less(toPeer'[q], toPeer[q])
  BY DEF Reads, Less, Types, ChannelTypeOK
<1>2. \A q \in Peers : Less(toServer'[q], toServer[q]) \/ (\E fs : Adds(q, fs))
  BY DEF Written, Adds, Less, Types, ChannelTypeOK
<1> QED
  BY <1>1, <1>2 DEF PeersUse

LEMMA MatchSuccessKeeps ==
  ASSUME Types, Rooms, Token, NEW c \in Clients, ClientOnMatchSuccess(c),
         UNCHANGED <<serverVars, hostVars>>
  PROVE  Rooms' /\ Token'
<1>1. /\ Reads(c, "MATCH_SUCCESS") /\ toServer' = Written(c, <<ApprovalRequest(c)>>)
      /\ UNCHANGED <<link, serverVars, approvalQueue, hostPc, clientPc, verdicts>>
      /\ c \in Peers /\ c \notin Hosts
  BY ClientIsPeer, PeersAssumption DEF ClientOnMatchSuccess, rtcVars, hostVars
<1>2. /\ ApprovalRequest(c) \in FramesToServer \ Responses
      /\ ApprovalRequest(c) \notin Lookups /\ ApprovalRequest(c) # HostRegister
      /\ ApprovalRequest(c) \in Requests
  BY FramesAre, FramesDiffer, FramesTyped DEF Forwarded
<1>3. Rooms'
  <2>1. <<ApprovalRequest(c)>> \in Seq(Says(c))
    BY <1>1, <1>2 DEF Says, ClientFrames
  <2> QED
    BY <1>1, <2>1, ReadingUses, PeersKeepRooms
<1>4. \A d \in Clients : TokenOf(d)' /\ (Untold(d) => Untold(d)')
  <2>1. \A q \in Peers : toServer'[q] \in {toServer[q], toServer[q] \o <<ApprovalRequest(c)>>}
    BY <1>1 DEF Written, Types, ChannelTypeOK
  <2>2. \A q \in Peers : Less(toPeer'[q], toPeer[q])
    BY <1>1 DEF Reads, Less, Types, ChannelTypeOK
  <2> QED
    BY <1>1, <1>2, <2>1, <2>2, WritingIsSteady, SteadyKeeps DEF Token, TokenOf
<1>5. ASSUME NEW d \in Clients, d # c
      PROVE  Asking(d)'
  <2>1. d \in Peers /\ toServer'[d] = toServer[d] /\ toPeer'[d] = toPeer[d]
    BY <1>1, <1>5, ClientIsPeer DEF Written, Reads, Types, ChannelTypeOK
  <2> QED
    BY <1>1, <1>4, <2>1, AskingSame DEF Token, serverVars
<1>6. Asking(c)'
  <2>1. /\ toPeer[c] \in Seq(FramesToPeer) /\ toPeer[c] # <<>>
        /\ Head(toPeer[c]) \in FramesToPeer /\ Head(toPeer[c]).type = "MATCH_SUCCESS"
        /\ toPeer'[c] = Tail(toPeer[c])
    BY <1>1, ReadsTyped DEF Reads, Types, ChannelTypeOK
  <2>2. Head(toPeer[c]) = MatchSuccess
    BY <2>1 DEF FramesToPeer, Forwarded, Requests, Responses, Offers, Answers, HostRegistered,
         MatchSuccess, MatchFailed, ClientDisconnect, ApprovalRequest, ApprovalResponse,
         Offer, Answer
  <2>3. toServer[c] = <<>> /\ Untold(c)
    BY <2>1, <2>2, TailHolds DEF Token, Asking
  <2>4. Free(toPeer'[c], {MatchSuccess}) /\ Orderly(toPeer'[c], MatchSuccess, {MatchSuccess})
    <3>1. Orderly(toPeer[c], MatchSuccess, {MatchSuccess})
      BY DEF Token, Asking
    <3>2. /\ Free(Tail(toPeer[c]), {MatchSuccess})
          /\ Orderly(Tail(toPeer[c]), MatchSuccess, {MatchSuccess})
      BY <2>1, <2>2, <3>1, TailHolds
    <3> QED
      BY <2>1, <3>2
  <2>5. toServer'[c] \in {<<>>, <<ApprovalRequest(c)>>}
    BY <1>1, <2>3 DEF Written, Types, ChannelTypeOK
  <2>6. \A k \in Codes : Free(toServer'[c], {ClientLookup(k)})
    <3> SUFFICES ASSUME NEW k \in Codes PROVE Free(toServer'[c], {ClientLookup(k)})
      OBVIOUS
    <3>1. Free(<<>>, {ClientLookup(k)}) /\ Free(<<ApprovalRequest(c)>>, {ClientLookup(k)})
      BY <1>2, EmptyHolds, SingleHolds, FramesAre
    <3> QED
      BY <2>5, <3>1
  <2>7. Free(<<>>, {ApprovalRequest(c)})
    BY EmptyHolds
  <2>8. Untold(c)'
    BY <1>4, <2>3
  <2> QED
    BY <2>4, <2>5, <2>6, <2>7, <2>8 DEF Asking
<1> QED
  BY <1>3, <1>4, <1>5, <1>6 DEF Token, TokenOf

-----------------------------------------------------------------------------
(* A request's way into the queue of a host.                               *)

LEMMA ReadingHolds ==
  ASSUME Types, NEW p \in Peers, NEW t, Reads(p, t), NEW q \in Peers, NEW g, NEW S
  PROVE  /\ Free(toPeer[q], S) => Free(toPeer'[q], S)
         /\ Orderly(toPeer[q], g, S) => Orderly(toPeer'[q], g, S)
<1>1. Less(toPeer'[q], toPeer[q]) /\ toPeer[q] \in Seq(FramesToPeer)
  BY DEF Reads, Less, Types, ChannelTypeOK
<1> QED
  BY <1>1, LessHolds

LEMMA RequestRead ==
  ASSUME Types, NEW h \in Hosts, HostOnRequest(h)
  PROVE  \E c \in Clients :
           /\ Head(toPeer[h]) = ApprovalRequest(c)
           /\ Reads(h, "APPROVAL_REQUEST")
           /\ approvalQueue' = [approvalQueue EXCEPT ![h] = Append(approvalQueue[h], c)]
           /\ UNCHANGED <<hostUp, verdicts, link, toServer, rtcVars>>
<1>1. /\ Reads(h, "APPROVAL_REQUEST")
      /\ approvalQueue' =
           [approvalQueue EXCEPT ![h] = Append(approvalQueue[h], Head(toPeer[h]).clientId)]
      /\ UNCHANGED <<hostUp, verdicts, link, toServer, rtcVars>>
  BY DEF HostOnRequest, Enqueued
<1>2. Head(toPeer[h]) \in FramesToPeer /\ Head(toPeer[h]).type = "APPROVAL_REQUEST"
  BY <1>1, HostIsPeer, ReadsTyped DEF Types
<1>3. PICK c \in Clients : Head(toPeer[h]) = ApprovalRequest(c)
  BY <1>2 DEF FramesToPeer, Forwarded, Requests, Responses, Offers, Answers, HostRegistered,
     MatchSuccess, MatchFailed, ClientDisconnect, ApprovalRequest, ApprovalResponse, Offer, Answer
<1>4. ApprovalRequest(c).clientId = c
  BY DEF ApprovalRequest
<1> QED
  BY <1>1, <1>3, <1>4

LEMMA RequestKeeps ==
  ASSUME Types, Rooms, Token, NEW h \in Hosts, HostOnRequest(h), UNCHANGED <<serverVars, clientVars>>
  PROVE  Rooms' /\ Token'
<1>1. PICK c \in Clients :
        /\ Head(toPeer[h]) = ApprovalRequest(c)
        /\ Reads(h, "APPROVAL_REQUEST")
        /\ approvalQueue' = [approvalQueue EXCEPT ![h] = Append(approvalQueue[h], c)]
        /\ UNCHANGED <<verdicts, link, toServer, hostPc, clientPc>>
  BY RequestRead DEF rtcVars
<1>2. /\ h \in Peers /\ h \notin Clients
      /\ toPeer[h] \in Seq(FramesToPeer) /\ toPeer[h] # <<>> /\ toPeer'[h] = Tail(toPeer[h])
      /\ \A q \in Peers : q # h => toPeer'[q] = toPeer[q]
  BY <1>1, HostIsPeer, PeersAssumption DEF Reads, Types, ChannelTypeOK
<1>3. Rooms'
  BY <1>1, <1>2, ReadingUses, PeersKeepRooms
<1>4. \A g \in Hosts : /\ approvalQueue[g] \in Seq(Clients)
                       /\ approvalQueue'[g] = IF g = h THEN Append(approvalQueue[h], c)
                                              ELSE approvalQueue[g]
  BY <1>1 DEF Types, HostTypeOK
<1>5. ASSUME NEW d \in Clients, d # c
      PROVE  Steady(d)
  <2>1. ASSUME NEW g \in Hosts
        PROVE  /\ Free(approvalQueue[g], {d}) => Free(approvalQueue'[g], {d})
               /\ Orderly(approvalQueue[g], d, {d}) => Orderly(approvalQueue'[g], d, {d})
    <3>1. /\ Free(approvalQueue[h], {d}) => Free(Append(approvalQueue[h], c), {d})
          /\ Orderly(approvalQueue[h], d, {d}) => Orderly(Append(approvalQueue[h], c), d, {d})
      BY <1>4, <1>5, AppendHolds
    <3> QED
      BY <1>4, <3>1
  <2> QED
    BY <1>1, <1>2, <2>1, ReadingHolds, HostIsPeer DEF Steady
<1>6. ~Free(toPeer[h], {ApprovalRequest(c)})
  BY <1>1, <1>2, TailHolds
<1>7. /\ verdicts[c] = <<>>
      /\ \A g \in Hosts : /\ hostPc[g][c] = "none"
                          /\ Free(approvalQueue[g], {c})
                          /\ g # h => Free(toPeer[g], {ApprovalRequest(c)})
      /\ Orderly(toPeer[h], ApprovalRequest(c), {ApprovalRequest(c)})
  BY <1>6 DEF Token, Knocking
<1>8. TokenOf(c)'
  <2>1. Judged(c)'
    BY <1>1, <1>2, ReadingHolds DEF Token, Judged
  <2>2. \A g \in Hosts : Free(toPeer'[g], {ApprovalRequest(c)})
    <3>1. Free(Tail(toPeer[h]), {ApprovalRequest(c)})
      BY <1>1, <1>2, <1>7, TailHolds
    <3> QED
      BY <1>2, <1>7, <3>1, HostIsPeer
  <2>3. Orderly(Append(approvalQueue[h], c), c, {c})
    <3>1. Orderly(approvalQueue[h], c, {c})
      BY <1>7, FreeIsOrderly
    <3> QED
      BY <1>4, <1>7, <3>1, AppendHolds
  <2>4. \A g \in Hosts : Knocking(g, c)'
    BY <2>2, FreeIsOrderly DEF Knocking
  <2>5. \A g \in Hosts : Waiting(g, c)'
    BY <1>1, <1>4, <1>7, <2>3, FreeIsOrderly DEF Waiting
  <2> QED
    BY <2>1, <2>4, <2>5 DEF TokenOf
<1>9. ~Untold(c)
  BY <1>6 DEF Untold
<1>10. \A d \in Clients : TokenOf(d)' /\ (Untold(d) => Untold(d)')
  BY <1>5, <1>8, <1>9, SteadyKeeps DEF Token, TokenOf
<1>11. \A d \in Clients : Asking(d)'
  BY <1>1, <1>2, <1>10, AskingSame, ClientIsPeer DEF Token, serverVars
<1> QED
  BY <1>3, <1>10, <1>11 DEF Token, TokenOf

(* The approval was written with the verdict that let the client in.       *)
LEMMA ApprovalRead ==
  ASSUME Types, NEW c \in Clients, ClientOnApproved(c)
  PROVE  /\ Head(toPeer[c]) = Approval(c) /\ toPeer[c] # <<>>
         /\ toPeer[c] \in Seq(FramesToPeer)
<1>1. /\ Head(toPeer[c]) \in FramesToPeer /\ Head(toPeer[c]).type = "APPROVAL_RESPONSE"
      /\ Head(toPeer[c]).clientId = c /\ Head(toPeer[c]).approved
      /\ toPeer[c] # <<>> /\ toPeer[c] \in Seq(FramesToPeer)
  BY ClientIsPeer, ReadsTyped DEF ClientOnApproved, Addressed, Reads, Types, ChannelTypeOK
<1>2. PICK d \in Clients, b \in BOOLEAN : Head(toPeer[c]) = ApprovalResponse(d, b)
  BY <1>1 DEF FramesToPeer, Forwarded, Requests, Responses, Offers, Answers, HostRegistered,
     MatchSuccess, MatchFailed, ClientDisconnect, ApprovalRequest, ApprovalResponse, Offer, Answer
<1>3. ApprovalResponse(d, b).clientId = d /\ ApprovalResponse(d, b).approved = b
  BY DEF ApprovalResponse
<1> QED
  BY <1>1, <1>2, <1>3 DEF Approval

LEMMA ApprovedKeeps ==
  ASSUME Types, Rooms, Token, NEW c \in Clients, ClientOnApproved(c),
         UNCHANGED <<serverVars, hostVars>>
  PROVE  Rooms' /\ Token' /\ verdicts[c] = <<TRUE>>
<1>1. /\ Reads(c, "APPROVAL_RESPONSE")
      /\ clientPc' = [clientPc EXCEPT ![c] = "new"]
      /\ UNCHANGED <<link, toServer, hostPc, approvalQueue, verdicts>>
      /\ c \in Peers /\ c \notin Hosts
  BY ClientIsPeer, PeersAssumption DEF ClientOnApproved, hostVars
<1>2. ~Free(toPeer[c], {Approval(c)})
  BY ApprovalRead, TailHolds
<1>3. verdicts[c] = <<TRUE>> /\ ~Untold(c)
  <2>1. \A b \in BOOLEAN : ~Free(toPeer[c], {ApprovalResponse(c, b)}) => verdicts[c] = <<b>>
    BY <1>1 DEF Token, Judged
  <2>2. verdicts[c] = <<TRUE>>
    BY <1>2, <2>1 DEF Approval
  <2> QED
    BY <2>2 DEF Untold
<1>4. Rooms'
  BY <1>1, ReadingUses, PeersKeepRooms
<1>5. ASSUME NEW d \in Clients, d # c
      PROVE  Steady(d)
  BY <1>1, <1>5, ReadingHolds, HostIsPeer DEF Steady, Types, RtcTypeOK
<1>6. TokenOf(c)'
  <2>1. Judged(c)'
    BY <1>1, <1>3, ReadingHolds DEF Token, Judged
  <2>2. \A h \in Hosts : Knocking(h, c)' /\ Waiting(h, c)'
    BY <1>1, ReadingHolds, HostIsPeer DEF Token, Knocking, Waiting
  <2> QED
    BY <2>1, <2>2 DEF TokenOf
<1>7. \A d \in Clients : TokenOf(d)' /\ (Untold(d) => Untold(d)')
  BY <1>3, <1>5, <1>6, SteadyKeeps DEF Token, TokenOf
<1>8. ASSUME NEW d \in Clients, d # c
      PROVE  Asking(d)'
  <2>1. d \in Peers /\ toPeer'[d] = toPeer[d]
    BY <1>1, <1>8, ClientIsPeer DEF Reads, Types, ChannelTypeOK
  <2> QED
    BY <1>1, <1>7, <2>1, AskingSame DEF Token, serverVars
<1>9. Asking(c)'
  BY <1>1, <1>3, ReadingHolds DEF Token, Asking
<1> QED
  BY <1>3, <1>4, <1>7, <1>8, <1>9 DEF Token, TokenOf

-----------------------------------------------------------------------------
(* The responses to a queue q of which S is admitted.                      *)
Replies(fs, q, S) ==
  /\ fs \in Seq(Responses)
  /\ \A d \in Clients :
       /\ Free(fs, {Denial(d)}) <=> (Free(q, {d}) \/ d \in S)
       /\ Free(fs, {Approval(d)}) <=> d \notin S
       /\ Orderly(fs, Approval(d), {Approval(d)})

(* The verdicts.  However the lobby ends, the host rules on everyone in    *)
(* its queue: it admits the clients of S, one at most, and no one else.    *)
Ruling(h, S) ==
  /\ \E fs : toServer' = Written(h, fs) /\ Replies(fs, approvalQueue[h], S)
  /\ verdicts' = [d \in Clients |-> IF Free(approvalQueue[h], {d}) THEN verdicts[d]
                                    ELSE Append(verdicts[d], d \in S)]
  /\ approvalQueue' = [approvalQueue EXCEPT ![h] = <<>>]
  /\ \A d \in S : ~Free(approvalQueue[h], {d})
  /\ hostPc' = [hostPc EXCEPT ![h] = [d \in Clients |-> IF d \in S THEN "new" ELSE hostPc[h][d]]]
  /\ settled[h] # None
  /\ UNCHANGED <<hostUp, link, toPeer, hostAnswer, clientPc, clientOffer>>

LEMMA ReplyRules ==
  ASSUME NEW fs, NEW d, NEW s \in Seq(BOOLEAN)
  PROVE  s \o Told(fs, d, FALSE) \o Told(fs, d, TRUE) =
           IF Free(fs, {Denial(d)})
           THEN IF Free(fs, {Approval(d)}) THEN s ELSE Append(s, TRUE)
           ELSE IF Free(fs, {Approval(d)}) THEN Append(s, FALSE)
                ELSE Append(Append(s, FALSE), TRUE)
<1>1. /\ Told(fs, d, FALSE) = IF Free(fs, {Denial(d)}) THEN <<>> ELSE <<FALSE>>
      /\ Told(fs, d, TRUE) = IF Free(fs, {Approval(d)}) THEN <<>> ELSE <<TRUE>>
  BY DEF Told, Free, Denial, Approval
<1>2. \A t \in Seq(BOOLEAN) : /\ t \o <<>> = t
                              /\ \A b \in BOOLEAN : t \o <<b>> = Append(t, b)
                              /\ \A b \in BOOLEAN : Append(t, b) \in Seq(BOOLEAN)
  OBVIOUS
<1>3. CASE Free(fs, {Denial(d)})
  BY <1>1, <1>2, <1>3
<1>4. CASE ~Free(fs, {Denial(d)})
  BY <1>1, <1>2, <1>4
<1> QED
  BY <1>3, <1>4

LEMMA DenyingReplies ==
  ASSUME NEW q \in Seq(Clients)
  PROVE  Replies(Denials(q), q, {})
<1>1. ASSUME NEW d \in Clients
      PROVE  /\ Denials(q) \in Seq(Responses)
             /\ Free(Denials(q), {Denial(d)}) <=> Free(q, {d})
             /\ Free(Denials(q), {Approval(d)})
             /\ Orderly(Denials(q), Approval(d), {Approval(d)})
  BY DenialsHold, FreeIsOrderly
<1>2. Denials(q) \in Seq(Responses)
  <2>1. \A i \in 1..Len(q) : Denial(q[i]) \in Responses
    <3>1. \A i \in 1..Len(q) : q[i] \in Clients
      OBVIOUS
    <3> QED
      BY <3>1, FramesAre DEF Denial
  <2>2. [i \in 1..Len(q) |-> Denial(q[i])] \in Seq(Responses)
    BY <2>1, IsASeq
  <2> QED
    BY <2>2 DEF Denials
<1> QED
  BY <1>1, <1>2 DEF Replies

LEMMA AdmittingReplies ==
  ASSUME NEW q \in Seq(Clients), NEW c \in Clients, Orderly(q, c, {c}), ~Free(q, {c})
  PROVE  Replies(Denials(Without(q, c)) \o <<Approval(c)>>, q, {c})
<1> DEFINE w == Without(q, c)
           s == Denials(w)
           t == <<Approval(c)>>
<1>1. w \in Seq(Clients)
  BY WithoutTyped
<1>2. \A d \in Clients : Free(w, {d}) <=> (Free(q, {d}) \/ d = c)
  BY WithoutHolds
<1> HIDE DEF w
<1>3. Replies(s, w, {})
  BY <1>1, DenyingReplies
<1>4. Approval(c) \in Responses
  BY FramesAre DEF Approval
<1>5. ASSUME NEW d \in Clients
      PROVE  /\ Free(t, {Denial(d)})
             /\ Free(t, {Approval(d)}) <=> d # c
             /\ Orderly(t, Approval(d), {Approval(d)})
  <2>1. Approval(c) # Denial(d) /\ (Approval(c) = Approval(d) <=> d = c)
    BY FramesDiffer DEF Approval, Denial
  <2> QED
    BY <2>1, SingleHolds
<1>6. s \in Seq(Responses) /\ t \in Seq(Responses)
  BY <1>3, <1>4 DEF Replies
<1> HIDE DEF s, t
<1>7. ASSUME NEW d \in Clients
      PROVE  /\ Free(s \o t, {Denial(d)}) <=> (Free(q, {d}) \/ d = c)
             /\ Free(s \o t, {Approval(d)}) <=> d # c
             /\ Orderly(s \o t, Approval(d), {Approval(d)})
  <2>1. /\ Free(s, {Denial(d)}) <=> Free(w, {d})
        /\ Free(s, {Approval(d)})
        /\ Orderly(s, Approval(d), {Approval(d)})
    BY <1>3 DEF Replies
  <2>2. Free(s \o t, {Denial(d)}) <=> Free(s, {Denial(d)}) /\ Free(t, {Denial(d)})
    BY <1>6, ConcatHolds
  <2>3. Free(s \o t, {Approval(d)}) <=> Free(s, {Approval(d)}) /\ Free(t, {Approval(d)})
    BY <1>6, ConcatHolds
  <2>4. Orderly(s \o t, Approval(d), {Approval(d)})
    BY <1>5, <1>6, <2>1, ConcatHolds
  <2> QED
    BY <1>2, <1>5, <2>1, <2>2, <2>3, <2>4
<1>8. s \o t \in Seq(Responses)
  BY <1>6
<1> QED
  BY <1>7, <1>8 DEF Replies, s, t, w

LEMMA RepliesRule ==
  ASSUME Types, NEW h \in Hosts, NEW S \in SUBSET Clients, NEW fs,
         Replies(fs, approvalQueue[h], S),
         \A d \in S : ~Free(approvalQueue[h], {d}),
         toServer' = Written(h, fs),
         verdicts' = [d \in Clients |-> verdicts[d] \o Told(fs, d, FALSE) \o Told(fs, d, TRUE)],
         approvalQueue' = [approvalQueue EXCEPT ![h] = <<>>],
         settled[h] # None,
         hostPc' = [hostPc EXCEPT ![h] = [d \in Clients |-> IF d \in S THEN "new" ELSE hostPc[h][d]]],
         UNCHANGED <<hostUp, link, toPeer, hostAnswer, clientPc, clientOffer>>
  PROVE  Ruling(h, S)
<1> DEFINE q == approvalQueue[h]
<1>1. verdicts' = [d \in Clients |-> IF Free(q, {d}) THEN verdicts[d]
                                     ELSE Append(verdicts[d], d \in S)]
  <2>1. ASSUME NEW d \in Clients
        PROVE  verdicts[d] \o Told(fs, d, FALSE) \o Told(fs, d, TRUE)
                 = IF Free(q, {d}) THEN verdicts[d] ELSE Append(verdicts[d], d \in S)
    <3>1. verdicts[d] \in Seq(BOOLEAN)
      BY DEF Types, HostTypeOK
    <3>2. /\ Free(fs, {Denial(d)}) <=> (Free(q, {d}) \/ d \in S)
          /\ Free(fs, {Approval(d)}) <=> d \notin S
      BY DEF Replies
    <3>3. verdicts[d] \o Told(fs, d, FALSE) \o Told(fs, d, TRUE) =
            IF Free(fs, {Denial(d)})
            THEN IF Free(fs, {Approval(d)}) THEN verdicts[d] ELSE Append(verdicts[d], TRUE)
            ELSE IF Free(fs, {Approval(d)}) THEN Append(verdicts[d], FALSE)
                 ELSE Append(Append(verdicts[d], FALSE), TRUE)
      BY <3>1, ReplyRules
    <3>4. CASE d \in S
      <4>1. (d \in S) = TRUE /\ ~Free(q, {d})
        BY <3>4
      <4> QED
        BY <3>2, <3>3, <4>1
    <3>5. CASE d \notin S
      <4>1. (d \in S) = FALSE
        BY <3>5
      <4>2. CASE Free(q, {d})
        BY <3>2, <3>3, <3>5, <4>2
      <4>3. CASE ~Free(q, {d})
        <5>1. verdicts[d] \o Told(fs, d, FALSE) \o Told(fs, d, TRUE) = Append(verdicts[d], FALSE)
          BY <3>2, <3>3, <3>5, <4>3
        <5> QED
          BY <4>1, <4>3, <5>1
      <4> QED
        BY <4>2, <4>3
    <3> QED
      BY <3>4, <3>5
  <2> QED
    BY <2>1
<1> QED
  BY <1>1 DEF Ruling

LEMMA RejectAllRules ==
  ASSUME Types, NEW h \in Hosts, HostResumesRejectAll(h), UNCHANGED clientVars
  PROVE  Ruling(h, {})
<1>1. approvalQueue[h] \in Seq(Clients)
  BY DEF Types, HostTypeOK
<1>2. /\ toServer' = Written(h, Denials(approvalQueue[h]))
      /\ verdicts' = [d \in Clients |-> verdicts[d] \o Told(Denials(approvalQueue[h]), d, FALSE)
                                                    \o Told(Denials(approvalQueue[h]), d, TRUE)]
      /\ approvalQueue' = [approvalQueue EXCEPT ![h] = <<>>]
      /\ settled[h] # None
      /\ UNCHANGED <<hostUp, link, toPeer, hostPc, hostAnswer, clientPc, clientOffer>>
  BY DEF HostResumesRejectAll, Reply, LobbyDone, EmptyQueue, rtcVars
<1>3. hostPc' = [hostPc EXCEPT ![h] = [d \in Clients |-> IF d \in {} THEN "new" ELSE hostPc[h][d]]]
  BY <1>2 DEF Types, RtcTypeOK
<1>4. Replies(Denials(approvalQueue[h]), approvalQueue[h], {})
  BY <1>1, DenyingReplies
<1>5. {} \in SUBSET Clients /\ \A d \in {} : ~Free(approvalQueue[h], {d})
  OBVIOUS
<1> QED
  BY <1>2, <1>3, <1>4, <1>5, RepliesRule

LEMMA SelectedRules ==
  ASSUME Types, Token, NEW h \in Hosts, HostResumesSelected(h), UNCHANGED clientVars
  PROVE  /\ settled[h].result \in Clients
         /\ Ruling(h, IF settled[h].result \in Queued(h) THEN {settled[h].result} ELSE {})
<1> DEFINE q == approvalQueue[h]
           c == settled[h].result
<1>1. q \in Seq(Clients) /\ c \in Clients /\ Orderly(q, c, {c})
  BY DEF Types, HostTypeOK, HostResumesSelected, Token, Waiting
<1>2. c \in Queued(h) <=> ~Free(q, {c})
  BY DEF Queued, Free
<1>3. /\ approvalQueue' = [approvalQueue EXCEPT ![h] = <<>>]
      /\ settled[h] # None
      /\ UNCHANGED <<hostUp, link, toPeer, hostAnswer, clientPc, clientOffer>>
  BY DEF HostResumesSelected, Reply, LobbyDone, EmptyQueue
<1>4. CASE c \in Queued(h)
  <2> DEFINE fs == Denials(Without(q, c)) \o <<Approval(c)>>
  <2>1. /\ toServer' = Written(h, fs)
        /\ verdicts' = [d \in Clients |-> verdicts[d] \o Told(fs, d, FALSE) \o Told(fs, d, TRUE)]
        /\ hostPc' = [hostPc EXCEPT ![h][c] = "new"]
    BY <1>4 DEF HostResumesSelected, Reply
  <2>2. hostPc' = [hostPc EXCEPT ![h] = [d \in Clients |-> IF d \in {c} THEN "new" ELSE hostPc[h][d]]]
    BY <2>1 DEF Types, RtcTypeOK
  <2>3. Replies(fs, q, {c})
    BY <1>1, <1>2, <1>4, AdmittingReplies
  <2>4. {c} \in SUBSET Clients /\ \A d \in {c} : ~Free(q, {d})
    BY <1>1, <1>2, <1>4
  <2> HIDE DEF fs
  <2>5. Ruling(h, {c})
    BY <1>3, <2>1, <2>2, <2>3, <2>4, RepliesRule
  <2> QED
    BY <1>1, <1>4, <2>5
<1>5. CASE c \notin Queued(h)
  <2> DEFINE fs == Denials(q)
  <2>1. /\ toServer' = Written(h, fs)
        /\ verdicts' = [d \in Clients |-> verdicts[d] \o Told(fs, d, FALSE) \o Told(fs, d, TRUE)]
        /\ UNCHANGED hostPc
    BY <1>5 DEF HostResumesSelected, Reply
  <2>2. hostPc' = [hostPc EXCEPT ![h] = [d \in Clients |-> IF d \in {} THEN "new" ELSE hostPc[h][d]]]
    BY <2>1 DEF Types, RtcTypeOK
  <2>3. Replies(fs, q, {})
    BY <1>1, DenyingReplies
  <2>4. {} \in SUBSET Clients /\ \A d \in {} : ~Free(q, {d})
    OBVIOUS
  <2> HIDE DEF fs
  <2>5. Ruling(h, {})
    BY <1>3, <2>1, <2>2, <2>3, <2>4, RepliesRule
  <2> QED
    BY <1>1, <1>5, <2>5
<1> QED
  BY <1>4, <1>5

LEMMA RulingKeeps ==
  ASSUME Types, Rooms, Token, NEW h \in Hosts, NEW S \in SUBSET Clients, Ruling(h, S),
         UNCHANGED serverVars
  PROVE  Rooms' /\ Token'
<1>1. PICK fs : toServer' = Written(h, fs) /\ Replies(fs, approvalQueue[h], S)
  BY DEF Ruling
<1>2. /\ h \in Peers /\ h \notin Clients
      /\ UNCHANGED <<link, toPeer, clientPc>>
      /\ toServer \in [Peers -> Seq(FramesToServer)]
      /\ fs \in Seq(FramesToServer)
  <2>1. fs \in Seq(Responses) /\ Responses \subseteq FramesToServer
    BY <1>1 DEF Replies, FramesToServer, Forwarded
  <2>2. fs \in Seq(FramesToServer)
    BY <2>1
  <2> QED
    BY <2>2, HostIsPeer, PeersAssumption DEF Ruling, Types, ChannelTypeOK
<1>3. \A q \in Peers : toServer'[q] = toServer[q] \/ (q = h /\ toServer'[q] = toServer[q] \o fs)
  BY <1>1, <1>2 DEF Written
<1>4. Rooms'
  <2>1. Responses \subseteq Says(h)
    BY <1>2, FramesDiffer DEF Says, HostFrames, Forwarded
  <2>2. link[h] = "open" => Adds(h, fs)
    BY <1>1, <1>2, <2>1 DEF Adds, Written, Replies
  <2>3. \A q \in Peers : toServer'[q] = toServer[q] \/ (\E gs : Adds(q, gs))
    BY <1>1, <1>2, <1>3, <2>2 DEF Written
  <2>4. PeersUse
    BY <1>2, <2>3 DEF PeersUse, Less
  <2> QED
    BY <2>4, PeersKeepRooms
<1>5. ASSUME NEW d \in Clients, Free(approvalQueue[h], {d})
      PROVE  Steady(d)
  <2>1. d \notin S
    BY <1>5 DEF Ruling
  <2>2. Free(fs, {Denial(d)}) /\ Free(fs, {Approval(d)})
    BY <1>1, <1>5, <2>1 DEF Replies
  <2>3. \A b \in BOOLEAN : Free(fs, {ApprovalResponse(d, b)})
    BY <2>2 DEF Denial, Approval
  <2>4. ASSUME NEW q \in Peers, NEW b \in BOOLEAN
        PROVE  Free(toServer[q], {ApprovalResponse(d, b)}) => Free(toServer'[q], {ApprovalResponse(d, b)})
    <3>1. /\ toServer[q] \in Seq(FramesToServer)
          /\ Free(toServer[q] \o fs, {ApprovalResponse(d, b)})
               <=> Free(toServer[q], {ApprovalResponse(d, b)}) /\ Free(fs, {ApprovalResponse(d, b)})
      BY <1>2, ConcatHolds
    <3> QED
      BY <1>3, <2>3, <3>1
  <2>5. verdicts'[d] = verdicts[d] /\ \A g \in Hosts : hostPc'[g][d] = hostPc[g][d]
    BY <1>5, <2>1 DEF Ruling, Types, HostTypeOK, RtcTypeOK
  <2>6. \A g \in Hosts : approvalQueue'[g] \in {approvalQueue[g], <<>>}
    BY DEF Ruling, Types, HostTypeOK
  <2>7. /\ Free(<<>>, {d}) /\ Orderly(<<>>, d, {d})
    BY EmptyHolds
  <2> QED
    BY <1>2, <2>4, <2>5, <2>6, <2>7 DEF Steady
<1>6. ASSUME NEW d \in Clients, ~Free(approvalQueue[h], {d})
      PROVE  TokenOf(d)' /\ ~Untold(d)
  <2>1. verdicts[d] = <<>> /\ \A g \in Hosts : g # h => Free(approvalQueue[g], {d})
    BY <1>6 DEF Token, Waiting
  <2>2. \A g \in Hosts : Free(toPeer[g], {ApprovalRequest(d)})
    BY <1>6 DEF Token, Knocking
  <2>3. /\ clientPc[d] = "none"
        /\ \A g \in Hosts : hostPc[g][d] = "none"
        /\ \A p \in Peers, b \in BOOLEAN : /\ Free(toServer[p], {ApprovalResponse(d, b)})
                                           /\ Free(toPeer[p], {ApprovalResponse(d, b)})
    <3>1. Judged(d) /\ \A b \in BOOLEAN : verdicts[d] # <<b>>
      BY <2>1 DEF Token
    <3> QED
      BY <3>1 DEF Judged
  <2>4. \E b \in BOOLEAN : (b <=> d \in S) /\ verdicts'[d] = <<b>>
    <3>1. verdicts'[d] = Append(verdicts[d], d \in S)
      BY <1>6 DEF Ruling
    <3>2. CASE d \in S
      <4>1. (d \in S) = TRUE
        BY <3>2
      <4>2. verdicts'[d] = Append(<<>>, TRUE)
        BY <2>1, <3>1, <4>1
      <4>3. Append(<<>>, TRUE) = <<TRUE>>
        OBVIOUS
      <4> QED
        BY <3>2, <4>2, <4>3
    <3>3. CASE d \notin S
      <4>1. (d \in S) = FALSE
        BY <3>3
      <4>2. verdicts'[d] = Append(<<>>, FALSE)
        BY <2>1, <3>1, <4>1
      <4>3. Append(<<>>, FALSE) = <<FALSE>>
        OBVIOUS
      <4> QED
        BY <3>3, <4>2, <4>3
    <3> QED
      BY <3>2, <3>3
  <2>5. PICK b \in BOOLEAN : (b <=> d \in S) /\ verdicts'[d] = <<b>>
    BY <2>4
  <2>6. ASSUME NEW p \in Peers, NEW a \in BOOLEAN, a # b
        PROVE  Free(toServer'[p], {ApprovalResponse(d, a)})
    <3>1. Free(fs, {ApprovalResponse(d, a)})
      BY <1>1, <1>6, <2>5, <2>6 DEF Replies, Denial, Approval
    <3>2. /\ toServer[p] \in Seq(FramesToServer)
          /\ Free(toServer[p] \o fs, {ApprovalResponse(d, a)})
               <=> Free(toServer[p], {ApprovalResponse(d, a)}) /\ Free(fs, {ApprovalResponse(d, a)})
      BY <1>2, ConcatHolds
    <3> QED
      BY <1>3, <2>3, <3>1, <3>2
  <2>7. \A g \in Hosts : hostPc'[g][d] # "none" => g = h /\ d \in S
    BY <2>3 DEF Ruling, Types, RtcTypeOK
  <2>8. Judged(d)'
    <3>1. verdicts'[d] \in {<<TRUE>>, <<FALSE>>} /\ (d \in S => verdicts'[d] = <<TRUE>>)
      BY <2>5
    <3>2. \A p \in Peers, a \in BOOLEAN :
            /\ ~Free(toServer'[p], {ApprovalResponse(d, a)}) => verdicts'[d] = <<a>>
            /\ ~Free(toPeer'[p], {ApprovalResponse(d, a)}) => verdicts'[d] = <<a>>
      BY <1>2, <2>3, <2>5, <2>6
    <3> QED
      BY <1>2, <2>3, <2>7, <3>1, <3>2 DEF Judged
  <2>9. \A g \in Hosts : Free(approvalQueue'[g], {d})
    BY <2>1, EmptyHolds DEF Ruling, Types, HostTypeOK
  <2>10. \A g \in Hosts : Knocking(g, d)' /\ Waiting(g, d)'
    BY <1>2, <2>2, <2>9, FreeIsOrderly DEF Knocking, Waiting
  <2> QED
    BY <1>6, <2>8, <2>10 DEF TokenOf, Untold
<1>7. \A d \in Clients : TokenOf(d)' /\ (Untold(d) => Untold(d)')
  BY <1>5, <1>6, SteadyKeeps DEF Token, TokenOf
<1>8. \A d \in Clients : Asking(d)'
  BY <1>2, <1>3, <1>7, AskingSame, ClientIsPeer DEF Token, serverVars
<1> QED
  BY <1>4, <1>7, <1>8 DEF Token, TokenOf

-----------------------------------------------------------------------------
(* The matchmaker.  What it reads is lost to it, and what it writes is one *)
(* frame, to some of the peers that are connected.                         *)
Serves(s, m, n) ==
  /\ Receives(s, m)
  /\ \A q \in Peers :
       toPeer'[q] = toPeer[q] \/ (link[q] = "open" /\ toPeer'[q] = Append(toPeer[q], n))

LEMMA ReceivingHolds ==
  ASSUME Types, NEW s \in Peers, NEW m, Receives(s, m)
  PROVE  /\ toServer[s] \in Seq(FramesToServer) /\ toServer[s] # <<>>
         /\ Head(toServer[s]) = m /\ m \in FramesToServer
         /\ toServer'[s] = Tail(toServer[s])
         /\ \A q \in Peers : q # s => toServer'[q] = toServer[q]
         /\ \A q \in Peers : Less(toServer'[q], toServer[q])
         /\ link[s] \in {"open", "closing"} /\ link' = link
         /\ ~Free(toServer[s], {m})
<1>1. /\ toServer[s] \in Seq(FramesToServer) /\ toServer[s] # <<>>
      /\ Head(toServer[s]) = m
      /\ toServer'[s] = Tail(toServer[s])
      /\ \A q \in Peers : q # s => toServer'[q] = toServer[q]
      /\ link[s] \in {"open", "closing"} /\ link' = link
  BY DEF Types, ChannelTypeOK, Receives
<1>2. \A q \in Peers : Less(toServer'[q], toServer[q])
  BY <1>1 DEF Less
<1>3. m \in FramesToServer
  BY <1>1
<1>4. ~Free(toServer[s], {m})
  BY <1>1, TailHolds
<1> QED
  BY <1>1, <1>2, <1>3, <1>4

LEMMA ServingIsSteady ==
  ASSUME Types, NEW s \in Peers, NEW m, NEW n \in FramesToPeer, Serves(s, m, n),
         UNCHANGED <<rtcVars, hostVars>>,
         NEW c \in Clients, n # ApprovalRequest(c), n \notin {ApprovalResponse(c, b) : b \in BOOLEAN}
  PROVE  Steady(c)
<1>1. ASSUME NEW q \in Peers, NEW b \in BOOLEAN
      PROVE  /\ Free(toServer[q], {ApprovalResponse(c, b)}) => Free(toServer'[q], {ApprovalResponse(c, b)})
             /\ Free(toPeer[q], {ApprovalResponse(c, b)}) => Free(toPeer'[q], {ApprovalResponse(c, b)})
  <2>1. /\ toServer[q] \in Seq(FramesToServer) /\ Less(toServer'[q], toServer[q])
        /\ toPeer[q] \in Seq(FramesToPeer)
    BY ReceivingHolds DEF Serves, Types, ChannelTypeOK
  <2>2. n \notin {ApprovalResponse(c, b)}
    OBVIOUS
  <2>3. Free(toPeer[q], {ApprovalResponse(c, b)}) => Free(Append(toPeer[q], n), {ApprovalResponse(c, b)})
    BY <2>1, <2>2, AppendHolds
  <2>4. Free(toServer[q], {ApprovalResponse(c, b)}) => Free(toServer'[q], {ApprovalResponse(c, b)})
    BY <2>1, LessHolds
  <2> QED
    BY <2>3, <2>4 DEF Serves
<1>2. ASSUME NEW h \in Hosts
      PROVE  /\ Free(toPeer[h], {ApprovalRequest(c)}) => Free(toPeer'[h], {ApprovalRequest(c)})
             /\ Orderly(toPeer[h], ApprovalRequest(c), {ApprovalRequest(c)})
                  => Orderly(toPeer'[h], ApprovalRequest(c), {ApprovalRequest(c)})
  <2>1. h \in Peers /\ toPeer[h] \in Seq(FramesToPeer) /\ n \notin {ApprovalRequest(c)}
    BY HostIsPeer DEF Types, ChannelTypeOK
  <2>2. /\ Free(toPeer[h], {ApprovalRequest(c)}) => Free(Append(toPeer[h], n), {ApprovalRequest(c)})
        /\ Orderly(toPeer[h], ApprovalRequest(c), {ApprovalRequest(c)})
             => Orderly(Append(toPeer[h], n), ApprovalRequest(c), {ApprovalRequest(c)})
    BY <2>1, AppendHolds
  <2> QED
    BY <2>1, <2>2 DEF Serves
<1> QED
  BY <1>1, <1>2 DEF Steady, rtcVars, hostVars

(* Rooms, but for RoomsDistinct, need only that peers which have not yet   *)
(* connected are left alone.                                               *)
LEMMA ServingKeepsRooms ==
  ASSUME Types, Rooms, NEW s \in Peers, NEW m, NEW n, Serves(s, m, n),
         \A p \in Peers : p # s => socketToSession'[p] = socketToSession[p],
         s \in Hosts => Free(Tail(toServer[s]), {HostRegister}) \/ UNCHANGED socketToSession,
         RoomsDistinct'
  PROVE  Rooms'
<1>1. Senders'
  <2>1. ASSUME NEW p \in Peers
        PROVE  /\ p \in Hosts => toServer'[p] \in Seq(HostFrames(p))
               /\ p \in Clients => toServer'[p] \in Seq(ClientFrames(p))
    <3>1. Less(toServer'[p], toServer[p])
      BY ReceivingHolds DEF Serves
    <3> QED
      BY <3>1, LessHolds DEF Rooms, Senders
  <2> QED
    BY <2>1 DEF Senders, Peers
<1>2. Quiet'
  <2> SUFFICES ASSUME NEW p \in Peers, link'[p] = "new"
               PROVE  (toServer[p] = <<>> /\ toPeer[p] = <<>> /\ socketToSession[p] = None)'
    BY DEF Quiet
  <2>1. link[p] = "new" /\ p # s /\ toServer'[p] = toServer[p]
    BY ReceivingHolds DEF Serves
  <2> QED
    BY <2>1 DEF Serves, Rooms, Quiet
<1>3. Registers'
  <2> SUFFICES ASSUME NEW h \in Hosts
               PROVE  /\ Orderly(toServer'[h], HostRegister, {HostRegister})
                      /\ ~Free(toServer'[h], {HostRegister}) => socketToSession'[h] = None
    BY DEF Registers
  <2>1. /\ h \in Peers /\ toServer[h] \in Seq(FramesToServer) /\ Less(toServer'[h], toServer[h])
        /\ toServer'[s] = Tail(toServer[s])
    BY HostIsPeer, ReceivingHolds DEF Serves, Types, ChannelTypeOK
  <2>2. /\ Orderly(toServer[h], HostRegister, {HostRegister})
        /\ ~Free(toServer[h], {HostRegister}) => socketToSession[h] = None
    BY DEF Rooms, Registers
  <2>3. /\ Orderly(toServer'[h], HostRegister, {HostRegister})
        /\ Free(toServer[h], {HostRegister}) => Free(toServer'[h], {HostRegister})
    BY <2>1, <2>2, LessHolds
  <2> QED
    BY <2>1, <2>2, <2>3
<1> QED
  BY <1>1, <1>2, <1>3 DEF Rooms

(* A peer that is not served, or is handed a frame that is not a match, is *)
(* at the stage it was at.                                                 *)
LEMMA AskingLess ==
  ASSUME NEW c \in Clients, Asking(c), Untold(c) => Untold(c)',
         link'[c] = "new" => link[c] = "new",
         toServer'[c] \in {toServer[c], <<>>}, toPeer'[c] = toPeer[c],
         socketToSession'[c] \in {socketToSession[c], None}
  PROVE  Asking(c)'
<1>1. \A S : ~Free(toServer'[c], S) => toServer'[c] = toServer[c]
  BY EmptyHolds
<1> QED
  BY <1>1 DEF Asking

LEMMA SendersAre ==
  ASSUME Types, Rooms, NEW s \in Peers, NEW m, Receives(s, m)
  PROVE  /\ m = HostRegister \/ m \in Responses => s \in Hosts
         /\ m \in Lookups \/ m \in Requests => s \in Clients
         /\ \A c \in Clients : m = ApprovalRequest(c) => c = s
<1>1. /\ s \in Hosts => m \in HostFrames(s)
      /\ s \in Clients => m \in ClientFrames(s)
      /\ s \in Hosts \cup Clients
  <2>1. \A W : toServer[s] \in Seq(W) => m \in W
    BY DEF Receives
  <2> QED
    BY <2>1 DEF Rooms, Senders, Peers
<1>2. m \in {HostRegister} \cup Responses => m \notin ClientFrames(s) \/ s \notin Clients
  BY FramesAre, FramesDiffer DEF Forwarded
<1>3. m \in Lookups \cup Requests => m \notin HostFrames(s) \/ s \notin Hosts
  BY FramesAre, FramesDiffer DEF Forwarded
<1>4. ASSUME NEW c \in Clients, m = ApprovalRequest(c), s \in Clients
      PROVE  c = s
  BY <1>1, <1>4, FramesAre, FramesDiffer DEF Forwarded
<1> QED
  BY <1>1, <1>2, <1>3, <1>4, FramesAre

LEMMA RegisterKeeps ==
  ASSUME Types, Rooms, Token, NEW s \in Peers, HandleHostRegister(s),
         UNCHANGED <<rtcVars, hostVars, clientVars>>
  PROVE  Rooms' /\ Token'
<1>1. PICK k \in Codes :
        /\ FreeCode(k)
        /\ activeSessions' =
             [activeSessions EXCEPT ![k] = [hostSocket |-> s, clientSocket |-> None]]
        /\ socketToSession' = [socketToSession EXCEPT ![s] = k]
        /\ toPeer' = Sent({s}, HostRegistered(k))
  BY DEF HandleHostRegister
<1>2. /\ Receives(s, HostRegister) /\ s \in Hosts /\ s \notin Clients
      /\ Serves(s, HostRegister, HostRegistered(k))
  <2>1. Receives(s, HostRegister)
    BY DEF HandleHostRegister
  <2> QED
    BY <1>1, <2>1, SendersAre, PeersAssumption DEF Serves, Sent, Types, ChannelTypeOK
<1>3. \A q \in Peers : q # s => /\ toServer'[q] = toServer[q]
                                /\ toPeer'[q] = toPeer[q]
                                /\ socketToSession'[q] = socketToSession[q]
  BY <1>1, <1>2, ReceivingHolds DEF Sent, Types, ServerTypeOK
<1>4. activeSessions[k] = None /\ k # None /\ socketToSession[s] = None /\ link[s] \in {"open", "closing"}
  BY <1>1, <1>2, ReceivingHolds, PeersAssumption DEF FreeCode, Rooms, Registers
<1>5. RoomsDistinct'
  <2>1. /\ activeSessions'[k] = [hostSocket |-> s, clientSocket |-> None]
        /\ \A l \in Codes : l # k => activeSessions'[l] = activeSessions[l]
        /\ socketToSession'[s] = k
        /\ link' = link
    BY <1>1, <1>2, ReceivingHolds DEF Types, ServerTypeOK
  <2>2. activeSessions'[k].hostSocket = s /\ activeSessions'[k] # None
    <3>1. [hostSocket |-> s, clientSocket |-> None].hostSocket = s
      OBVIOUS
    <3>2. activeSessions'[k] \in Sessions /\ None \notin Sessions
      BY <2>1, SessionsAssumption DEF Sessions
    <3> QED
      BY <2>1, <3>1, <3>2
  <2>3. ASSUME NEW l \in Codes, activeSessions'[l] # None
        PROVE  /\ socketToSession'[activeSessions'[l].hostSocket] = l
               /\ activeSessions'[l].hostSocket \in Hosts
               /\ link'[activeSessions'[l].hostSocket] \in {"open", "closing"}
    <3>1. CASE l = k
      BY <1>2, <1>4, <2>1, <2>2, <3>1
    <3>2. CASE l # k
      <4>1. /\ activeSessions'[l] = activeSessions[l]
            /\ socketToSession[activeSessions[l].hostSocket] = l
            /\ activeSessions[l].hostSocket \in Hosts
            /\ link[activeSessions[l].hostSocket] \in {"open", "closing"}
        BY <2>1, <2>3, <3>2 DEF Rooms, RoomsDistinct
      <4>2. activeSessions[l].hostSocket # s
        BY <1>4, <4>1, PeersAssumption
      <4> QED
        BY <1>3, <2>1, <4>1, <4>2, HostIsPeer
    <3> QED
      BY <3>1, <3>2
  <2>4. ASSUME NEW h \in Hosts, socketToSession'[h] # None
        PROVE  /\ activeSessions'[socketToSession'[h]] # None
               /\ activeSessions'[socketToSession'[h]].hostSocket = h
    <3>1. CASE h = s
      BY <2>1, <2>2, <3>1
    <3>2. CASE h # s
      <4>1. /\ socketToSession'[h] = socketToSession[h] /\ socketToSession[h] \in Codes
            /\ activeSessions[socketToSession[h]] # None
            /\ activeSessions[socketToSession[h]].hostSocket = h
        BY <1>3, <2>4, <3>2, HostIsPeer DEF Rooms, RoomsDistinct, Types, ServerTypeOK
      <4>2. socketToSession[h] # k
        BY <1>4, <4>1
      <4> QED
        BY <2>1, <4>1, <4>2
    <3> QED
      BY <3>1, <3>2
  <2> QED
    BY <2>3, <2>4 DEF RoomsDistinct
<1>6. Free(Tail(toServer[s]), {HostRegister})
  <2>1. Orderly(toServer[s], HostRegister, {HostRegister})
    BY <1>2 DEF Rooms, Registers
  <2> QED
    BY <1>2, <2>1, ReceivingHolds, TailHolds
<1>7. Rooms'
  BY <1>2, <1>3, <1>5, <1>6, ServingKeepsRooms
<1>8. \A c \in Clients : Steady(c)
  <2>1. HostRegistered(k) \in FramesToPeer /\ HostRegistered(k) \notin Forwarded
    BY FramesTyped, FramesDiffer
  <2>2. \A c \in Clients : /\ HostRegistered(k) # ApprovalRequest(c)
                           /\ HostRegistered(k) \notin {ApprovalResponse(c, b) : b \in BOOLEAN}
    BY <2>1, FramesTyped
  <2> QED
    BY <1>2, <2>1, <2>2, ServingIsSteady
<1>9. \A c \in Clients : TokenOf(c)' /\ (Untold(c) => Untold(c)')
  BY <1>8, SteadyKeeps DEF Token, TokenOf
<1>10. \A c \in Clients : Asking(c)'
  BY <1>2, <1>3, <1>9, AskingSame, ClientIsPeer, ReceivingHolds DEF Token
<1> QED
  BY <1>7, <1>9, <1>10 DEF Token, TokenOf

LEMMA LookupKeeps ==
  ASSUME Types, Rooms, Token, NEW s \in Peers, HandleClientLookup(s),
         UNCHANGED <<rtcVars, hostVars, clientVars>>
  PROVE  Rooms' /\ Token'
<1>1. PICK k \in Codes, n \in {MatchSuccess, MatchFailed} :
        /\ Receives(s, ClientLookup(k))
        /\ toPeer' = Sent({s}, n)
        /\ socketToSession' \in {socketToSession, [socketToSession EXCEPT ![s] = k]}
        /\ UNCHANGED activeSessions
  BY DEF HandleClientLookup
<1>2. /\ ClientLookup(k) \in Lookups
      /\ n \in FramesToPeer /\ n \notin Forwarded
      /\ s \in Clients /\ s \notin Hosts
  <2>1. ClientLookup(k) \in Lookups /\ n \in FramesToPeer /\ n \notin Forwarded
    BY FramesAre, FramesDiffer, FramesTyped
  <2> QED
    BY <1>1, <2>1, SendersAre, PeersAssumption
<1>3. /\ Serves(s, ClientLookup(k), n)
      /\ \A q \in Peers : q # s => /\ toServer'[q] = toServer[q]
                                   /\ toPeer'[q] = toPeer[q]
                                   /\ socketToSession'[q] = socketToSession[q]
      /\ UNCHANGED link
  BY <1>1, ReceivingHolds DEF Serves, Sent, Types, ChannelTypeOK, ServerTypeOK
<1>4. /\ toServer[s] = <<ClientLookup(k)>> /\ toServer'[s] = <<>>
      /\ toPeer'[s] \in {<<>>, <<n>>} /\ Untold(s) /\ link[s] # "new"
  <2>1. ~Free(toServer[s], {ClientLookup(k)}) /\ toServer'[s] = Tail(toServer[s]) /\ link[s] # "new"
    BY <1>1, ReceivingHolds
  <2>2. toServer[s] = <<ClientLookup(k)>> /\ toPeer[s] = <<>> /\ Untold(s)
    BY <1>2, <2>1 DEF Token, Asking
  <2>3. Tail(<<ClientLookup(k)>>) = <<>> /\ Append(<<>>, n) = <<n>>
    OBVIOUS
  <2>4. toPeer'[s] \in {<<>>, <<n>>}
    BY <1>1, <2>2, <2>3 DEF Sent
  <2> QED
    BY <2>1, <2>2, <2>3, <2>4
<1>5. Rooms'
  <2>1. RoomsDistinct'
    BY <1>1, <1>2, <1>3, HostIsPeer DEF Rooms, RoomsDistinct
  <2> QED
    BY <1>2, <1>3, <2>1, ServingKeepsRooms
<1>6. \A c \in Clients : TokenOf(c)' /\ (Untold(c) => Untold(c)')
  <2>1. \A c \in Clients : n # ApprovalRequest(c) /\ n \notin {ApprovalResponse(c, b) : b \in BOOLEAN}
    BY <1>2, FramesTyped
  <2> QED
    BY <1>2, <1>3, <2>1, ServingIsSteady, SteadyKeeps DEF Token, TokenOf
<1>7. \A c \in Clients \ {s} : Asking(c)'
  BY <1>3, <1>6, AskingSame, ClientIsPeer DEF Token
<1>8. Asking(s)'
  <2>1. /\ \A S : Free(<<>>, S)
        /\ Orderly(<<>>, MatchSuccess, {MatchSuccess})
        /\ Orderly(<<n>>, MatchSuccess, {MatchSuccess})
    BY EmptyHolds, SingleHolds
  <2> QED
    BY <1>2, <1>3, <1>4, <1>6, <2>1 DEF Asking
<1> QED
  BY <1>2, <1>5, <1>6, <1>7, <1>8 DEF Token, TokenOf

LEMMA CloseKeeps ==
  ASSUME Types, Rooms, Token, NoSeats, NEW s \in Peers, HandleClose(s),
         UNCHANGED <<rtcVars, hostVars, clientVars>>
  PROVE  Rooms' /\ Token'
<1> DEFINE k == socketToSession[s]
<1>1. ~SitsIn(s, k) \/ k = None
  <2>1. k # None => k \in Codes
    BY DEF Types, ServerTypeOK
  <2>2. s # None
    BY NoneIsNoPeer
  <2> QED
    BY <2>1, <2>2 DEF SitsIn, NoSeats
<1>2. /\ link[s] = "closing" /\ toServer[s] = <<>>
      /\ link' = [link EXCEPT ![s] = "closed"]
      /\ activeSessions' = IF k # None /\ Owns(s, k) THEN [activeSessions EXCEPT ![k] = None]
                           ELSE activeSessions
      /\ socketToSession' = [socketToSession EXCEPT ![s] = None]
      /\ UNCHANGED <<toServer, toPeer>>
  BY <1>1 DEF HandleClose
<1> HIDE DEF k
<1>3. /\ socketToSession'[s] = None /\ link'[s] = "closed"
      /\ \A q \in Peers : q # s => socketToSession'[q] = socketToSession[q] /\ link'[q] = link[q]
  BY <1>2 DEF Types, ChannelTypeOK, ServerTypeOK
<1>4. Senders' /\ Quiet' /\ Registers'
  <2>1. Senders'
    BY <1>2 DEF Rooms, Senders
  <2>2. Quiet'
    BY <1>2, <1>3 DEF Rooms, Quiet
  <2>3. Registers'
    BY <1>2, <1>3, HostIsPeer DEF Rooms, Registers
  <2> QED
    BY <2>1, <2>2, <2>3
<1>5. RoomsDistinct'
  <2>1. ASSUME NEW l \in Codes, activeSessions'[l] # None
        PROVE  /\ activeSessions'[l] = activeSessions[l]
               /\ activeSessions[l].hostSocket # s
    <3>1. activeSessions'[l] = activeSessions[l] /\ ~(l = k /\ Owns(s, k))
      BY <1>2, <2>1, PeersAssumption DEF Types, ServerTypeOK
    <3>2. socketToSession[activeSessions[l].hostSocket] = l
      BY <2>1, <3>1 DEF Rooms, RoomsDistinct
    <3> QED
      BY <2>1, <3>1, <3>2 DEF Owns, k
  <2>2. ASSUME NEW h \in Hosts, socketToSession'[h] # None
        PROVE  /\ activeSessions'[socketToSession'[h]] # None
               /\ activeSessions'[socketToSession'[h]].hostSocket = h
    <3>1. /\ h # s /\ socketToSession'[h] = socketToSession[h] /\ socketToSession[h] \in Codes
          /\ activeSessions[socketToSession[h]] # None
          /\ activeSessions[socketToSession[h]].hostSocket = h
      BY <1>3, <2>2, HostIsPeer DEF Rooms, RoomsDistinct, Types, ServerTypeOK
    <3>2. activeSessions'[socketToSession[h]] = activeSessions[socketToSession[h]]
      BY <1>2, <3>1 DEF Owns, Types, ServerTypeOK
    <3> QED
      BY <3>1, <3>2
  <2> QED
    BY <1>3, <2>1, <2>2, HostIsPeer DEF Rooms, RoomsDistinct
<1>6. \A c \in Clients : TokenOf(c)' /\ (Untold(c) => Untold(c)')
  <2>1. \A c \in Clients : Steady(c)
    BY <1>2 DEF Steady, rtcVars, hostVars
  <2> QED
    BY <2>1, SteadyKeeps DEF Token, TokenOf
<1>7. \A c \in Clients : Asking(c)'
  <2>1. \A c \in Clients : /\ link'[c] = "new" => link[c] = "new"
                           /\ socketToSession'[c] \in {socketToSession[c], None}
    BY <1>3, ClientIsPeer
  <2> QED
    BY <1>2, <1>6, <2>1, AskingLess DEF Token
<1> QED
  BY <1>4, <1>5, <1>6, <1>7 DEF Rooms, Token, TokenOf

LEMMA RestartKeeps ==
  ASSUME Types, Rooms, Token, ServerRestart, UNCHANGED <<rtcVars, hostVars, clientVars>>
  PROVE  Rooms' /\ Token'
<1>1. /\ \A p \in Peers : /\ link'[p] = "new" => link[p] = "new"
                          /\ toServer'[p] = <<>>
                          /\ socketToSession'[p] = None
      /\ \A k \in Codes : activeSessions'[k] = None
      /\ UNCHANGED toPeer
  BY DEF ServerRestart
<1>2. \A f, S : Free(<<>>, S) /\ Orderly(<<>>, f, S)
  BY EmptyHolds
<1>3. Rooms'
  <2>1. Senders'
    <3>1. \A W : <<>> \in Seq(W)
      OBVIOUS
    <3>2. \A p \in Hosts \cup Clients : toServer'[p] = <<>>
      BY <1>1 DEF Peers
    <3> QED
      BY <3>1, <3>2 DEF Senders
  <2>2. Quiet'
    BY <1>1 DEF Rooms, Quiet
  <2>3. Registers'
    BY <1>1, <1>2, HostIsPeer DEF Registers
  <2>4. RoomsDistinct'
    BY <1>1, HostIsPeer DEF RoomsDistinct
  <2> QED
    BY <2>1, <2>2, <2>3, <2>4 DEF Rooms
<1>4. \A c \in Clients : TokenOf(c)' /\ (Untold(c) => Untold(c)')
  <2>1. \A c \in Clients : Steady(c)
    BY <1>1, <1>2 DEF Steady, rtcVars, hostVars
  <2> QED
    BY <2>1, SteadyKeeps DEF Token, TokenOf
<1>5. \A c \in Clients : Asking(c)'
  BY <1>1, <1>4, AskingLess, ClientIsPeer DEF Token
<1> QED
  BY <1>3, <1>4, <1>5 DEF Token, TokenOf

(* A broadcast: it reaches connected peers in the room of its sender.      *)
LEMMA ForwardIs ==
  ASSUME Types, Rooms, NEW s \in Peers, HandleForward(s)
  PROVE  \E m \in Forwarded :
           /\ Serves(s, m, m) /\ m \in FramesToPeer
           /\ toPeer' = Sent(RoomMates(s), m)
           /\ toPeer'[s] = toPeer[s]
           /\ \A q \in Peers : socketToSession[q] = None => toPeer'[q] = toPeer[q]
           /\ UNCHANGED <<link, activeSessions, socketToSession, issued, matchedHost>>
<1>1. PICK m \in Forwarded :
        /\ Receives(s, m) /\ toPeer' = Sent(RoomMates(s), m)
        /\ UNCHANGED <<activeSessions, socketToSession, issued, matchedHost>>
  BY DEF HandleForward
<1>2. m \in FramesToPeer
  BY FramesTyped
<1>3. Serves(s, m, m) /\ UNCHANGED link
  BY <1>1 DEF Serves, Sent, Types, ChannelTypeOK, Receives
<1>4. s \notin RoomMates(s) /\ \A q \in RoomMates(s) : socketToSession[q] # None
  BY DEF RoomMates
<1>5. toPeer'[s] = toPeer[s] /\ \A q \in Peers : socketToSession[q] = None => toPeer'[q] = toPeer[q]
  BY <1>1, <1>4 DEF Sent
<1> QED
  BY <1>1, <1>2, <1>3, <1>5

LEMMA ForwardKeepsAsking ==
  ASSUME Types, Rooms, NEW s \in Peers, NEW m \in Forwarded, Serves(s, m, m),
         toPeer'[s] = toPeer[s],
         \A q \in Peers : socketToSession[q] = None => toPeer'[q] = toPeer[q],
         UNCHANGED <<link, socketToSession>>,
         NEW c \in Clients, Asking(c), Untold(c) => Untold(c)' \/ (c = s /\ m = ApprovalRequest(c))
  PROVE  Asking(c)'
<1>1. /\ c \in Peers /\ toPeer[c] \in Seq(FramesToPeer) /\ m \in FramesToPeer
      /\ m \notin Lookups /\ m \notin {MatchSuccess}
      /\ \A q \in Peers : q # s => toServer'[q] = toServer[q]
  BY ClientIsPeer, FramesDiffer, FramesTyped, ReceivingHolds DEF Serves, Types, ChannelTypeOK
<1>2. /\ Free(toPeer[c], {MatchSuccess}) => Free(toPeer'[c], {MatchSuccess})
      /\ Orderly(toPeer'[c], MatchSuccess, {MatchSuccess})
  <2>1. Orderly(toPeer[c], MatchSuccess, {MatchSuccess})
    BY DEF Asking
  <2>2. /\ Free(toPeer[c], {MatchSuccess}) => Free(Append(toPeer[c], m), {MatchSuccess})
        /\ Orderly(Append(toPeer[c], m), MatchSuccess, {MatchSuccess})
    BY <1>1, <2>1, AppendHolds
  <2> QED
    BY <1>1, <2>1, <2>2 DEF Serves
<1>3. CASE c = s
  <2>1. /\ toServer[s] # <<>> /\ Head(toServer[s]) = m /\ toServer'[s] = Tail(toServer[s])
        /\ link[s] # "new" /\ toServer[s] \in Seq(FramesToServer) /\ ~Free(toServer[s], {m})
    BY ReceivingHolds DEF Serves
  <2>2. Free(toPeer'[c], {MatchSuccess})
    BY <1>2, <1>3, <2>1 DEF Asking
  <2>3. ASSUME NEW f, Free(toServer[s], {f}) \/ toServer[s] = <<f>>
        PROVE  Free(toServer'[s], {f})
    <3>1. Free(toServer[s], {f}) => Free(Tail(toServer[s]), {f})
      BY <2>1, TailHolds
    <3>2. Tail(<<f>>) = <<>> /\ Free(<<>>, {f})
      BY EmptyHolds
    <3> QED
      BY <2>1, <2>3, <3>1, <3>2
  <2>4. /\ \A k \in Codes : Free(toServer'[s], {ClientLookup(k)})
        /\ Free(toServer'[s], {ApprovalRequest(s)})
    BY <1>3, <2>3 DEF Asking
  <2> QED
    BY <1>2, <1>3, <2>1, <2>2, <2>4 DEF Asking
<1>4. CASE c # s
  <2>1. /\ toServer'[c] = toServer[c] /\ (Untold(c) => Untold(c)')
        /\ link'[c] = link[c] /\ socketToSession'[c] = socketToSession[c]
        /\ socketToSession[c] = None => toPeer'[c] = toPeer[c]
    BY <1>1, <1>4
  <2> QED
    BY <1>2, <2>1 DEF Asking
<1> QED
  BY <1>3, <1>4

LEMMA ForwardKeeps ==
  ASSUME Types, Rooms, Token, NEW s \in Peers, HandleForward(s),
         UNCHANGED <<rtcVars, hostVars, clientVars>>
  PROVE  Rooms' /\ Token'
<1>1. PICK m \in Forwarded :
        /\ Serves(s, m, m) /\ m \in FramesToPeer
        /\ toPeer' = Sent(RoomMates(s), m)
        /\ toPeer'[s] = toPeer[s]
        /\ \A q \in Peers : socketToSession[q] = None => toPeer'[q] = toPeer[q]
        /\ UNCHANGED <<link, activeSessions, socketToSession>>
  BY ForwardIs
<1>2. Rooms'
  <2>1. RoomsDistinct'
    BY <1>1 DEF Rooms, RoomsDistinct
  <2> QED
    BY <1>1, <2>1, ServingKeepsRooms
<1>3. /\ ~Free(toServer[s], {m}) /\ Receives(s, m)
      /\ \A q \in Peers : Less(toServer'[q], toServer[q])
  BY <1>1, ReceivingHolds DEF Serves
<1>4. ASSUME NEW c \in Clients, m # ApprovalRequest(c),
             m \notin {ApprovalResponse(c, b) : b \in BOOLEAN}
      PROVE  TokenOf(c)' /\ (Untold(c) => Untold(c)')
  BY <1>1, <1>4, ServingIsSteady, SteadyKeeps DEF Token, TokenOf
<1>5. ASSUME NEW q \in Peers, NEW g, NEW S, m \notin S
      PROVE  /\ Free(toPeer[q], S) => Free(toPeer'[q], S)
             /\ Orderly(toPeer[q], g, S) => Orderly(toPeer'[q], g, S)
  <2>1. toPeer[q] \in Seq(FramesToPeer)
    BY DEF Types, ChannelTypeOK
  <2>2. /\ Free(toPeer[q], S) => Free(Append(toPeer[q], m), S)
        /\ Orderly(toPeer[q], g, S) => Orderly(Append(toPeer[q], m), g, S)
    BY <1>1, <1>5, <2>1, AppendHolds
  <2> QED
    BY <1>1, <2>2 DEF Serves
<1>6. ASSUME NEW q \in Peers, NEW S
      PROVE  Free(toServer[q], S) => Free(toServer'[q], S)
  BY <1>3, LessHolds DEF Types, ChannelTypeOK
<1>7. ASSUME NEW c \in Clients, NEW b \in BOOLEAN, m = ApprovalResponse(c, b)
      PROVE  TokenOf(c)' /\ ~Untold(c)
  <2>1. verdicts[c] = <<b>>
    BY <1>3, <1>7 DEF Token, Judged
  <2>2. m \notin Requests
    BY <1>7, FramesAre, FramesDiffer
  <2>3. \A a \in BOOLEAN, p \in Peers :
          Free(toPeer[p], {ApprovalResponse(c, a)}) => Free(toPeer'[p], {ApprovalResponse(c, a)}) \/ a = b
    <3> SUFFICES ASSUME NEW a \in BOOLEAN, NEW p \in Peers, a # b
                 PROVE  Free(toPeer[p], {ApprovalResponse(c, a)}) => Free(toPeer'[p], {ApprovalResponse(c, a)})
      OBVIOUS
    <3>1. m \notin {ApprovalResponse(c, a)}
      BY <1>7, FramesDiffer
    <3> QED
      BY <1>5, <3>1
  <2>4. Judged(c)'
    <3>1. /\ UNCHANGED <<verdicts, clientPc, hostPc>>
          /\ verdicts[c] \in {<<>>, <<TRUE>>, <<FALSE>>}
          /\ clientPc[c] # "none" => verdicts[c] = <<TRUE>>
          /\ \A h \in Hosts : hostPc[h][c] # "none" =>
               verdicts[c] = <<TRUE>> /\ \A g \in Hosts : g # h => hostPc[g][c] = "none"
      BY DEF Token, Judged, rtcVars, hostVars
    <3>2. \A p \in Peers, a \in BOOLEAN :
            /\ ~Free(toServer'[p], {ApprovalResponse(c, a)}) => verdicts[c] = <<a>>
            /\ ~Free(toPeer'[p], {ApprovalResponse(c, a)}) => verdicts[c] = <<a>>
      BY <1>6, <2>1, <2>3 DEF Token, Judged
    <3> QED
      BY <3>1, <3>2 DEF Judged
  <2>5. \A h \in Hosts : Knocking(h, c)' /\ Waiting(h, c)'
    <3>1. \A h \in Hosts :
            /\ Free(toPeer[h], {ApprovalRequest(c)}) => Free(toPeer'[h], {ApprovalRequest(c)})
            /\ Orderly(toPeer[h], ApprovalRequest(c), {ApprovalRequest(c)})
                 => Orderly(toPeer'[h], ApprovalRequest(c), {ApprovalRequest(c)})
      <4>1. m \notin {ApprovalRequest(c)}
        BY <2>2, FramesAre
      <4> QED
        BY <1>5, <4>1, HostIsPeer
    <3> QED
      BY <3>1 DEF Token, Knocking, Waiting, rtcVars, hostVars
  <2> QED
    BY <2>1, <2>4, <2>5 DEF TokenOf, Untold
<1>8. ASSUME NEW c \in Clients, m = ApprovalRequest(c)
      PROVE  TokenOf(c)' /\ c = s
  <2>1. c = s
    BY <1>3, <1>8, SendersAre
  <2>2. Untold(c)
    BY <1>3, <1>8, <2>1 DEF Token, Asking
  <2>3. m \notin Responses
    BY <1>8, FramesAre, FramesDiffer
  <2>4. Judged(c)'
    <3>1. \A p \in Peers, b \in BOOLEAN :
            /\ Free(toPeer[p], {ApprovalResponse(c, b)}) => Free(toPeer'[p], {ApprovalResponse(c, b)})
            /\ Free(toServer[p], {ApprovalResponse(c, b)}) => Free(toServer'[p], {ApprovalResponse(c, b)})
      BY <1>5, <1>6, <2>3, FramesAre
    <3> QED
      BY <3>1 DEF Token, Judged, rtcVars, hostVars
  <2>5. ASSUME NEW h \in Hosts
        PROVE  Knocking(h, c)'
    <3>1. Orderly(toPeer'[h], ApprovalRequest(c), {ApprovalRequest(c)})
      <4>1. Free(toPeer[h], {ApprovalRequest(c)}) /\ toPeer[h] \in Seq(FramesToPeer) /\ h \in Peers
        BY <2>2, HostIsPeer DEF Untold, Types, ChannelTypeOK
      <4>2. /\ Orderly(toPeer[h], ApprovalRequest(c), {ApprovalRequest(c)})
            /\ Orderly(Append(toPeer[h], m), ApprovalRequest(c), {ApprovalRequest(c)})
        BY <1>1, <4>1, FreeIsOrderly, AppendHolds
      <4> QED
        BY <1>1, <4>1, <4>2 DEF Serves
    <3>2. ASSUME NEW g \in Hosts, g # h, ~Free(toPeer'[g], {ApprovalRequest(c)})
          PROVE  Free(toPeer'[h], {ApprovalRequest(c)})
      <4>1. toPeer'[g] # toPeer[g] /\ Free(toPeer[h], {ApprovalRequest(c)})
        BY <2>2, <3>2 DEF Untold
      <4>2. g \in RoomMates(s)
        BY <1>1, <4>1, HostIsPeer DEF Sent
      <4>3. h \notin RoomMates(s)
        BY <3>2, <4>2, HostIsPeer DEF RoomMates, Rooms, RoomsDistinct
      <4> QED
        BY <1>1, <4>1, <4>3, HostIsPeer DEF Sent
    <3> QED
      BY <2>2, <3>1, <3>2 DEF Knocking, Untold, rtcVars, hostVars
  <2>6. \A h \in Hosts : Waiting(h, c)'
    BY DEF Token, Waiting, hostVars
  <2> QED
    BY <2>1, <2>4, <2>5, <2>6 DEF TokenOf
<1>9. \A c \in Clients : TokenOf(c)' /\ (Untold(c) => Untold(c)' \/ (c = s /\ m = ApprovalRequest(c)))
  BY <1>4, <1>7, <1>8
<1>10. \A c \in Clients : Asking(c)'
  BY <1>1, <1>9, ForwardKeepsAsking DEF Token
<1> QED
  BY <1>2, <1>9, <1>10 DEF Token, TokenOf

-----------------------------------------------------------------------------
(* The continuation of a lobby runs in a process that is up.               *)
Running == \A h \in Hosts : settled[h] # None => hostUp[h] = "up"

LEMMA HostStepRuns ==
  ASSUME Types, Running, HostNext
  PROVE  Running'
<1>1. PICK h \in Hosts : HostStart(h) \/ HostReacts(h) \/ OperatorActs(h) \/ HostSuffers(h)
  BY DEF HostNext
<1>0. HostTypes
  BY DEF Types, HostTypes
<1>2. CASE Leaves(h)
  BY <1>2 DEF Leaves, HostEnds, Running, Types, HostTypeOK
<1>3. CASE ~Leaves(h)
  <2>1. hostUp' = hostUp \/ hostUp' = [hostUp EXCEPT ![h] = "up"]
    BY <1>0, <1>1, <1>3, ExitsLeave DEF HostStart, HostReacts, OperatorActs, HostSuffers, HostOnRequest,
       HostOnDisconnect, HostOnSignal, HostIgnores, HostResumesExit, HostResumesRejectAll,
       HostResumesSelected, HostOffers, HostKeyUp, HostKeyDown, HostKeyEnter, HostKeyCtrlC,
       MovesTo, HostSessionStarts, HostSessionCloses, HostNegotiationFails, HostShellExits,
       HostLosesSocket, HostDrains, HostCrashes, LobbyDone, hostVars
  <2>2. \/ settled' = settled
        \/ settled' = [settled EXCEPT ![h] = None]
        \/ HostIdle(h) /\ \E r : settled' = [settled EXCEPT ![h] = r]
    BY <1>0, <1>1, <1>3, ExitsLeave DEF HostStart, HostReacts, OperatorActs, HostSuffers, HostOnRequest,
       HostOnDisconnect, HostOnSignal, HostIgnores, HostResumesExit, HostResumesRejectAll,
       HostResumesSelected, HostOffers, HostKeyUp, HostKeyDown, HostKeyEnter, HostKeyCtrlC,
       MovesTo, Picking, Finish, HostSessionStarts, HostSessionCloses, HostNegotiationFails,
       HostShellExits, HostLosesSocket, HostDrains, HostCrashes, LobbyDone, hostVars
  <2> QED
    BY <2>1, <2>2 DEF Running, HostIdle, Types, HostTypeOK
<1> QED
  BY <1>2, <1>3

(* The inductive invariant of admission.                                   *)
Admission == IInv /\ Rooms /\ Token /\ Running

LEMMA InitAdmits == Init => Admission
<1> SUFFICES ASSUME Init PROVE Admission
  OBVIOUS
<1>1. IInv
  BY InitEstablishes
<1>2. \A f, S : Free(<<>>, S) /\ Orderly(<<>>, f, S)
  BY EmptyHolds
<1>3. /\ \A p \in Peers : /\ link[p] = "new" /\ toServer[p] = <<>> /\ toPeer[p] = <<>>
                          /\ socketToSession[p] = None
      /\ \A k \in Codes : activeSessions[k] = None
      /\ \A c \in Clients : verdicts[c] = <<>> /\ clientPc[c] = "none"
      /\ \A h \in Hosts : /\ approvalQueue[h] = <<>> /\ settled[h] = None
                          /\ \A c \in Clients : hostPc[h][c] = "none"
  BY DEF Init, ChannelInit, ServerInit, RtcInit, HostInit
<1>4. Rooms
  <2>1. Senders
    <3>1. \A W : <<>> \in Seq(W)
      OBVIOUS
    <3>2. \A p \in Hosts \cup Clients : toServer[p] = <<>>
      BY <1>3 DEF Peers
    <3> QED
      BY <3>1, <3>2 DEF Senders
  <2>2. Quiet /\ Registers /\ RoomsDistinct
    BY <1>2, <1>3, HostIsPeer DEF Quiet, Registers, RoomsDistinct
  <2> QED
    BY <2>1, <2>2 DEF Rooms
<1>5. Token
  <2> SUFFICES ASSUME NEW c \in Clients
               PROVE  Asking(c) /\ Judged(c) /\ \A h \in Hosts : Knocking(h, c) /\ Waiting(h, c)
    BY DEF Token
  <2>1. Asking(c)
    <3>1. Untold(c)
      BY <1>2, <1>3, HostIsPeer DEF Untold
    <3>2. \A S : Free(toServer[c], S) /\ Free(toPeer[c], S) /\ Orderly(toPeer[c], MatchSuccess, S)
      BY <1>2, <1>3, ClientIsPeer
    <3> QED
      BY <3>1, <3>2 DEF Asking
  <2>2. Judged(c)
    BY <1>2, <1>3 DEF Judged
  <2>3. \A h \in Hosts : Knocking(h, c) /\ Waiting(h, c)
    BY <1>2, <1>3, HostIsPeer DEF Knocking, Waiting
  <2> QED
    BY <2>1, <2>2, <2>3
<1> QED
  BY <1>1, <1>3, <1>4, <1>5 DEF Admission, Running

LEMMA NoDisconnectRead ==
  ASSUME IInv, NEW h \in Hosts
  PROVE  ~Reads(h, "CLIENT_DISCONNECT")
<1>1. ASSUME Reads(h, "CLIENT_DISCONNECT") PROVE FALSE
  <2>1. toPeer[h] \in Seq(FramesToPeer) /\ toPeer[h] # <<>> /\ h \in Peers
    BY <1>1, HostIsPeer DEF Reads, IInv, Types, ChannelTypeOK
  <2>2. 1 \in DOMAIN toPeer[h] /\ Head(toPeer[h]) = toPeer[h][1]
    BY <2>1
  <2> QED
    BY <1>1, <2>1, <2>2 DEF Reads, IInv, NoSeats
<1> QED
  BY <1>1

(* Seen from admission, a host connects, hears a request, rules, or takes  *)
(* a calm step.                                                            *)
LEMMA HostStepIs ==
  ASSUME IInv, Token, HostNext, UNCHANGED clientVars
  PROVE  \E h \in Hosts :
           \/ HostStart(h)
           \/ HostOnRequest(h)
           \/ HostCalmStep(h)
           \/ Ruling(h, {})
           \/ /\ settled[h].result \in Queued(h)
              /\ Ruling(h, {settled[h].result}) /\ settled[h].result \in Clients
<1>1. PICK h \in Hosts : HostStart(h) \/ HostReacts(h) \/ OperatorActs(h) \/ HostSuffers(h)
  BY DEF HostNext
<1>2. Types /\ ~HostOnDisconnect(h)
  BY NoDisconnectRead DEF HostOnDisconnect, IInv
<1>3. CASE HostResumesRejectAll(h)
  BY <1>2, <1>3, RejectAllRules
<1>4. CASE HostResumesSelected(h)
  BY <1>2, <1>4, SelectedRules
<1>5. CASE ~HostResumesRejectAll(h) /\ ~HostResumesSelected(h)
  BY <1>1, <1>2, <1>5 DEF HostReacts, HostCalmStep
<1> QED
  BY <1>3, <1>4, <1>5

LEMMA AdmissionStep ==
  ASSUME Admission, [Next]_vars
  PROVE  Rooms' /\ Token' /\ Running'
<1>1. IInv /\ Types /\ Rooms /\ Token /\ NoSeats /\ OffersNamed /\ Running
  BY DEF Admission, IInv
<1>2. CASE ServerNext /\ UNCHANGED <<rtcVars, hostVars, clientVars>>
  <2>1. Running'
    BY <1>1, <1>2 DEF Running, hostVars
  <2> QED
    BY <1>1, <1>2, <2>1, RegisterKeeps, LookupKeeps, ForwardKeeps, CloseKeeps, RestartKeeps
    DEF ServerNext, ServerHandles
<1>3. CASE HostNext /\ UNCHANGED <<serverVars, clientVars>>
  <2>1. Running'
    BY <1>1, <1>3, HostStepRuns
  <2>2. PICK h \in Hosts : HostStart(h) \/ HostOnRequest(h) \/ HostCalmStep(h)
                             \/ \E S \in SUBSET Clients : Ruling(h, S)
    <3>1. {} \in SUBSET Clients /\ \A c \in Clients : {c} \in SUBSET Clients
      OBVIOUS
    <3> QED
      BY <1>1, <1>3, <3>1, HostStepIs
  <2>3. CASE HostStart(h)
    BY <1>1, <1>3, <2>1, <2>3, HostStartKeeps
  <2>4. CASE HostOnRequest(h)
    BY <1>1, <1>3, <2>1, <2>4, RequestKeeps
  <2>5. CASE HostCalmStep(h)
    BY <1>1, <1>3, <2>1, <2>5, HostStepsCalm, CalmKeeps
  <2>6. CASE \E S \in SUBSET Clients : Ruling(h, S)
    BY <1>1, <1>3, <2>1, <2>6, RulingKeeps
  <2> QED
    BY <2>2, <2>3, <2>4, <2>5, <2>6
<1>4. CASE ClientNext /\ UNCHANGED <<serverVars, hostVars>>
  <2>1. Running'
    BY <1>1, <1>4 DEF Running, hostVars
  <2>2. PICK c \in Clients : ClientStart(c) \/ ClientOnMatchSuccess(c) \/ ClientOnApproved(c)
                               \/ ClientCalmStep(c)
    BY <1>4 DEF ClientNext, ClientReacts, ClientCalmStep, ClientOnMatchFailed, ClientOnDenied,
       ClientSessionEnds, ClientDrains, ClientDetaches, ClientCrashes
  <2>3. CASE ClientStart(c)
    BY <1>1, <1>4, <2>1, <2>3, ClientStartKeeps
  <2>4. CASE ClientOnMatchSuccess(c)
    BY <1>1, <1>4, <2>1, <2>4, MatchSuccessKeeps
  <2>5. CASE ClientOnApproved(c)
    BY <1>1, <1>4, <2>1, <2>5, ApprovedKeeps
  <2>6. CASE ClientCalmStep(c)
    BY <1>1, <1>4, <2>1, <2>6, ClientStepsCalm, CalmKeeps
  <2> QED
    BY <2>2, <2>3, <2>4, <2>5, <2>6
<1>5. CASE UNCHANGED vars
  <2>1. /\ UNCHANGED <<link, toServer, toPeer, socketToSession, activeSessions>>
        /\ UNCHANGED <<approvalQueue, hostPc, clientPc, verdicts, settled, hostUp>>
    BY <1>5 DEF vars, channelVars, serverVars, rtcVars, hostVars
  <2>2. Rooms' /\ Running'
    BY <1>1, <2>1 DEF Rooms, Senders, Quiet, Registers, RoomsDistinct, Running
  <2>3. \A c \in Clients : Steady(c)
    BY <2>1 DEF Steady
  <2>4. \A c \in Clients : TokenOf(c)' /\ (Untold(c) => Untold(c)')
    BY <1>1, <2>3, SteadyKeeps DEF Token, TokenOf
  <2>5. \A c \in Clients : Asking(c)'
    BY <1>1, <2>1, <2>4, AskingSame DEF Token
  <2> QED
    BY <2>2, <2>4, <2>5 DEF Token, TokenOf
<1> QED
  BY <1>2, <1>3, <1>4, <1>5 DEF Next

(* Admission holds in every reachable state.                               *)
LEMMA AdmissionHolds == Spec => []Admission
<1>1. Admission /\ IInv' /\ [Next]_vars => Admission'
  BY AdmissionStep DEF Admission
<1> QED
  BY <1>1, InitAdmits, Invariance, PTL DEF Spec

-----------------------------------------------------------------------------
(* The rooms of the matchmaker are distinct: a session belongs to a host   *)
(* that is connected, and the code of a host leads to that host.           *)
THEOREM RoomsAreDistinct == Spec => []RoomsDistinct
<1>1. Admission => RoomsDistinct
  BY DEF Admission, Rooms
<1> QED
  BY <1>1, AdmissionHolds, PTL

(* A client is judged once: its knock is in one place of one queue, or it  *)
(* has its verdict.                                                        *)
THEOREM NoOneIsJudgedTwice == Spec => []OneVerdict
<1>1. Admission => OneVerdict
  <2> SUFFICES ASSUME Admission, NEW c \in Clients
               PROVE  Len(verdicts[c]) + Cardinality(Knocks(c)) <= 1
    BY DEF OneVerdict
  <2>1. /\ Judged(c) /\ \A h \in Hosts : Waiting(h, c)
        /\ \A h \in Hosts : approvalQueue[h] \in Seq(Clients)
    BY DEF Admission, Token, IInv, Types, HostTypeOK
  <2>2. Len(verdicts[c]) \in {0, 1} /\ (verdicts[c] = <<>> => Len(verdicts[c]) = 0)
    <3>1. verdicts[c] \in {<<>>, <<TRUE>>, <<FALSE>>}
      BY <2>1 DEF Judged
    <3>2. Len(<<>>) = 0 /\ Len(<<TRUE>>) = 1 /\ Len(<<FALSE>>) = 1
      OBVIOUS
    <3>3. CASE verdicts[c] = <<>>
      BY <3>2, <3>3
    <3>4. CASE verdicts[c] = <<TRUE>>
      BY <3>2, <3>4
    <3>5. CASE verdicts[c] = <<FALSE>>
      BY <3>2, <3>5
    <3> QED
      BY <3>1, <3>3, <3>4, <3>5
  <2>3. ASSUME NEW x \in Knocks(c)
        PROVE  \E h \in Hosts : \E i \in DOMAIN approvalQueue[h] :
                 x = <<h, i>> /\ approvalQueue[h][i] = c
    BY <2>3 DEF Knocks
  <2>4. ASSUME NEW x \in Knocks(c), NEW y \in Knocks(c)
        PROVE  x = y
    <3>1. PICK h \in Hosts : \E i \in DOMAIN approvalQueue[h] :
                               x = <<h, i>> /\ approvalQueue[h][i] = c
      BY <2>3
    <3>2. PICK i \in DOMAIN approvalQueue[h] : x = <<h, i>> /\ approvalQueue[h][i] = c
      BY <3>1
    <3>3. PICK g \in Hosts : \E j \in DOMAIN approvalQueue[g] :
                               y = <<g, j>> /\ approvalQueue[g][j] = c
      BY <2>3
    <3>4. PICK j \in DOMAIN approvalQueue[g] : y = <<g, j>> /\ approvalQueue[g][j] = c
      BY <3>3
    <3>5. ~Free(approvalQueue[g], {c})
      BY <3>4 DEF Free
    <3>6. ~Free(approvalQueue[h], {c})
      BY <3>2 DEF Free
    <3>7. g = h
      BY <2>1, <3>5, <3>6 DEF Waiting
    <3>8. ~(i < j) /\ ~(j < i)
      BY <2>1, <3>2, <3>4, <3>7 DEF Waiting, Orderly
    <3>9. i \in Nat /\ j \in Nat
      BY <2>1, <3>2, <3>4
    <3> QED
      BY <3>2, <3>4, <3>7, <3>8, <3>9
  <2>5. CASE Knocks(c) = {}
    <3>1. Cardinality(Knocks(c)) = 0
      BY <2>5, FS_EmptySet
    <3>2. \A n \in {0, 1} : n + 0 <= 1
      OBVIOUS
    <3> QED
      BY <2>2, <3>1, <3>2
  <2>6. CASE Knocks(c) # {}
    <3>1. PICK x : x \in Knocks(c)
      BY <2>6
    <3>2. Knocks(c) = {x}
      BY <2>4, <3>1
    <3>3. Cardinality(Knocks(c)) = 1
      BY <3>2, FS_Singleton
    <3>4. PICK h \in Hosts : \E i \in DOMAIN approvalQueue[h] : approvalQueue[h][i] = c
      BY <2>3, <3>1
    <3>5. verdicts[c] = <<>>
      BY <2>1, <3>4 DEF Waiting, Free
    <3> QED
      BY <2>2, <3>3, <3>5
  <2> QED
    BY <2>5, <2>6
<1> QED
  BY <1>1, AdmissionHolds, PTL

-----------------------------------------------------------------------------
(* The refinement: what each step of the programs is, seen from the        *)
(* abstract access control.                                                *)

LEMMA QueuedIs ==
  ASSUME NEW h, NEW c
  PROVE  c \in Queued(h) <=> ~Free(approvalQueue[h], {c})
  BY DEF Queued, Free

(* A calm step of a host ends it, or lets go of its one guest, or changes  *)
(* nothing that the abstract access control sees.                          *)
LEMMA CalmStepIs ==
  ASSUME IInv, Running, NEW h \in Hosts, HostCalmStep(h)
  PROVE  \/ hostUp[h] = "up" /\ Leaves(h)
         \/ /\ UNCHANGED <<hostUp, approvalQueue, verdicts>>
            /\ \/ \A g \in Hosts : Engaged(g)' = Engaged(g)
               \/ \A g \in Hosts : Engaged(g)' = IF g = h THEN {} ELSE Engaged(g)
<1>0. HostTypes
  BY DEF IInv, Types, HostTypes
<1>1. Leaves(h) => hostUp[h] = "up"
  BY DEF HostCalmStep, HostOnSignal, HostIgnores, OperatorActs, HostKeyUp, HostKeyDown,
     HostKeyEnter, HostKeyCtrlC, MovesTo, Picking, HostResumesExit, HostSuffers,
     HostSessionStarts, HostSessionCloses, HostNegotiationFails, HostShellExits,
     HostLosesSocket, HostDrains, HostCrashes, HostOffers, HostIdle, Running
<1>2. CASE ~Leaves(h)
  <2>1. UNCHANGED <<hostUp, approvalQueue, verdicts>>
    BY <1>0, <1>2, ExitsLeave DEF HostCalmStep, HostOnSignal, HostIgnores, OperatorActs, HostKeyUp, HostKeyDown,
       HostKeyEnter, HostKeyCtrlC, MovesTo, HostResumesExit, HostSuffers, HostSessionStarts,
       HostSessionCloses, HostNegotiationFails, HostShellExits, HostLosesSocket, HostDrains,
       HostCrashes, HostOffers, hostVars
  <2>2. \/ hostPc' = hostPc
        \/ \E c \in Clients :
             \/ hostPc[h][c] = "new" /\ hostPc' = [hostPc EXCEPT ![h][c] = "offered"]
             \/ hostPc[h][c] = "offered" /\ hostPc' = [hostPc EXCEPT ![h][c] = "open"]
             \/ c \in Engaged(h) /\ hostPc' = [hostPc EXCEPT ![h][c] = "closed"]
    BY <1>0, <1>2, ExitsLeave DEF HostCalmStep, HostOnSignal, HostIgnores, OperatorActs, HostKeyUp, HostKeyDown,
       HostKeyEnter, HostKeyCtrlC, MovesTo, HostResumesExit, HostSuffers, HostSessionStarts,
       HostSessionCloses, HostNegotiationFails, HostShellExits, HostLosesSocket, HostDrains,
       HostCrashes, HostAppliesSignal, HostMayOpen, HostOffers, HostSignalsOffer, rtcVars,
       Engaged, Live
  <2>3. CASE hostPc' = hostPc
    BY <2>1, <2>3 DEF Engaged
  <2>4. ASSUME NEW c \in Clients, NEW v \in {"offered", "open"}, hostPc[h][c] \in {"new", "offered"},
               hostPc' = [hostPc EXCEPT ![h][c] = v]
        PROVE  \A g \in Hosts : Engaged(g)' = Engaged(g)
    BY <2>4 DEF Engaged, Live, IInv, Types, RtcTypeOK
  <2>5. ASSUME NEW c \in Engaged(h), hostPc' = [hostPc EXCEPT ![h][c] = "closed"]
        PROVE  \A g \in Hosts : Engaged(g)' = IF g = h THEN {} ELSE Engaged(g)
    <3>1. Engaged(h) = {c}
      BY <2>5 DEF IInv, HostDiscipline, Locked
    <3>2. \A g \in Hosts, d \in Clients :
            hostPc'[g][d] = IF g = h /\ d = c THEN "closed" ELSE hostPc[g][d]
      BY <2>5 DEF IInv, Types, RtcTypeOK
    <3> QED
      BY <3>1, <3>2 DEF Engaged, Live
  <2> QED
    BY <2>1, <2>2, <2>3, <2>4, <2>5
<1> QED
  BY <1>1, <1>2

LEMMA RulingIs ==
  ASSUME IInv, Running, NEW h \in Hosts, NEW S \in SUBSET Clients, Ruling(h, S)
  PROVE  /\ hostUp[h] = "up" /\ Engaged(h) = {} /\ UNCHANGED hostUp
         /\ \A g \in Hosts : Queued(g)' = IF g = h THEN {} ELSE Queued(g)
         /\ \A g \in Hosts : Engaged(g)' = IF g = h THEN S ELSE Engaged(g)
         /\ verdicts' = [c \in Clients |-> IF c \in Queued(h) THEN Append(verdicts[c], c \in S)
                                           ELSE verdicts[c]]
<1>1. hostUp[h] = "up" /\ Engaged(h) = {} /\ UNCHANGED hostUp
  BY DEF Ruling, Running, IInv, HostDiscipline, Locked
<1>2. \A g \in Hosts : Queued(g)' = IF g = h THEN {} ELSE Queued(g)
  BY DEF Ruling, Queued, IInv, Types, HostTypeOK
<1>3. \A g \in Hosts, d \in Clients :
        hostPc'[g][d] = IF g = h /\ d \in S THEN "new" ELSE hostPc[g][d]
  BY DEF Ruling, IInv, Types, RtcTypeOK
<1>4. \A g \in Hosts : Engaged(g)' = IF g = h THEN S ELSE Engaged(g)
  BY <1>1, <1>3 DEF Engaged, Live
<1>5. verdicts' = [c \in Clients |-> IF c \in Queued(h) THEN Append(verdicts[c], c \in S)
                                     ELSE verdicts[c]]
  BY QueuedIs DEF Ruling
<1> QED
  BY <1>1, <1>2, <1>4, <1>5

(* A step of the programs is a step of the abstract access control, or     *)
(* changes nothing it sees.                                                *)
Sees == <<Serving, [h \in Hosts |-> Queued(h)], [h \in Hosts |-> Engaged(h)], verdicts>>

LEMMA NothingSeen ==
  ASSUME UNCHANGED <<hostUp, verdicts>>,
         \A h \in Hosts : Queued(h)' = Queued(h) /\ Engaged(h)' = Engaged(h)
  PROVE  Sees' = Sees
  BY DEF Sees, Serving

(* What serves, seen from the abstract access control.                     *)
LEMMA ServingIs ==
  /\ \A h \in Hosts : /\ hostUp[h] = "up" => Serving[h] = "up"
                      /\ hostUp[h] = "off" => Serving[h] = "off"
                      /\ hostUp'[h] = "up" => Serving'[h] = "up"
  /\ UNCHANGED hostUp => UNCHANGED Serving
  BY DEF Serving

LEMMA HostMaps ==
  ASSUME Admission, HostNext, UNCHANGED <<serverVars, clientVars>>
  PROVE  Access!Next \/ Sees' = Sees
<1>1. IInv /\ Types /\ Token /\ Running
  BY DEF Admission, IInv
<1>2. PICK h \in Hosts :
        \/ HostStart(h)
        \/ HostOnRequest(h)
        \/ HostCalmStep(h)
        \/ Ruling(h, {})
        \/ /\ settled[h].result \in Queued(h)
           /\ Ruling(h, {settled[h].result}) /\ settled[h].result \in Clients
  BY <1>1, HostStepIs
<1> DEFINE W == [g \in Hosts |-> Queued(g)]
           G == [g \in Hosts |-> Engaged(g)]
<1>3. CASE HostStart(h)
  <2>1. /\ hostUp[h] = "off" /\ hostUp' = [hostUp EXCEPT ![h] = "up"]
        /\ W' = W /\ G' = G /\ UNCHANGED verdicts
    BY <1>3 DEF HostStart, rtcVars, Queued, Engaged
  <2>0. Serving[h] = "off" /\ Serving' = [Serving EXCEPT ![h] = "up"]
    BY <1>1, <2>1 DEF Serving, Types, HostTypeOK
  <2>2. Access!Open(h)
    BY <2>0, <2>1 DEF Access!Open
  <2> QED
    BY <2>2 DEF Access!Next
<1>4. CASE HostOnRequest(h)
  <2>1. PICK c \in Clients :
          /\ Head(toPeer[h]) = ApprovalRequest(c)
          /\ Reads(h, "APPROVAL_REQUEST")
          /\ approvalQueue' = [approvalQueue EXCEPT ![h] = Append(approvalQueue[h], c)]
          /\ UNCHANGED <<hostUp, verdicts, hostPc>>
    BY <1>1, <1>4, RequestRead DEF rtcVars
  <2>2. ~Free(toPeer[h], {ApprovalRequest(c)})
    <3>1. toPeer[h] \in Seq(FramesToPeer) /\ toPeer[h] # <<>>
      BY <1>1, <2>1, HostIsPeer DEF Reads, Types, ChannelTypeOK
    <3> QED
      BY <2>1, <3>1, TailHolds
  <2>3. hostUp[h] = "up" /\ verdicts[c] = <<>> /\ \A g \in Hosts : c \notin W[g]
    BY <1>1, <1>4, <2>2, QueuedIs DEF HostOnRequest, HostIdle, Token, Knocking
  <2>4. \A g \in Hosts : Queued(g)' = IF g = h THEN Queued(h) \cup {c} ELSE Queued(g)
    <3>1. /\ approvalQueue[h] \in Seq(Clients)
          /\ \A g \in Hosts : approvalQueue'[g] = IF g = h THEN Append(approvalQueue[h], c)
                                                  ELSE approvalQueue[g]
      BY <1>1, <2>1 DEF Types, HostTypeOK
    <3>2. \A d : d \in Queued(h)' <=> d \in Queued(h) \cup {c}
      <4> SUFFICES ASSUME NEW d PROVE d \in Queued(h)' <=> d \in Queued(h) \cup {c}
        OBVIOUS
      <4>1. Free(Append(approvalQueue[h], c), {d}) <=> Free(approvalQueue[h], {d}) /\ c \notin {d}
        BY <3>1, AppendHolds
      <4>2. d \in Queued(h)' <=> ~Free(approvalQueue'[h], {d})
        BY DEF Queued, Free
      <4> QED
        BY <3>1, <4>1, <4>2, QueuedIs
    <3>3. \A g \in Hosts : g # h => Queued(g)' = Queued(g)
      BY <3>1 DEF Queued
    <3> QED
      BY <3>2, <3>3
  <2>5. W' = [W EXCEPT ![h] = @ \cup {c}] /\ G' = G
    BY <2>1, <2>4 DEF Engaged
  <2>6. Serving[h] = "up" /\ Serving' = Serving
    <3>1. Serving[h] = "up"
      BY <2>3 DEF Serving
    <3>2. Serving' = Serving
      BY <2>1 DEF Serving
    <3> QED
      BY <3>1, <3>2
  <2>7. Access!Ask(h, c)
    BY <2>1, <2>3, <2>5, <2>6 DEF Access!Ask
  <2> QED
    BY <2>7 DEF Access!Next
<1>5. CASE HostCalmStep(h)
  <2>1. CASE hostUp[h] = "up" /\ Leaves(h)
    <3>1. \A g \in Hosts : /\ Queued(g)' = IF g = h THEN {} ELSE Queued(g)
                           /\ Engaged(g)' = IF g = h THEN {} ELSE Engaged(g)
      <4>1. /\ approvalQueue' = [approvalQueue EXCEPT ![h] = <<>>]
            /\ hostPc' = [hostPc EXCEPT ![h] =
                            [c \in Clients |-> IF hostPc[h][c] = "none" THEN "none" ELSE "closed"]]
        BY <2>1 DEF Leaves, HostEnds
      <4>2. /\ approvalQueue \in [Hosts -> Seq(Clients)]
            /\ hostPc \in [Hosts -> [Clients -> HostPcStates]]
        BY <1>1 DEF Types, HostTypeOK, RtcTypeOK
      <4>3. \A g \in Hosts : Queued(g)' = IF g = h THEN {} ELSE Queued(g)
        BY <4>1, <4>2 DEF Queued
      <4>4. \A g \in Hosts : Engaged(g)' = IF g = h THEN {} ELSE Engaged(g)
        BY <4>1, <4>2 DEF Engaged, Live
      <4> QED
        BY <4>3, <4>4
    <3>2. /\ W' = [W EXCEPT ![h] = {}] /\ G' = [G EXCEPT ![h] = {}]
          /\ UNCHANGED verdicts
      <4>1. W' = [W EXCEPT ![h] = {}]
        BY <3>1
      <4>2. G' = [G EXCEPT ![h] = {}]
        BY <3>1
      <4>3. UNCHANGED verdicts
        BY <2>1 DEF Leaves, HostEnds
      <4> QED
        BY <4>1, <4>2, <4>3
    <3>3. Serving[h] = "up" /\ Serving' = [Serving EXCEPT ![h] = "exited"]
      <4>1. PICK how \in {"exited", "crashed"} : hostUp' = [hostUp EXCEPT ![h] = how]
        BY <2>1 DEF Leaves, HostEnds
      <4>2. \A g \in Hosts : hostUp'[g] = IF g = h THEN how ELSE hostUp[g]
        BY <1>1, <4>1 DEF Types, HostTypeOK
      <4> QED
        BY <2>1, <4>1, <4>2 DEF Serving
    <3>4. Access!Close(h)
      BY <3>2, <3>3 DEF Access!Close
    <3> QED
      BY <3>4 DEF Access!Next
  <2>2. ASSUME UNCHANGED <<hostUp, approvalQueue, verdicts>>
        PROVE  W' = W /\ \A g \in Hosts : Queued(g)' = Queued(g)
    BY <2>2 DEF Queued
  <2>3. CASE /\ UNCHANGED <<hostUp, approvalQueue, verdicts>>
             /\ \A g \in Hosts : Engaged(g)' = Engaged(g)
    BY <2>2, <2>3, NothingSeen
  <2>4. CASE /\ UNCHANGED <<hostUp, approvalQueue, verdicts>>
             /\ \A g \in Hosts : Engaged(g)' = IF g = h THEN {} ELSE Engaged(g)
    <3>1. W' = W /\ G' = [G EXCEPT ![h] = {}] /\ UNCHANGED <<hostUp, verdicts>>
      BY <2>2, <2>4
    <3>2. Access!Part(h)
      BY <3>1, ServingIs DEF Access!Part
    <3> QED
      BY <3>2 DEF Access!Next
  <2> QED
    BY <1>1, <1>5, <2>1, <2>3, <2>4, CalmStepIs
<1>6. ASSUME NEW S \in SUBSET Clients, Ruling(h, S)
      PROVE  /\ Access!Rule(h, S) /\ G[h] = {}
             /\ G' = [G EXCEPT ![h] = S]
  <2>1. /\ hostUp[h] = "up" /\ Engaged(h) = {} /\ UNCHANGED hostUp
        /\ \A g \in Hosts : Queued(g)' = IF g = h THEN {} ELSE Queued(g)
        /\ \A g \in Hosts : Engaged(g)' = IF g = h THEN S ELSE Engaged(g)
        /\ verdicts' = [c \in Clients |-> IF c \in Queued(h) THEN Append(verdicts[c], c \in S)
                                          ELSE verdicts[c]]
    BY <1>1, <1>6, RulingIs
  <2>2. W' = [W EXCEPT ![h] = {}] /\ G' = [G EXCEPT ![h] = S] /\ G[h] = {} /\ W[h] = Queued(h)
    BY <2>1
  <2> QED
    <3>1. Serving[h] = "up"
      BY <2>1 DEF Serving
    <3>2. Serving' = Serving
      BY <2>1 DEF Serving
    <3> QED
      BY <2>1, <2>2, <3>1, <3>2 DEF Access!Rule
<1>7. CASE Ruling(h, {})
  <2>1. {} \in SUBSET Clients
    OBVIOUS
  <2>2. Access!Rule(h, {}) /\ G[h] = {} /\ G' = [G EXCEPT ![h] = {}]
    BY <1>6, <1>7, <2>1
  <2>3. G' = G
    BY <2>2
  <2>4. Access!RefuseAll(h)
    BY <2>2, <2>3 DEF Access!RefuseAll
  <2> QED
    BY <2>4 DEF Access!Next
<1>8. ASSUME NEW c \in Clients, c \in Queued(h), Ruling(h, {c})
      PROVE  Access!Next
  <2>1. {c} \in SUBSET Clients
    OBVIOUS
  <2>2. Access!Rule(h, {c}) /\ G[h] = {} /\ G' = [G EXCEPT ![h] = {c}] /\ c \in W[h]
    BY <1>6, <1>8, <2>1
  <2>3. Access!Admit(h, c)
    BY <2>2 DEF Access!Admit
  <2> QED
    BY <2>3 DEF Access!Next
<1> QED
  BY <1>2, <1>3, <1>4, <1>5, <1>7, <1>8

LEMMA OthersMap ==
  ASSUME UNCHANGED <<hostVars, hostPc>>
  PROVE  Sees' = Sees
<1>1. \A h \in Hosts : Queued(h)' = Queued(h) /\ Engaged(h)' = Engaged(h)
  BY DEF hostVars, Queued, Engaged
<1> QED
  BY <1>1, NothingSeen DEF hostVars

LEMMA StepsMap ==
  ASSUME Admission, [Next]_vars
  PROVE  Access!Next \/ Sees' = Sees
<1>1. CASE ServerNext /\ UNCHANGED <<rtcVars, hostVars, clientVars>>
  BY <1>1, OthersMap DEF rtcVars
<1>2. CASE HostNext /\ UNCHANGED <<serverVars, clientVars>>
  BY <1>2, HostMaps
<1>3. CASE ClientNext /\ UNCHANGED <<serverVars, hostVars>>
  BY <1>3, OthersMap, ClientUsesChannels
<1>4. CASE UNCHANGED vars
  BY <1>4, OthersMap DEF vars, rtcVars
<1> QED
  BY <1>1, <1>2, <1>3, <1>4 DEF Next

LEMMA InitMaps == Init => Access!Init
<1> SUFFICES ASSUME Init PROVE Access!Init
  OBVIOUS
<1>1. \A h \in Hosts : Queued(h) = {} /\ Engaged(h) = {}
  BY DEF Init, HostInit, RtcInit, Queued, Engaged, Live
<1> QED
  BY <1>1 DEF Init, HostInit, Serving, Access!Init

(* The three programs implement the abstract access control: whatever is   *)
(* lost, broadcast or late, a host rules on its whole queue at once, on a  *)
(* client that asked it and no one before, and only while it has no guest. *)
THEOREM ProgramsControlAccess == Spec => ImplementsAccessControl
<1>1. Admission /\ [Next]_vars => [Access!Next]_(Access!accessVars)
  BY StepsMap DEF Sees, Access!accessVars
<1> QED
  BY <1>1, InitMaps, AdmissionHolds, PTL DEF Spec, ImplementsAccessControl, Access!Spec

(* A knock leaves the queue of a host that stays up only with a verdict:   *)
(* no one is dropped silently, whatever becomes of the lobby.              *)
THEOREM NoKnockIsDropped == Spec => NoSilentDrop
<1>1. ASSUME Admission, [Next]_vars, NEW h \in Hosts, NEW c \in Clients,
             c \in Queued(h), c \notin Queued(h)', hostUp'[h] = "up"
      PROVE  verdicts'[c] # verdicts[c]
  <2> DEFINE W == [g \in Hosts |-> Queued(g)]
  <2>1. c \in W[h] /\ c \notin W'[h] /\ verdicts[c] \in Seq(BOOLEAN)
        /\ Serving \in [Hosts -> {"off", "up", "exited"}] /\ Serving'[h] = "up"
    BY <1>1, ServingIs DEF Admission, Serving, IInv, Types, HostTypeOK
  <2>2. Access!Next
    BY <1>1, <2>1, StepsMap DEF Sees
  <2>3. PICK g \in Hosts, S \in SUBSET Clients : Access!Rule(g, S) /\ W'[h] # W[h]
    <3>1. PICK g \in Hosts :
            \/ Access!Open(g) \/ Access!RefuseAll(g) \/ Access!Part(g) \/ Access!Close(g)
            \/ \E d \in Clients : Access!Ask(g, d) \/ Access!Admit(g, d)
      BY <2>2 DEF Access!Next
    <3>2. ~Access!Open(g) /\ ~Access!Part(g)
      BY <2>1 DEF Access!Open, Access!Part
    <3>3. ~\E d \in Clients : Access!Ask(g, d)
      BY <2>1 DEF Access!Ask
    <3>4. ~Access!Close(g)
      BY <1>1, <2>1 DEF Access!Close
    <3>5. {} \in SUBSET Clients /\ \A d \in Clients : {d} \in SUBSET Clients
      OBVIOUS
    <3>6. \E S \in SUBSET Clients : Access!Rule(g, S)
      BY <3>1, <3>2, <3>3, <3>4, <3>5 DEF Access!RefuseAll, Access!Admit
    <3> QED
      BY <2>1, <3>6
  <2>4. g = h
    BY <2>3 DEF Access!Rule
  <2>5. verdicts'[c] = Append(verdicts[c], c \in S)
    BY <2>1, <2>3, <2>4 DEF Access!Rule
  <2>6. \A s \in Seq(BOOLEAN) : \A x : Len(Append(s, x)) # Len(s)
    OBVIOUS
  <2> QED
    BY <2>1, <2>5, <2>6
<1>2. Admission /\ [Next]_vars =>
        [\A h \in Hosts, c \in Clients :
           (c \in Queued(h) /\ c \notin Queued(h)' /\ hostUp'[h] = "up")
             => verdicts'[c] # verdicts[c]]_vars
  BY <1>1
<1> QED
  BY <1>2, AdmissionHolds, PTL DEF Spec, NoSilentDrop

-----------------------------------------------------------------------------
(* Who a session is with, when no code is issued twice.  The host that     *)
(* judged a client is the host of the client's room; the offers other      *)
(* clients of the room see never reach a client that would take one for its *)
(* own, since between its selection and its acceptance of an offer its host *)
(* has no other guest, and what the host wrote stays in order.              *)

(* Host h has c's request, and c in its queue or judged.                   *)
Involved(h, c) ==
  \/ ~Free(toPeer[h], {ApprovalRequest(c)})
  \/ ~Free(approvalQueue[h], {c})
  \/ hostPc[h][c] # "none"

(* Whoever is in a room has a code that was issued; a room a client is in  *)
(* is the one it entered; and only the host of that room hears of it.      *)
Matched ==
  /\ \A k \in Codes : activeSessions[k] # None => k \in issued
  /\ \A c \in Clients : socketToSession[c] # None => socketToSession[c] \in issued
  /\ RoomDiesWithHost
  /\ \A h \in Hosts, c \in Clients : Involved(h, c) => matchedHost[c] \in {h, None}

-----------------------------------------------------------------------------
(* No step of a host or a client involves a host that was not.             *)

LEMMA SteadyInvolves ==
  ASSUME NEW c \in Clients, Steady(c), NEW h \in Hosts, Involved(h, c)'
  PROVE  Involved(h, c)
  BY DEF Steady, Involved

LEMMA QuietlyMatched ==
  ASSUME Matched, UNCHANGED serverVars,
         \A h \in Hosts, c \in Clients : Involved(h, c)' => Involved(h, c)
  PROVE  Matched'
  BY DEF Matched, RoomDiesWithHost, serverVars

(* What a host, a client or no one at all does.                            *)
LEMMA HostStepKinds ==
  ASSUME Admission, HostNext, UNCHANGED <<serverVars, clientVars>>
  PROVE  \/ Calm
         \/ \E h \in Hosts :
              \/ HostStart(h)
              \/ HostOnRequest(h)
              \/ \E S \in SUBSET Clients : Ruling(h, S)
<1>1. IInv /\ Types /\ Token
  BY DEF Admission, IInv
<1>2. {} \in SUBSET Clients /\ \A c \in Clients : {c} \in SUBSET Clients
  OBVIOUS
<1>3. PICK h \in Hosts : HostStart(h) \/ HostOnRequest(h) \/ HostCalmStep(h)
                           \/ \E S \in SUBSET Clients : Ruling(h, S)
  BY <1>1, <1>2, HostStepIs
<1> QED
  BY <1>1, <1>3, HostStepsCalm

LEMMA ClientStepKinds ==
  ASSUME ClientNext
  PROVE  \E c \in Clients : \/ ClientStart(c)
                            \/ ClientOnMatchSuccess(c)
                            \/ ClientOnApproved(c)
                            \/ ClientCalmStep(c)
  BY DEF ClientNext, ClientReacts, ClientCalmStep, ClientOnMatchFailed, ClientOnDenied,
     ClientSessionEnds, ClientDrains, ClientDetaches, ClientCrashes

LEMMA HostStartSteady ==
  ASSUME Types, NEW h \in Hosts, HostStart(h), UNCHANGED serverVars
  PROVE  \A c \in Clients : Steady(c)
<1>1. HostRegister \in FramesToServer \ Responses
  BY FramesTyped, FramesDiffer DEF Forwarded
<1>2. Connect(h, HostRegister) /\ UNCHANGED <<approvalQueue, hostPc, clientPc, verdicts>>
  BY DEF HostStart, rtcVars
<1> QED
  BY <1>1, <1>2, ConnectSteady, HostIsPeer

LEMMA ClientStartSteady ==
  ASSUME Types, NEW d \in Clients, ClientStart(d), UNCHANGED <<serverVars, hostVars>>
  PROVE  \A c \in Clients : Steady(c)
<1>1. PICK k \in Codes : Connect(d, ClientLookup(k))
  BY DEF ClientStart
<1>2. ClientLookup(k) \in FramesToServer \ Responses
  BY FramesTyped, FramesAre, FramesDiffer DEF Forwarded
<1> QED
  BY <1>1, <1>2, ConnectSteady, ClientIsPeer DEF ClientStart, rtcVars, hostVars

LEMMA MatchSuccessSteady ==
  ASSUME Types, NEW d \in Clients, ClientOnMatchSuccess(d), UNCHANGED <<serverVars, hostVars>>
  PROVE  \A c \in Clients : Steady(c)
<1>1. ApprovalRequest(d) \in FramesToServer \ Responses
  BY FramesTyped, FramesAre, FramesDiffer
<1>2. \A q \in Peers : toServer'[q] \in {toServer[q], toServer[q] \o <<ApprovalRequest(d)>>}
  BY ClientIsPeer DEF ClientOnMatchSuccess, Written, Types, ChannelTypeOK
<1>3. \A q \in Peers : Less(toPeer'[q], toPeer[q])
  BY ClientIsPeer DEF ClientOnMatchSuccess, Reads, Less, Types, ChannelTypeOK
<1> QED
  BY <1>1, <1>2, <1>3, WritingIsSteady, ClientIsPeer
  DEF ClientOnMatchSuccess, rtcVars, hostVars

LEMMA PeersInvolve ==
  ASSUME Admission,
         \/ HostNext /\ UNCHANGED <<serverVars, clientVars>>
         \/ ClientNext /\ UNCHANGED <<serverVars, hostVars>>,
         NEW g \in Hosts, NEW c \in Clients, Involved(g, c)'
  PROVE  Involved(g, c)
<1>1. Types /\ OffersNamed
  BY DEF Admission, IInv
<1>2. CASE Calm \/ Steady(c)
  BY <1>1, <1>2, CalmIsSteady, SteadyInvolves
<1>3. ASSUME NEW h \in Hosts, HostOnRequest(h)
      PROVE  Involved(g, c)
  <2>1. PICK d \in Clients :
          /\ Head(toPeer[h]) = ApprovalRequest(d)
          /\ Reads(h, "APPROVAL_REQUEST")
          /\ approvalQueue' = [approvalQueue EXCEPT ![h] = Append(approvalQueue[h], d)]
          /\ UNCHANGED rtcVars
    BY <1>1, <1>3, RequestRead
  <2>2. /\ toPeer[h] \in Seq(FramesToPeer) /\ toPeer[h] # <<>>
        /\ approvalQueue[h] \in Seq(Clients)
    BY <1>1, <2>1, HostIsPeer DEF Types, ChannelTypeOK, HostTypeOK, Reads
  <2>3. Free(toPeer[h], {ApprovalRequest(d)}) => Head(toPeer[h]) \notin {ApprovalRequest(d)}
    BY <2>2, TailHolds
  <2>4. Free(Append(approvalQueue[h], d), {c}) <=> Free(approvalQueue[h], {c}) /\ d \notin {c}
    BY <2>2, AppendHolds
  <2>5. Free(toPeer[g], {ApprovalRequest(c)}) => Free(toPeer'[g], {ApprovalRequest(c)})
    BY <1>1, <2>1, ReadingHolds, HostIsPeer
  <2>6. CASE g = h /\ d = c
    BY <2>1, <2>3, <2>6 DEF Involved
  <2>7. CASE ~(g = h /\ d = c)
    <3>1. Free(approvalQueue[g], {c}) => Free(approvalQueue'[g], {c})
      BY <1>1, <2>1, <2>4, <2>7 DEF Types, HostTypeOK
    <3> QED
      BY <1>3, <2>1, <2>5, <3>1 DEF Involved, rtcVars
  <2> QED
    BY <2>6, <2>7
<1>4. ASSUME NEW h \in Hosts, NEW S \in SUBSET Clients, Ruling(h, S)
      PROVE  Involved(g, c)
  <2>1. Free(approvalQueue[g], {c}) => Free(approvalQueue'[g], {c})
    BY <1>1, <1>4, EmptyHolds DEF Ruling, Types, HostTypeOK
  <2>2. hostPc'[g][c] # "none" => hostPc[g][c] # "none" \/ ~Free(approvalQueue[g], {c})
    BY <1>1, <1>4 DEF Ruling, Types, RtcTypeOK
  <2> QED
    BY <1>4, <2>1, <2>2 DEF Involved, Ruling
<1>5. ASSUME NEW d \in Clients, ClientOnApproved(d), UNCHANGED hostVars
      PROVE  Involved(g, c)
  <2>1. Free(toPeer[g], {ApprovalRequest(c)}) => Free(toPeer'[g], {ApprovalRequest(c)})
    BY <1>1, <1>5, ReadingHolds, HostIsPeer, ClientIsPeer DEF ClientOnApproved
  <2> QED
    BY <1>5, <2>1 DEF Involved, ClientOnApproved, hostVars
<1>6. CASE HostNext /\ UNCHANGED <<serverVars, clientVars>>
  BY <1>1, <1>2, <1>3, <1>4, <1>6, HostStepKinds, HostStartSteady
<1>7. CASE ClientNext /\ UNCHANGED <<serverVars, hostVars>>
  <2>1. PICK d \in Clients : \/ ClientStart(d)
                             \/ ClientOnMatchSuccess(d)
                             \/ ClientOnApproved(d)
                             \/ ClientCalmStep(d)
    BY <1>7, ClientStepKinds
  <2> QED
    BY <1>1, <1>2, <1>5, <1>7, <2>1, ClientStartSteady, MatchSuccessSteady, ClientStepsCalm
<1> QED
  BY <1>6, <1>7

-----------------------------------------------------------------------------
(* The matchmaker leads a client to the host of its room only.             *)

LEMMA ServingInvolves ==
  ASSUME Types, NEW s \in Peers, NEW m, NEW n \in FramesToPeer \ Requests, Serves(s, m, n),
         UNCHANGED <<rtcVars, hostVars>>,
         NEW h \in Hosts, NEW c \in Clients, Involved(h, c)'
  PROVE  Involved(h, c)
<1>1. toPeer[h] \in Seq(FramesToPeer) /\ n \notin {ApprovalRequest(c)} /\ h \in Peers
  BY FramesAre, HostIsPeer DEF Types, ChannelTypeOK
<1>2. Free(toPeer[h], {ApprovalRequest(c)}) => Free(Append(toPeer[h], n), {ApprovalRequest(c)})
  BY <1>1, AppendHolds
<1> QED
  BY <1>1, <1>2 DEF Serves, Involved, rtcVars, hostVars

LEMMA RegisterMatches ==
  ASSUME ~ReissueCodes, Admission, Matched, NEW s \in Peers, HandleHostRegister(s),
         UNCHANGED <<rtcVars, hostVars, clientVars>>
  PROVE  Matched'
<1>0. Types /\ Rooms
  BY DEF Admission, IInv
<1>1. PICK k \in Codes :
        /\ FreeCode(k)
        /\ activeSessions' =
             [activeSessions EXCEPT ![k] = [hostSocket |-> s, clientSocket |-> None]]
        /\ socketToSession' = [socketToSession EXCEPT ![s] = k]
        /\ toPeer' = Sent({s}, HostRegistered(k))
        /\ issued' = issued \cup {k}
        /\ matchedHost' = matchedHost
  BY DEF HandleHostRegister
<1>2. /\ Receives(s, HostRegister) /\ s \notin Clients
      /\ Serves(s, HostRegister, HostRegistered(k))
  <2>1. Receives(s, HostRegister)
    BY DEF HandleHostRegister
  <2> QED
    BY <1>0, <1>1, <2>1, SendersAre, PeersAssumption DEF Serves, Sent, Types, ChannelTypeOK
<1>3. HostRegistered(k) \in FramesToPeer \ Requests
  BY FramesTyped, FramesDiffer DEF Forwarded
<1>4. k \notin issued
  BY <1>1 DEF FreeCode
<1>5. \A c \in Clients : socketToSession'[c] = socketToSession[c]
  BY <1>0, <1>1, <1>2, ClientIsPeer DEF Types, ServerTypeOK
<1>6. \A l \in Codes : l # k => activeSessions'[l] = activeSessions[l]
  BY <1>0, <1>1 DEF Types, ServerTypeOK
<1>7. RoomDiesWithHost'
  <2> SUFFICES ASSUME NEW c \in Clients, socketToSession[c] # None,
                      activeSessions'[socketToSession[c]] # None
               PROVE  activeSessions'[socketToSession[c]].hostSocket = matchedHost[c]
    BY <1>1, <1>5 DEF RoomDiesWithHost
  <2>1. socketToSession[c] \in issued /\ socketToSession[c] \in Codes
    BY <1>0, ClientIsPeer DEF Matched, Types, ServerTypeOK
  <2>2. activeSessions'[socketToSession[c]] = activeSessions[socketToSession[c]]
    BY <1>4, <1>6, <2>1
  <2> QED
    BY <2>2 DEF Matched, RoomDiesWithHost
<1>8. \A h \in Hosts, c \in Clients : Involved(h, c)' => Involved(h, c)
  BY <1>0, <1>2, <1>3, ServingInvolves
<1>9. \A l \in Codes : activeSessions'[l] # None => l \in issued'
  BY <1>1, <1>6 DEF Matched
<1> QED
  BY <1>1, <1>5, <1>7, <1>8, <1>9 DEF Matched

LEMMA LookupMatches ==
  ASSUME Admission, Matched, NEW s \in Peers, HandleClientLookup(s),
         UNCHANGED <<rtcVars, hostVars, clientVars>>
  PROVE  Matched'
<1>0. Types /\ Rooms /\ Token
  BY DEF Admission, IInv
<1>1. PICK k \in Codes, n \in {MatchSuccess, MatchFailed} :
        /\ Receives(s, ClientLookup(k))
        /\ toPeer' = Sent({s}, n)
        /\ \/ UNCHANGED <<socketToSession, matchedHost>>
           \/ /\ activeSessions[k] # None
              /\ socketToSession' = [socketToSession EXCEPT ![s] = k]
              /\ matchedHost' = [matchedHost EXCEPT ![s] = activeSessions[k].hostSocket]
        /\ UNCHANGED <<activeSessions, issued>>
  BY DEF HandleClientLookup
<1>2. /\ n \in FramesToPeer \ Requests /\ s \in Clients
      /\ Serves(s, ClientLookup(k), n)
      /\ ~Free(toServer[s], {ClientLookup(k)})
  <2>1. ClientLookup(k) \in Lookups /\ n \in FramesToPeer \ Requests
    BY FramesAre, FramesDiffer, FramesTyped DEF Forwarded
  <2> QED
    BY <1>0, <1>1, <2>1, SendersAre, ReceivingHolds DEF Serves, Sent, Types, ChannelTypeOK
<1>3. \A h \in Hosts : ~Involved(h, s)
  <2>1. Untold(s)
    BY <1>0, <1>2 DEF Token, Asking
  <2> QED
    BY <2>1 DEF Untold, Involved
<1>4. \A h \in Hosts, c \in Clients : Involved(h, c)' => Involved(h, c)
  BY <1>0, <1>2, ServingInvolves
<1>5. CASE UNCHANGED <<socketToSession, matchedHost>>
  BY <1>1, <1>4, <1>5 DEF Matched, RoomDiesWithHost
<1>6. CASE /\ activeSessions[k] # None
           /\ socketToSession' = [socketToSession EXCEPT ![s] = k]
           /\ matchedHost' = [matchedHost EXCEPT ![s] = activeSessions[k].hostSocket]
  <2>1. /\ socketToSession'[s] = k /\ matchedHost'[s] = activeSessions[k].hostSocket
        /\ \A c \in Clients : c # s =>
             socketToSession'[c] = socketToSession[c] /\ matchedHost'[c] = matchedHost[c]
    BY <1>0, <1>2, <1>6, ClientIsPeer DEF Types, ServerTypeOK
  <2>2. RoomDiesWithHost'
    BY <1>1, <1>6, <2>1 DEF Matched, RoomDiesWithHost
  <2>3. \A c \in Clients : socketToSession'[c] # None => socketToSession'[c] \in issued
    BY <1>6, <2>1 DEF Matched
  <2>4. \A h \in Hosts, c \in Clients : Involved(h, c)' => matchedHost'[c] \in {h, None}
    BY <1>3, <1>4, <2>1 DEF Matched
  <2> QED
    BY <1>1, <2>2, <2>3, <2>4 DEF Matched
<1> QED
  BY <1>1, <1>5, <1>6

(* A frame of client s reaches no host but the one it looked up; and       *)
(* frames of a host reach the clients that looked its code up.             *)
LEMMA MatesMatch ==
  ASSUME Types, RoomsDistinct, RoomDiesWithHost, NEW h \in Hosts, NEW c \in Clients,
         h \in RoomMates(c) \/ c \in RoomMates(h)
  PROVE  matchedHost[c] = h
<1>1. /\ socketToSession[h] # None /\ socketToSession[c] = socketToSession[h]
      /\ activeSessions[socketToSession[h]] # None
  BY DEF RoomMates
<1>2. activeSessions[socketToSession[h]].hostSocket = h
  BY <1>1 DEF RoomsDistinct
<1> QED
  BY <1>1, <1>2 DEF RoomDiesWithHost

LEMMA ForwardMatches ==
  ASSUME Admission, Matched, NEW s \in Peers, HandleForward(s),
         UNCHANGED <<rtcVars, hostVars, clientVars>>
  PROVE  Matched'
<1>0. Types /\ Rooms
  BY DEF Admission, IInv
<1>1. PICK m \in Forwarded :
        /\ Serves(s, m, m) /\ m \in FramesToPeer
        /\ toPeer' = Sent(RoomMates(s), m)
        /\ UNCHANGED <<link, activeSessions, socketToSession, issued, matchedHost>>
  BY <1>0, ForwardIs
<1>2. ASSUME NEW h \in Hosts, NEW c \in Clients, Involved(h, c)'
      PROVE  matchedHost[c] \in {h, None}
  <2>1. CASE Involved(h, c)
    BY <2>1 DEF Matched
  <2>2. CASE ~Involved(h, c)
    <3>1. Free(toPeer[h], {ApprovalRequest(c)}) /\ ~Free(toPeer'[h], {ApprovalRequest(c)})
      BY <1>2, <2>2 DEF Involved, rtcVars, hostVars
    <3>2. toPeer[h] \in Seq(FramesToPeer) /\ toPeer'[h] = Append(toPeer[h], m) /\ h \in RoomMates(s)
      BY <1>0, <1>1, <3>1, HostIsPeer DEF Sent, Types, ChannelTypeOK
    <3>3. Free(Append(toPeer[h], m), {ApprovalRequest(c)})
            <=> Free(toPeer[h], {ApprovalRequest(c)}) /\ m \notin {ApprovalRequest(c)}
      BY <1>1, <3>2, AppendHolds
    <3>4. m = ApprovalRequest(c)
      BY <3>1, <3>2, <3>3
    <3>5. c = s
      BY <1>0, <1>1, <3>4, SendersAre DEF Serves
    <3> QED
      BY <1>0, <3>2, <3>5, MatesMatch DEF Rooms, Matched
  <2> QED
    BY <2>1, <2>2
<1> QED
  BY <1>1, <1>2 DEF Matched, RoomDiesWithHost

LEMMA CloseMatches ==
  ASSUME Admission, Matched, NEW s \in Peers, HandleClose(s),
         UNCHANGED <<rtcVars, hostVars, clientVars>>
  PROVE  Matched'
<1>0. Types /\ NoSeats
  BY DEF Admission, IInv
<1> DEFINE k == socketToSession[s]
<1>1. ~SitsIn(s, k) \/ k = None
  <2>1. k # None => k \in Codes
    BY <1>0 DEF Types, ServerTypeOK
  <2>2. s # None
    BY NoneIsNoPeer
  <2> QED
    BY <1>0, <2>1, <2>2 DEF SitsIn, NoSeats
<1>2. /\ activeSessions' \in {activeSessions, [activeSessions EXCEPT ![k] = None]}
      /\ socketToSession' = [socketToSession EXCEPT ![s] = None]
      /\ matchedHost' = [c \in Clients |-> IF c = s THEN None ELSE matchedHost[c]]
      /\ UNCHANGED <<toPeer, issued>>
  BY <1>1 DEF HandleClose
<1> HIDE DEF k
<1>3. \A l \in Codes : activeSessions'[l] \in {activeSessions[l], None}
  BY <1>0, <1>2 DEF Types, ServerTypeOK
<1>4. \A c \in Clients : /\ c = s => socketToSession'[c] = None /\ matchedHost'[c] = None
                         /\ c # s => /\ socketToSession'[c] = socketToSession[c]
                                     /\ matchedHost'[c] = matchedHost[c]
                         /\ socketToSession[c] # None => socketToSession[c] \in Codes
  BY <1>0, <1>2, ClientIsPeer DEF Types, ServerTypeOK
<1>5. RoomDiesWithHost'
  BY <1>3, <1>4 DEF Matched, RoomDiesWithHost
<1>6. \A h \in Hosts, c \in Clients : Involved(h, c)' <=> Involved(h, c)
  BY <1>2 DEF Involved, rtcVars, hostVars
<1>7. \A h \in Hosts, c \in Clients : Involved(h, c)' => matchedHost'[c] \in {h, None}
  BY <1>4, <1>6 DEF Matched
<1> QED
  BY <1>2, <1>3, <1>4, <1>5, <1>7 DEF Matched

LEMMA RestartMatches ==
  ASSUME Matched, ServerRestart, UNCHANGED <<rtcVars, hostVars, clientVars>>
  PROVE  Matched'
<1>1. /\ \A k \in Codes : activeSessions'[k] = None
      /\ \A c \in Clients : socketToSession'[c] = None /\ matchedHost'[c] = None
  BY ClientIsPeer DEF ServerRestart
<1> QED
  BY <1>1 DEF Matched, RoomDiesWithHost

LEMMA InitMatched == Init => Matched
  BY DEF Init, ChannelInit, ServerInit, RtcInit, HostInit, Matched, RoomDiesWithHost, Involved,
     Free, Peers

LEMMA MatchedStep ==
  ASSUME ~ReissueCodes, Admission, Matched, [Next]_vars
  PROVE  Matched'
<1>1. CASE ServerNext /\ UNCHANGED <<rtcVars, hostVars, clientVars>>
  BY <1>1, RegisterMatches, LookupMatches, ForwardMatches, CloseMatches, RestartMatches
  DEF ServerNext, ServerHandles
<1>2. CASE HostNext /\ UNCHANGED <<serverVars, clientVars>>
  BY <1>2, PeersInvolve, QuietlyMatched
<1>3. CASE ClientNext /\ UNCHANGED <<serverVars, hostVars>>
  BY <1>3, PeersInvolve, QuietlyMatched
<1>4. CASE UNCHANGED vars
  BY <1>4, QuietlyMatched DEF vars, channelVars, rtcVars, hostVars, Involved
<1> QED
  BY <1>1, <1>2, <1>3, <1>4 DEF Next

LEMMA MatchedHolds ==
  ASSUME ~ReissueCodes
  PROVE  Spec => []Matched
<1>1. Admission /\ Matched /\ [Next]_vars => Matched'
  BY MatchedStep
<1> QED
  BY <1>1, InitMatched, AdmissionHolds, PTL DEF Spec

-----------------------------------------------------------------------------
(* With codes that come back a client may outlive its host in a room that  *)
(* is another host's by then; not as long as the server has the socket of  *)
(* the host whose code it looked up.                                       *)
Kept ==
  /\ HostKeepsItsClients
  /\ \A c \in Clients : matchedHost[c] # None => link[matchedHost[c]] # "new"
  /\ \A h \in Hosts, c \in Clients : Involved(h, c) =>
       matchedHost[c] \in {h, None} \/ link[matchedHost[c]] = "closed"

LEMMA QuietlyKept ==
  ASSUME Types, Kept, UNCHANGED serverVars,
         \A p \in Peers : /\ link'[p] \in {"open", "closing"} => link[p] \in {"new", "open", "closing"}
                          /\ link'[p] = "new" => link[p] = "new"
                          /\ link[p] = "closed" => link'[p] = "closed",
         \A h \in Hosts, c \in Clients : Involved(h, c)' => Involved(h, c)
  PROVE  Kept'
<1>1. \A c \in Clients : matchedHost[c] \in Peers \cup {None}
  BY DEF Types, ServerTypeOK
<1>2. HostKeepsItsClients'
  <2> SUFFICES ASSUME NEW c \in Clients, matchedHost[c] # None,
                      link'[matchedHost[c]] \in {"open", "closing"}
               PROVE  /\ socketToSession[c] # None /\ activeSessions[socketToSession[c]] # None
                      /\ activeSessions[socketToSession[c]].hostSocket = matchedHost[c]
    BY DEF HostKeepsItsClients, serverVars
  <2>1. link[matchedHost[c]] \in {"open", "closing"}
    BY <1>1 DEF Kept
  <2> QED
    BY <2>1 DEF Kept, HostKeepsItsClients
<1>3. \A c \in Clients : matchedHost'[c] # None => link'[matchedHost'[c]] # "new"
  BY <1>1 DEF Kept, serverVars
<1>4. \A h \in Hosts, c \in Clients : Involved(h, c)' =>
        matchedHost'[c] \in {h, None} \/ link'[matchedHost'[c]] = "closed"
  BY <1>1 DEF Kept, serverVars
<1> QED
  BY <1>2, <1>3, <1>4 DEF Kept

(* A peer connects once, and what it has closed stays closed.              *)
LEMMA LinksAdvance ==
  ASSUME Admission,
         \/ HostNext /\ UNCHANGED <<serverVars, clientVars>>
         \/ ClientNext /\ UNCHANGED <<serverVars, hostVars>>,
         NEW p \in Peers
  PROVE  /\ link'[p] \in {"open", "closing"} => link[p] \in {"new", "open", "closing"}
         /\ link'[p] = "new" => link[p] = "new"
         /\ link[p] = "closed" => link'[p] = "closed"
<1>1. Types /\ OffersNamed
  BY DEF Admission, IInv
<1>2. CASE Calm
  BY <1>2 DEF Calm
<1>3. CASE UNCHANGED link
  BY <1>3
<1>4. ASSUME NEW q \in Peers, NEW f, Connect(q, f)
      PROVE  link'[p] = link[p] \/ (link[p] = "new" /\ link'[p] = "open")
  BY <1>1, <1>4 DEF Connect, Types, ChannelTypeOK
<1>5. CASE HostNext /\ UNCHANGED <<serverVars, clientVars>>
  <2>1. ASSUME NEW h \in Hosts, HostStart(h)
        PROVE  link'[p] = link[p] \/ (link[p] = "new" /\ link'[p] = "open")
    BY <1>4, <2>1, HostIsPeer DEF HostStart
  <2>2. \A h \in Hosts : HostOnRequest(h) => UNCHANGED link
    BY DEF HostOnRequest
  <2>3. \A h \in Hosts, S \in SUBSET Clients : Ruling(h, S) => UNCHANGED link
    BY DEF Ruling
  <2> QED
    BY <1>2, <1>3, <1>5, <2>1, <2>2, <2>3, HostStepKinds
<1>6. CASE ClientNext /\ UNCHANGED <<serverVars, hostVars>>
  <2>1. PICK d \in Clients : \/ ClientStart(d)
                             \/ ClientOnMatchSuccess(d)
                             \/ ClientOnApproved(d)
                             \/ ClientCalmStep(d)
    BY <1>6, ClientStepKinds
  <2>2. CASE ClientStart(d)
    BY <1>4, <2>2, ClientIsPeer DEF ClientStart
  <2>3. CASE ClientOnMatchSuccess(d) \/ ClientOnApproved(d)
    BY <1>3, <2>3 DEF ClientOnMatchSuccess, ClientOnApproved
  <2> QED
    BY <1>1, <1>2, <1>6, <2>1, <2>2, <2>3, ClientStepsCalm
<1> QED
  BY <1>5, <1>6

LEMMA RegisterKept ==
  ASSUME Admission, Kept, NEW s \in Peers, HandleHostRegister(s),
         UNCHANGED <<rtcVars, hostVars, clientVars>>
  PROVE  Kept'
<1>0. Types /\ Rooms
  BY DEF Admission, IInv
<1>1. PICK k \in Codes :
        /\ FreeCode(k)
        /\ activeSessions' =
             [activeSessions EXCEPT ![k] = [hostSocket |-> s, clientSocket |-> None]]
        /\ socketToSession' = [socketToSession EXCEPT ![s] = k]
        /\ toPeer' = Sent({s}, HostRegistered(k))
        /\ matchedHost' = matchedHost
  BY DEF HandleHostRegister
<1>2. /\ Receives(s, HostRegister) /\ s \notin Clients
      /\ Serves(s, HostRegister, HostRegistered(k))
  <2>1. Receives(s, HostRegister)
    BY DEF HandleHostRegister
  <2> QED
    BY <1>0, <1>1, <2>1, SendersAre, PeersAssumption DEF Serves, Sent, Types, ChannelTypeOK
<1>3. HostRegistered(k) \in FramesToPeer \ Requests
  BY FramesTyped, FramesDiffer DEF Forwarded
<1>4. activeSessions[k] = None /\ UNCHANGED link
  BY <1>1, <1>2 DEF FreeCode, Receives
<1>5. \A c \in Clients : socketToSession'[c] = socketToSession[c]
  BY <1>0, <1>1, <1>2, ClientIsPeer DEF Types, ServerTypeOK
<1>6. \A l \in Codes : activeSessions[l] # None => activeSessions'[l] = activeSessions[l]
  BY <1>0, <1>1, <1>4 DEF Types, ServerTypeOK
<1>7. HostKeepsItsClients'
  <2> SUFFICES ASSUME NEW c \in Clients, matchedHost[c] # None,
                      link[matchedHost[c]] \in {"open", "closing"}
               PROVE  /\ socketToSession[c] # None /\ activeSessions'[socketToSession[c]] # None
                      /\ activeSessions'[socketToSession[c]].hostSocket = matchedHost[c]
    BY <1>1, <1>4, <1>5 DEF HostKeepsItsClients
  <2>1. /\ socketToSession[c] # None /\ activeSessions[socketToSession[c]] # None
        /\ activeSessions[socketToSession[c]].hostSocket = matchedHost[c]
    BY DEF Kept, HostKeepsItsClients
  <2>2. socketToSession[c] \in Codes
    BY <1>0, <2>1, ClientIsPeer DEF Types, ServerTypeOK
  <2> QED
    BY <1>6, <2>1, <2>2
<1>8. \A h \in Hosts, c \in Clients : Involved(h, c)' => Involved(h, c)
  BY <1>0, <1>2, <1>3, ServingInvolves
<1> QED
  BY <1>1, <1>4, <1>7, <1>8 DEF Kept

LEMMA LookupKept ==
  ASSUME Admission, Kept, NEW s \in Peers, HandleClientLookup(s),
         UNCHANGED <<rtcVars, hostVars, clientVars>>
  PROVE  Kept'
<1>0. Types /\ Rooms /\ Token
  BY DEF Admission, IInv
<1>1. PICK k \in Codes, n \in {MatchSuccess, MatchFailed} :
        /\ Receives(s, ClientLookup(k))
        /\ toPeer' = Sent({s}, n)
        /\ \/ UNCHANGED <<socketToSession, matchedHost>>
           \/ /\ activeSessions[k] # None
              /\ socketToSession' = [socketToSession EXCEPT ![s] = k]
              /\ matchedHost' = [matchedHost EXCEPT ![s] = activeSessions[k].hostSocket]
        /\ UNCHANGED <<link, activeSessions>>
  BY DEF HandleClientLookup, Receives
<1>2. /\ n \in FramesToPeer \ Requests /\ s \in Clients
      /\ Serves(s, ClientLookup(k), n)
      /\ ~Free(toServer[s], {ClientLookup(k)})
  <2>1. ClientLookup(k) \in Lookups /\ n \in FramesToPeer \ Requests
    BY FramesAre, FramesDiffer, FramesTyped DEF Forwarded
  <2> QED
    BY <1>0, <1>1, <2>1, SendersAre, ReceivingHolds DEF Serves, Sent, Types, ChannelTypeOK
<1>3. \A h \in Hosts : ~Involved(h, s)
  <2>1. Untold(s)
    BY <1>0, <1>2 DEF Token, Asking
  <2> QED
    BY <2>1 DEF Untold, Involved
<1>4. \A h \in Hosts, c \in Clients : Involved(h, c)' => Involved(h, c)
  BY <1>0, <1>2, ServingInvolves
<1>5. CASE UNCHANGED <<socketToSession, matchedHost>>
  BY <1>1, <1>4, <1>5 DEF Kept, HostKeepsItsClients
<1>6. CASE /\ activeSessions[k] # None
           /\ socketToSession' = [socketToSession EXCEPT ![s] = k]
           /\ matchedHost' = [matchedHost EXCEPT ![s] = activeSessions[k].hostSocket]
  <2>1. /\ socketToSession'[s] = k /\ matchedHost'[s] = activeSessions[k].hostSocket
        /\ \A c \in Clients : c # s =>
             socketToSession'[c] = socketToSession[c] /\ matchedHost'[c] = matchedHost[c]
    BY <1>0, <1>2, <1>6, ClientIsPeer DEF Types, ServerTypeOK
  <2>2. link[activeSessions[k].hostSocket] \in {"open", "closing"} /\ k # None
    BY <1>0, <1>6, PeersAssumption DEF Rooms, RoomsDistinct
  <2>3. HostKeepsItsClients'
    BY <1>1, <1>6, <2>1, <2>2 DEF Kept, HostKeepsItsClients
  <2>4. \A c \in Clients : matchedHost'[c] # None => link'[matchedHost'[c]] # "new"
    BY <1>1, <2>1, <2>2 DEF Kept
  <2>5. \A h \in Hosts, c \in Clients : Involved(h, c)' =>
          matchedHost'[c] \in {h, None} \/ link'[matchedHost'[c]] = "closed"
    BY <1>1, <1>3, <1>4, <2>1 DEF Kept
  <2> QED
    BY <2>3, <2>4, <2>5 DEF Kept
<1> QED
  BY <1>1, <1>5, <1>6

LEMMA ForwardKept ==
  ASSUME Admission, Kept, NEW s \in Peers, HandleForward(s),
         UNCHANGED <<rtcVars, hostVars, clientVars>>
  PROVE  Kept'
<1>0. Types /\ Rooms
  BY DEF Admission, IInv
<1>1. PICK m \in Forwarded :
        /\ Serves(s, m, m) /\ m \in FramesToPeer
        /\ toPeer' = Sent(RoomMates(s), m)
        /\ UNCHANGED <<link, activeSessions, socketToSession, issued, matchedHost>>
  BY <1>0, ForwardIs
<1>2. ASSUME NEW h \in Hosts, NEW c \in Clients, Involved(h, c)'
      PROVE  matchedHost[c] \in {h, None} \/ link[matchedHost[c]] = "closed"
  <2>1. CASE Involved(h, c)
    BY <2>1 DEF Kept
  <2>2. CASE ~Involved(h, c)
    <3>1. Free(toPeer[h], {ApprovalRequest(c)}) /\ ~Free(toPeer'[h], {ApprovalRequest(c)})
      BY <1>2, <2>2 DEF Involved, rtcVars, hostVars
    <3>2. toPeer[h] \in Seq(FramesToPeer) /\ toPeer'[h] = Append(toPeer[h], m) /\ h \in RoomMates(s)
      BY <1>0, <1>1, <3>1, HostIsPeer DEF Sent, Types, ChannelTypeOK
    <3>3. Free(Append(toPeer[h], m), {ApprovalRequest(c)})
            <=> Free(toPeer[h], {ApprovalRequest(c)}) /\ m \notin {ApprovalRequest(c)}
      BY <1>1, <3>2, AppendHolds
    <3>4. m = ApprovalRequest(c)
      BY <3>1, <3>2, <3>3
    <3>5. c = s
      BY <1>0, <1>1, <3>4, SendersAre DEF Serves
    <3>6. /\ socketToSession[h] # None /\ socketToSession[c] = socketToSession[h]
          /\ activeSessions[socketToSession[h]].hostSocket = h
      BY <1>0, <3>2, <3>5 DEF RoomMates, Rooms, RoomsDistinct
    <3>7. /\ matchedHost[c] \in Peers \cup {None}
          /\ matchedHost[c] # None => link[matchedHost[c]] \in {"new", "open", "closing", "closed"}
      BY <1>0 DEF Types, ServerTypeOK, ChannelTypeOK, LinkStates
    <3> QED
      BY <3>6, <3>7 DEF Kept, HostKeepsItsClients
  <2> QED
    BY <2>1, <2>2
<1> QED
  BY <1>1, <1>2 DEF Kept, HostKeepsItsClients

LEMMA CloseKept ==
  ASSUME Admission, Kept, NEW s \in Peers, HandleClose(s),
         UNCHANGED <<rtcVars, hostVars, clientVars>>
  PROVE  Kept'
<1>0. Types /\ NoSeats
  BY DEF Admission, IInv
<1> DEFINE k == socketToSession[s]
<1>1. ~SitsIn(s, k) \/ k = None
  <2>1. k # None => k \in Codes
    BY <1>0 DEF Types, ServerTypeOK
  <2>2. s # None
    BY NoneIsNoPeer
  <2> QED
    BY <1>0, <2>1, <2>2 DEF SitsIn, NoSeats
<1>2. /\ \/ activeSessions' = activeSessions
         \/ /\ activeSessions[k].hostSocket = s
            /\ activeSessions' = [activeSessions EXCEPT ![k] = None]
      /\ socketToSession' = [socketToSession EXCEPT ![s] = None]
      /\ matchedHost' = [c \in Clients |-> IF c = s THEN None ELSE matchedHost[c]]
      /\ link' = [link EXCEPT ![s] = "closed"]
      /\ UNCHANGED toPeer
  BY <1>1 DEF HandleClose, Owns
<1> HIDE DEF k
<1>3. \A l \in Codes : \/ activeSessions'[l] = activeSessions[l]
                       \/ activeSessions[l].hostSocket = s
  BY <1>0, <1>2 DEF Types, ServerTypeOK
<1>4. \A c \in Clients : /\ c = s => matchedHost'[c] = None
                         /\ c # s => /\ socketToSession'[c] = socketToSession[c]
                                     /\ matchedHost'[c] = matchedHost[c]
                         /\ socketToSession[c] # None => socketToSession[c] \in Codes
                         /\ matchedHost[c] \in Peers \cup {None}
  BY <1>0, <1>2, ClientIsPeer DEF Types, ServerTypeOK
<1>5. \A p \in Peers : link'[p] = IF p = s THEN "closed" ELSE link[p]
  BY <1>0, <1>2 DEF Types, ChannelTypeOK
<1>6. HostKeepsItsClients'
  <2> SUFFICES ASSUME NEW c \in Clients, matchedHost'[c] # None,
                      link'[matchedHost'[c]] \in {"open", "closing"}
               PROVE  /\ socketToSession'[c] # None /\ activeSessions'[socketToSession'[c]] # None
                      /\ activeSessions'[socketToSession'[c]].hostSocket = matchedHost'[c]
    BY DEF HostKeepsItsClients
  <2>1. /\ c # s /\ matchedHost'[c] = matchedHost[c] /\ socketToSession'[c] = socketToSession[c]
        /\ matchedHost[c] # s /\ link[matchedHost[c]] \in {"open", "closing"}
    BY <1>4, <1>5
  <2>2. /\ socketToSession[c] # None /\ activeSessions[socketToSession[c]] # None
        /\ activeSessions[socketToSession[c]].hostSocket = matchedHost[c]
    BY <2>1 DEF Kept, HostKeepsItsClients
  <2> QED
    BY <1>3, <1>4, <2>1, <2>2
<1>7. \A c \in Clients : matchedHost'[c] # None => link'[matchedHost'[c]] # "new"
  BY <1>4, <1>5 DEF Kept
<1>8. \A h \in Hosts, c \in Clients : Involved(h, c)' <=> Involved(h, c)
  BY <1>2 DEF Involved, rtcVars, hostVars
<1>9. \A h \in Hosts, c \in Clients : Involved(h, c)' =>
        matchedHost'[c] \in {h, None} \/ link'[matchedHost'[c]] = "closed"
  BY <1>4, <1>5, <1>8 DEF Kept
<1> QED
  BY <1>6, <1>7, <1>9 DEF Kept

LEMMA RestartKept ==
  ASSUME ServerRestart
  PROVE  Kept'
<1>1. \A c \in Clients : matchedHost'[c] = None
  BY DEF ServerRestart
<1> QED
  BY <1>1 DEF Kept, HostKeepsItsClients

LEMMA InitKept == Init => Kept
  BY DEF Init, ChannelInit, ServerInit, RtcInit, HostInit, Kept, HostKeepsItsClients, Involved,
     Free, Peers

LEMMA KeptStep ==
  ASSUME Admission, Kept, [Next]_vars
  PROVE  Kept'
<1>0. Types
  BY DEF Admission, IInv
<1>1. CASE ServerNext /\ UNCHANGED <<rtcVars, hostVars, clientVars>>
  BY <1>1, RegisterKept, LookupKept, ForwardKept, CloseKept, RestartKept
  DEF ServerNext, ServerHandles
<1>2. CASE HostNext /\ UNCHANGED <<serverVars, clientVars>>
  BY <1>0, <1>2, LinksAdvance, PeersInvolve, QuietlyKept
<1>3. CASE ClientNext /\ UNCHANGED <<serverVars, hostVars>>
  BY <1>0, <1>3, LinksAdvance, PeersInvolve, QuietlyKept
<1>4. CASE UNCHANGED vars
  BY <1>0, <1>4, QuietlyKept DEF vars, channelVars, rtcVars, hostVars, Involved
<1> QED
  BY <1>1, <1>2, <1>3, <1>4 DEF Next

LEMMA KeptHolds == Spec => []Kept
<1>1. Admission /\ Kept /\ [Next]_vars => Kept'
  BY KeptStep
<1> QED
  BY <1>1, InitKept, AdmissionHolds, PTL DEF Spec

(* As long as the server has a host's socket, the clients that looked its  *)
(* code up are in its room, whether or not codes come back: a code is      *)
(* drawn again only when its session is gone (index.ts:105), and a host's  *)
(* session goes with its socket (index.ts:65-70).                          *)
THEOREM HostsKeepTheirClients == Spec => []HostKeepsItsClients
<1>1. Kept => HostKeepsItsClients
  BY DEF Kept
<1> QED
  BY <1>1, KeptHolds, PTL

(* A knock, and the session that comes of it, stay with the host whose     *)
(* code the client looked up; if codes come back, until that host's socket *)
(* is gone.                                                                *)
THEOREM KnocksStay == Spec => []KnocksStayInRoom
<1>1. ASSUME NEW h \in Hosts, NEW c \in Clients, c \in Queued(h) \/ c \in Engaged(h)
      PROVE  Involved(h, c)
  BY <1>1, QueuedIs DEF Involved, Engaged, Live
<1>2. CASE ReissueCodes
  <2>1. Kept => KnocksStayInRoom
    BY <1>1, <1>2 DEF Kept, KnocksStayInRoom, Orphaned
  <2> QED
    BY <2>1, KeptHolds, PTL
<1>3. CASE ~ReissueCodes
  <2>1. Matched => KnocksStayInRoom
    BY <1>1 DEF Matched, KnocksStayInRoom
  <2> QED
    BY <1>3, <2>1, MatchedHolds, PTL
<1> QED
  BY <1>2, <1>3

-----------------------------------------------------------------------------
(* What c must not read once it listens: its approval, and the offers made *)
(* for others.                                                             *)
After(c) == {Approval(c)} \cup {Offer(h, d) : h \in Hosts, d \in Clients \ {c}}

(* An approved client has its transport at a host, the only one that may   *)
(* still have to send the approval.                                        *)
Approving(c) ==
  /\ verdicts[c] = <<TRUE>> => \E h \in Hosts : hostPc[h][c] # "none"
  /\ \A h \in Hosts : ~Free(toServer[h], {Approval(c)}) => hostPc[h][c] # "none"

(* While its guest c does not listen, or has no offer, host h is locked    *)
(* and negotiates with no one else.                                        *)
Listening(c) == clientPc[c] \notin {"none", "new"}
Ended == {"exited", "crashed"}
Awaited(h, c) == hostUp[h] \notin Ended /\ hostPc[h][c] # "none" /\ ~Listening(c)
Reserved(h, c) == isApproving[h] /\ lobby[h] = None /\ \A d \in Engaged(h) : d = c
Held(h, c) == Awaited(h, c) => Reserved(h, c)

(* A session is with the client it was made for.                           *)
Served(h, c) == hostPc[h][c] = "open" => hostAnswer[h][c] = c /\ Listening(c)

(* A client takes the offer made for it.                                   *)
Named(c) ==
  (clientOffer[c] # None \/ clientPc[c] \in {"remote", "answered", "open"})
    => clientOffer[c][2] = c

(* The frames from h to c by way of the server: no approval, and no offer  *)
(* for another client, comes after the approval.                           *)
Piped(h, c) ==
  hostPc[h][c] # "none" =>
    /\ Orderly(toPeer[c], Approval(c), After(c))
    /\ Orderly(toServer[h], Approval(c), After(c))
    /\ Free(toPeer[c], {Approval(c)}) \/ Free(toServer[h], After(c))
    /\ clientPc[c] # "none" => Free(toPeer[c], {Approval(c)}) /\ Free(toServer[h], {Approval(c)})
    /\ clientPc[c] = "new" => Free(toPeer[c], After(c)) /\ Free(toServer[h], After(c))

GuestOf(h, c) == Held(h, c) /\ Served(h, c) /\ Piped(h, c)
Guests == \A c \in Clients : Approving(c) /\ Named(c) /\ \A h \in Hosts : GuestOf(h, c)

(* A step that puts nothing of S into the queues of p.                     *)
PipeKeeps(s, t, c) ==
  /\ Free(s, {Approval(c)}) => Free(t, {Approval(c)})
  /\ Free(s, After(c)) => Free(t, After(c))
  /\ Orderly(s, Approval(c), After(c)) => Orderly(t, Approval(c), After(c))

LEMMA ApprovalIs ==
  ASSUME NEW c \in Clients
  PROVE  /\ Approval(c) = ApprovalResponse(c, TRUE) /\ Approval(c) \in Responses
         /\ Approval(c) \in After(c) /\ {Approval(c)} \subseteq After(c)
         /\ After(c) \subseteq Responses \cup Offers
         /\ After(c) \cap Responses = {Approval(c)}
<1>1. Approval(c) = ApprovalResponse(c, TRUE) /\ Approval(c) \in Responses
  BY FramesAre DEF Approval
<1>2. \A h \in Hosts, d \in Clients : Offer(h, d) \in Offers /\ Offer(h, d) \notin Responses
  BY FramesAre, FramesDiffer
<1>3. /\ Approval(c) \in After(c)
      /\ \A f \in After(c) : f = Approval(c) \/ (f \in Offers /\ f \notin Responses)
  BY <1>2 DEF After
<1> HIDE DEF After
<1> QED
  BY <1>1, <1>3

LEMMA OfferIs ==
  /\ Offers \cap Responses = {}
  /\ \A h \in Hosts, c \in Clients : Offer(h, c) \in Offers
  /\ \A c \in Clients, h \in Hosts : Offer(h, c) \notin After(c)
<1>1. Offers \cap Responses = {} /\ \A h \in Hosts, c \in Clients : Offer(h, c) \in Offers
  BY FramesAre, FramesDiffer
<1>2. ASSUME NEW c \in Clients, NEW h \in Hosts, Offer(h, c) \in After(c)
      PROVE  FALSE
  <2>1. Offer(h, c) # Approval(c)
    BY <1>1, ApprovalIs
  <2>2. PICK g \in Hosts, d \in Clients \ {c} : Offer(h, c) = Offer(g, d)
    BY <1>2, <2>1 DEF After
  <2> QED
    BY <2>2, FramesDiffer
<1> QED
  BY <1>1, <1>2

LEMMA LessPipe ==
  ASSUME NEW T, NEW s \in Seq(T), NEW t, Less(t, s), NEW c
  PROVE  PipeKeeps(s, t, c)
  BY LessHolds DEF PipeKeeps

LEMMA AppendPipe ==
  ASSUME NEW T, NEW s \in Seq(T), NEW f \in T, NEW c \in Clients, f \notin After(c)
  PROVE  PipeKeeps(s, Append(s, f), c)
<1>1. f \notin {Approval(c)}
  BY ApprovalIs
<1>2. /\ Free(Append(s, f), {Approval(c)}) <=> Free(s, {Approval(c)}) /\ f \notin {Approval(c)}
      /\ Free(Append(s, f), After(c)) <=> Free(s, After(c)) /\ f \notin After(c)
      /\ (Orderly(s, Approval(c), After(c)) /\ (Free(s, {Approval(c)}) \/ f \notin After(c)))
           => Orderly(Append(s, f), Approval(c), After(c))
  BY AppendHolds
<1> QED
  BY <1>1, <1>2 DEF PipeKeeps

LEMMA PipesKeepPiped ==
  ASSUME NEW h \in Hosts, NEW c \in Clients, Piped(h, c),
         PipeKeeps(toPeer[c], toPeer'[c], c),
         PipeKeeps(toServer[h], toServer'[h], c),
         hostPc'[h][c] # "none" => hostPc[h][c] # "none",
         clientPc'[c] # "none" => clientPc[c] # "none",
         clientPc'[c] = "new" => clientPc[c] = "new"
  PROVE  Piped(h, c)'
<1>1. After(c)' = After(c) /\ Approval(c)' = Approval(c)
  BY DEF After, Approval, ApprovalResponse, Offer
<1> QED
  BY <1>1 DEF Piped, PipeKeeps

LEMMA FreePiped ==
  ASSUME NEW h, NEW c, Free(toPeer[c], {Approval(c)})', Free(toServer[h], {Approval(c)})',
         clientPc'[c] # "new"
  PROVE  Piped(h, c)'
  BY FreeIsOrderly DEF Piped

(* Whatever host h writes for another client, it writes when c listens.    *)
LEMMA CalmPipes ==
  ASSUME Types, Guests, Calm, NEW h \in Hosts, NEW c \in Clients,
         clientPc'[c] = "new" => clientPc[c] = "new"
  PROVE  Piped(h, c)'
<1>1. /\ toPeer[c] \in Seq(FramesToPeer) /\ toServer[h] \in Seq(FramesToServer)
      /\ Less(toPeer'[c], toPeer[c])
      /\ Less(toServer'[h], toServer[h]) \/ (\E f : Signals(h, f))
      /\ hostPc'[h][c] = "none" <=> hostPc[h][c] = "none"
      /\ clientPc'[c] = "none" <=> clientPc[c] = "none"
  BY HostIsPeer, ClientIsPeer DEF Types, ChannelTypeOK, Calm
<1>2. Piped(h, c) /\ Held(h, c)
  BY DEF Guests, GuestOf
<1>3. PipeKeeps(toPeer[c], toPeer'[c], c)
  BY <1>1, LessPipe
<1>4. CASE Less(toServer'[h], toServer[h])
  BY <1>1, <1>2, <1>3, <1>4, LessPipe, PipesKeepPiped
<1>5. ASSUME NEW f, Signals(h, f)
      PROVE  Piped(h, c)'
  <2>1. PICK d \in Engaged(h) : f = Offer(h, d)
    BY <1>5, PeersAssumption DEF Signals
  <2>2. /\ d \in Clients /\ f \in FramesToServer /\ f \in Offers
        /\ toServer'[h] = Append(toServer[h], f)
    BY <1>5, <2>1, FramesTyped, FramesAre DEF Signals, Engaged
  <2>3. CASE f \notin After(c)
    BY <1>1, <1>2, <1>3, <2>2, <2>3, AppendPipe, PipesKeepPiped
  <2>4. CASE f \in After(c) /\ hostPc[h][c] # "none"
    <3>1. d # c
      BY <2>1, <2>4, OfferIs
    <3>2. hostUp[h] = "up"
      BY <1>5, PeersAssumption DEF Signals
    <3>3. clientPc[c] # "none" /\ clientPc[c] # "new"
      BY <1>2, <2>1, <2>4, <3>1, <3>2 DEF Held, Awaited, Ended, Reserved, Listening
    <3>4. Free(toPeer[c], {Approval(c)}) /\ Free(toServer[h], {Approval(c)})
      BY <1>2, <2>4, <3>3 DEF Piped
    <3>5. f \notin {Approval(c)}
      <4>1. Approval(c) \in Responses
        BY ApprovalIs
      <4> QED
        BY <2>2, <4>1, OfferIs
    <3>6. Free(toServer'[h], {Approval(c)})
      <4>1. Free(Append(toServer[h], f), {Approval(c)})
              <=> Free(toServer[h], {Approval(c)}) /\ f \notin {Approval(c)}
        BY <1>1, <2>2, AppendHolds
      <4> QED
        BY <2>2, <3>4, <3>5, <4>1
    <3>7. Free(toPeer'[c], {Approval(c)})
      BY <1>3, <3>4 DEF PipeKeeps
    <3> QED
      BY <1>1, <3>3, <3>6, <3>7, FreePiped
  <2>5. CASE hostPc[h][c] = "none"
    BY <1>1, <2>5 DEF Piped
  <2> QED
    BY <2>3, <2>4, <2>5
<1> QED
  BY <1>1, <1>4, <1>5

-----------------------------------------------------------------------------
(* Hosts stay reserved for the guest they wait for.                        *)

LEMMA HoldsOn ==
  ASSUME NEW h, NEW c, Held(h, c), Served(h, c),
         hostUp'[h] \notin Ended => hostUp[h] \notin Ended,
         hostPc'[h][c] # "none" => hostPc[h][c] # "none",
         hostPc'[h][c] = "open" => hostPc[h][c] = "open" /\ hostAnswer'[h][c] = hostAnswer[h][c],
         hostPc[h][c] # "none" /\ Listening(c) => Listening(c)',
         (Awaited(h, c) /\ hostUp'[h] \notin Ended) =>
           /\ isApproving'[h] = isApproving[h]
           /\ lobby'[h] = lobby[h]
           /\ Engaged(h)' \subseteq Engaged(h)
  PROVE  Held(h, c)' /\ Served(h, c)'
<1>1. Held(h, c)'
  BY DEF Held, Awaited, Reserved
<1>2. Served(h, c)'
  BY DEF Served
<1> QED
  BY <1>1, <1>2

LEMMA HostHolds ==
  ASSUME IInv, Guests, NEW h \in Hosts, NEW c \in Clients, UNCHANGED <<clientPc, clientOffer>>,
         HostStart(h) \/ HostReacts(h) \/ OperatorActs(h) \/ HostSuffers(h)
  PROVE  Held(h, c)' /\ Served(h, c)'
<1>1. /\ Types /\ Locked(h) /\ Held(h, c) /\ Served(h, c)
      /\ settled[h] # None => lobby[h] # None
  BY DEF IInv, HostDiscipline, Locked, Guests, GuestOf
<1>2. Listening(c)' <=> Listening(c)
  BY DEF Listening
<1>3. Awaited(h, c) => lobby[h] = None /\ settled[h] = None /\ isApproving[h]
                         /\ \A d \in Engaged(h) : d = c
  BY <1>1 DEF Held, Reserved
<1>0. HostTypes
  BY DEF IInv, Types, HostTypes
<1>4. CASE Leaves(h)
  <2>1. hostUp'[h] \in Ended /\ \A d \in Clients : hostPc'[h][d] \in {"none", "closed"}
    BY <1>1, <1>4 DEF Leaves, HostEnds, Ended, Types, HostTypeOK, RtcTypeOK
  <2> QED
    BY <2>1 DEF Held, Awaited, Served
<1>5. CASE HostStart(h) \/ HostOnRequest(h) \/ HostIgnores(h)
  <2>1. UNCHANGED <<hostPc, hostAnswer>> /\ hostUp'[h] \in {hostUp[h], "up"}
        /\ (hostUp[h] \in Ended => hostUp'[h] \in Ended)
    BY <1>1, <1>5 DEF Ended, HostStart, HostOnRequest, HostIgnores, rtcVars, hostVars, Types, HostTypeOK
  <2>2. Awaited(h, c) => isApproving'[h] = isApproving[h] /\ lobby'[h] = lobby[h]
    BY <1>3, <1>5 DEF HostStart, HostOnRequest, HostIgnores, hostVars, ProcessQueue, MayPrompt,
       CallbackIsApproving
  <2> QED
    BY <1>1, <1>2, <2>1, <2>2, HoldsOn DEF Engaged
<1>6. CASE HostOnSignal(h)
  <2>1. /\ UNCHANGED <<hostPc, hostUp, isApproving, lobby>>
        /\ hostPc[h][c] = "open" => hostAnswer'[h][c] = hostAnswer[h][c]
    BY <1>1, <1>6 DEF HostOnSignal, HostAppliesSignal, hostVars, Types, RtcTypeOK
  <2> QED
    BY <1>1, <1>2, <2>1, HoldsOn DEF Engaged
<1>7. CASE OperatorActs(h) \/ HostResumesRejectAll(h)
  <2>1. CASE Leaves(h)
    BY <1>4, <2>1
  <2>2. CASE ~Leaves(h)
    <3>1. UNCHANGED <<hostPc, hostAnswer, hostUp>> /\ (lobby[h] # None \/ settled[h] # None)
      BY <1>0, <1>7, <2>2, ExitsLeave DEF OperatorActs, HostKeyUp, HostKeyDown, HostKeyEnter, HostKeyCtrlC, MovesTo,
         Picking, HostResumesRejectAll, LobbyDone, rtcVars
    <3> QED
      BY <1>1, <1>2, <1>3, <3>1, HoldsOn
  <2> QED
    BY <2>1, <2>2
<1>8. CASE HostResumesSelected(h)
  <2> DEFINE d == settled[h].result
  <2>1. /\ settled[h] # None /\ d \in Clients /\ lobby'[h] = None
        /\ UNCHANGED <<hostAnswer, hostUp>>
        /\ \/ hostPc' = [hostPc EXCEPT ![h][d] = "new"] /\ UNCHANGED isApproving
           \/ UNCHANGED hostPc
    BY <1>1, <1>8 DEF HostResumesSelected, LobbyDone, Types, HostTypeOK
  <2> HIDE DEF d
  <2>2. isApproving[h] /\ Engaged(h) = {} /\ ~Awaited(h, c)
    BY <1>1, <1>3, <2>1 DEF Locked
  <2>3. CASE UNCHANGED hostPc
    BY <1>1, <1>2, <2>1, <2>2, <2>3, HoldsOn
  <2>4. CASE hostPc' = [hostPc EXCEPT ![h][d] = "new"] /\ UNCHANGED isApproving
    <3>1. /\ hostPc'[h][d] = "new"
          /\ \A e \in Clients : e # d => hostPc'[h][e] = hostPc[h][e]
      BY <1>1, <2>1, <2>4 DEF Types, RtcTypeOK
    <3>2. CASE c # d
      BY <1>1, <1>2, <2>1, <2>2, <3>1, <3>2, HoldsOn
    <3>3. CASE c = d
      <4>1. \A e \in Engaged(h)' : e = c
        BY <2>2, <3>1, <3>3 DEF Engaged
      <4> QED
        BY <2>1, <2>2, <2>4, <3>1, <3>3, <4>1 DEF Held, Reserved, Served
    <3> QED
      BY <3>2, <3>3
  <2> QED
    BY <2>1, <2>3, <2>4
<1>9. ASSUME NEW d \in Clients, HostOffers(h, d) \/ HostNegotiationFails(h, d)
      PROVE  Held(h, c)' /\ Served(h, c)'
  <2>1. /\ UNCHANGED <<hostAnswer, hostUp, isApproving, lobby>>
        /\ hostPc[h][d] \in {"new", "offered"}
        /\ \/ hostPc' = [hostPc EXCEPT ![h][d] = "offered"]
           \/ hostPc' = [hostPc EXCEPT ![h][d] = "closed"]
    BY <1>9 DEF HostOffers, HostSignalsOffer, HostNegotiationFails, hostVars
  <2>2. /\ hostPc'[h][d] \in {"offered", "closed"}
        /\ \A e \in Clients : e # d => hostPc'[h][e] = hostPc[h][e]
    BY <1>1, <2>1 DEF Types, RtcTypeOK
  <2>3. Engaged(h)' \subseteq Engaged(h)
    BY <2>1, <2>2 DEF Engaged, Live
  <2> QED
    BY <1>1, <1>2, <2>1, <2>2, <2>3, HoldsOn
<1>10. ASSUME NEW d \in Clients, HostSessionStarts(h, d)
       PROVE  Held(h, c)' /\ Served(h, c)'
  <2>1. /\ UNCHANGED <<hostAnswer, hostUp, isApproving, lobby>>
        /\ hostPc[h][d] = "offered" /\ HostMayOpen(h, d)
        /\ hostPc' = [hostPc EXCEPT ![h][d] = "open"]
    BY <1>10 DEF HostSessionStarts, HostMayOpen
  <2>2. /\ hostPc'[h][d] = "open"
        /\ \A e \in Clients : e # d => hostPc'[h][e] = hostPc[h][e]
    BY <1>1, <2>1 DEF Types, RtcTypeOK
  <2>3. Engaged(h)' \subseteq Engaged(h)
    BY <2>1, <2>2 DEF Engaged, Live
  <2>4. hostAnswer[h][d] = d /\ Listening(d)
    <3>1. PICK e \in Clients : Linked(h, d, e) /\ clientPc[e] \in {"answered", "open"}
      BY <2>1 DEF HostMayOpen
    <3>2. clientOffer[e][2] = e /\ clientOffer[e][2] = d
      BY <3>1 DEF Guests, Named, Linked
    <3> QED
      BY <3>1, <3>2 DEF Linked, Listening
  <2>5. CASE c # d
    BY <1>1, <1>2, <2>1, <2>2, <2>3, <2>5, HoldsOn
  <2>6. CASE c = d
    BY <1>2, <2>1, <2>4, <2>6 DEF Held, Awaited, Served
  <2> QED
    BY <2>5, <2>6
<1>11. ASSUME NEW d \in Clients, HostSessionCloses(h, d)
       PROVE  Held(h, c)' /\ Served(h, c)'
  <2>1. /\ UNCHANGED <<hostAnswer, hostUp, lobby>> /\ hostPc[h][d] = "open"
        /\ hostPc' = [hostPc EXCEPT ![h][d] = "closed"]
    BY <1>11 DEF HostSessionCloses
  <2>2. /\ hostPc'[h][d] = "closed"
        /\ \A e \in Clients : e # d => hostPc'[h][e] = hostPc[h][e]
    BY <1>1, <2>1 DEF Types, RtcTypeOK
  <2>3. d \in Engaged(h) /\ Listening(d)
    BY <2>1 DEF Engaged, Live, Guests, GuestOf, Served
  <2>4. ~Awaited(h, c)
    BY <1>3, <2>3 DEF Awaited
  <2> QED
    BY <1>1, <1>2, <2>1, <2>2, <2>4, HoldsOn
<1>12. CASE HostLosesSocket(h)
  BY <1>1, <1>2, <1>12, HoldsOn DEF HostLosesSocket, hostVars, rtcVars, Engaged
<1>13. ~HostOnDisconnect(h)
  BY NoDisconnectRead DEF HostOnDisconnect
<1> QED
  BY <1>0, <1>4, <1>5, <1>6, <1>7, <1>8, <1>9, <1>10, <1>11, <1>12, <1>13, ExitsLeave
  DEF HostReacts, HostSuffers, HostResumesExit, HostShellExits, HostDrains, HostCrashes

(* Nothing of another host changes.                                        *)
LEMMA OtherHostHolds ==
  ASSUME IInv, Guests, NEW h \in Hosts, NEW g \in Hosts \ {h}, NEW c \in Clients,
         UNCHANGED <<clientPc, clientOffer>>,
         HostStart(h) \/ HostReacts(h) \/ OperatorActs(h) \/ HostSuffers(h)
  PROVE  Held(g, c)' /\ Served(g, c)'
<1>1. HostTypes /\ Held(g, c) /\ Served(g, c)
  BY DEF IInv, Types, HostTypes, Guests, GuestOf
<1>2. CASE Leaves(h)
  <2>1. Same(g)
    BY <1>1, <1>2, HostExitLocal
  <2>2. hostUp'[g] = hostUp[g] /\ hostAnswer'[g] = hostAnswer[g]
    BY <1>1, <1>2 DEF Leaves, HostEnds, HostTypes, HostTypeOK, RtcTypeOK
  <2> QED
    BY <1>1, <2>1, <2>2, HoldsOn DEF Same, Engaged, Listening
<1>3. CASE HostStart(h)
  <2>1. hostUp'[g] = hostUp[g] /\ UNCHANGED <<isApproving, lobby, rtcVars>>
    BY <1>1, <1>3 DEF HostStart, HostTypes, HostTypeOK
  <2> QED
    BY <1>1, <2>1, HoldsOn DEF rtcVars, Engaged, Listening
<1>4. CASE HostOnRequest(h) \/ HostOnDisconnect(h) \/ HostOnSignal(h) \/ HostIgnores(h)
  <2>1. Same(g)
    BY <1>1, <1>4, CallbacksLocal
  <2>2. hostUp'[g] = hostUp[g] /\ hostAnswer'[g] = hostAnswer[g]
    BY <1>1, <1>4 DEF HostOnRequest, HostOnDisconnect, HostOnSignal, HostIgnores, HostAppliesSignal,
       hostVars, rtcVars, HostTypes, HostTypeOK, RtcTypeOK
  <2> QED
    BY <1>1, <2>1, <2>2, HoldsOn DEF Same, Engaged, Listening
<1>5. CASE (OperatorActs(h) \/ HostResumesRejectAll(h) \/ HostResumesSelected(h)) /\ ~Leaves(h)
  <2>1. Same(g)
    BY <1>1, <1>5, OperatorLocal, ResumeLocal
  <2>2. UNCHANGED <<hostUp, hostAnswer>>
    BY <1>1, <1>5, ExitsLeave DEF OperatorActs, HostKeyUp, HostKeyDown, HostKeyEnter,
       HostKeyCtrlC, MovesTo, HostResumesRejectAll, HostResumesSelected, LobbyDone, rtcVars
  <2> QED
    BY <1>1, <2>1, <2>2, HoldsOn DEF Same, Engaged, Listening
<1>6. ASSUME NEW d \in Clients,
             \/ HostOffers(h, d)
             \/ HostSessionStarts(h, d)
             \/ HostSessionCloses(h, d)
             \/ HostNegotiationFails(h, d)
      PROVE  Held(g, c)' /\ Served(g, c)'
  <2>1. Same(g)
    BY <1>1, <1>6, SessionLocal
  <2>2. UNCHANGED <<hostUp, hostAnswer>>
    BY <1>6 DEF HostOffers, HostSignalsOffer, HostSessionStarts, HostSessionCloses,
       HostNegotiationFails, hostVars
  <2> QED
    BY <1>1, <2>1, <2>2, HoldsOn DEF Same, Engaged, Listening
<1>7. CASE HostLosesSocket(h)
  BY <1>1, <1>7, HoldsOn DEF HostLosesSocket, hostVars, rtcVars, Engaged, Listening
<1> QED
  BY <1>1, <1>2, <1>3, <1>4, <1>5, <1>6, <1>7, ExitsLeave
  DEF HostReacts, HostSuffers, HostResumesExit, HostShellExits, HostDrains, HostCrashes

-----------------------------------------------------------------------------
(* A host's steps.                                                         *)

LEMMA QuietlyApproving ==
  ASSUME NEW c \in Clients, Approving(c), verdicts'[c] = verdicts[c],
         \A h \in Hosts : /\ hostPc[h][c] # "none" => hostPc'[h][c] # "none"
                          /\ Free(toServer[h], {Approval(c)}) => Free(toServer'[h], {Approval(c)})
  PROVE  Approving(c)'
  BY DEF Approving, Approval, ApprovalResponse

LEMMA SteadyApproving ==
  ASSUME NEW c \in Clients, Approving(c), Steady(c)
  PROVE  Approving(c)'
<1>1. Approval(c) = ApprovalResponse(c, TRUE)
  BY ApprovalIs
<1> QED
  BY <1>1, QuietlyApproving, HostIsPeer DEF Steady

LEMMA WritingPipes ==
  ASSUME Types, NEW h \in Hosts, NEW c \in Clients, Piped(h, c),
         NEW f \in FramesToServer \ After(c),
         toServer'[h] \in {toServer[h], Append(toServer[h], f)},
         Less(toPeer'[c], toPeer[c]),
         UNCHANGED <<hostPc, clientPc>>
  PROVE  Piped(h, c)'
<1>1. toPeer[c] \in Seq(FramesToPeer) /\ toServer[h] \in Seq(FramesToServer)
  BY HostIsPeer, ClientIsPeer DEF Types, ChannelTypeOK
<1>2. PipeKeeps(toPeer[c], toPeer'[c], c)
  BY <1>1, LessPipe
<1>3. PipeKeeps(toServer[h], toServer'[h], c)
  <2>1. PipeKeeps(toServer[h], Append(toServer[h], f), c)
    BY <1>1, AppendPipe
  <2> QED
    BY <2>1 DEF PipeKeeps
<1> QED
  BY <1>2, <1>3, PipesKeepPiped

(* What a ruling writes holds at most one approval, and no offers.         *)
LEMMA RepliesPipe ==
  ASSUME NEW fs, NEW q, NEW S \in SUBSET Clients, Replies(fs, q, S), NEW c \in Clients
  PROVE  /\ fs \in Seq(FramesToServer)
         /\ Orderly(fs, Approval(c), After(c))
         /\ c \notin S => Free(fs, After(c))
<1>1. /\ fs \in Seq(Responses) /\ Orderly(fs, Approval(c), {Approval(c)})
      /\ Free(fs, {Approval(c)}) <=> c \notin S
  BY DEF Replies
<1>2. \A i \in DOMAIN fs : fs[i] \in Responses
  BY <1>1
<1>3. \A f \in Responses : f \in After(c) => f = Approval(c)
  BY ApprovalIs
<1>4. Free(fs, {Approval(c)}) => Free(fs, After(c))
  BY <1>2, <1>3 DEF Free
<1>5. Orderly(fs, Approval(c), After(c))
  BY <1>1, <1>2, <1>3 DEF Orderly
<1>6. fs \in Seq(FramesToServer)
  BY <1>1 DEF FramesToServer, Forwarded
<1> QED
  BY <1>1, <1>4, <1>5, <1>6

(* A client with no verdict does not listen, and has no approval coming.   *)
LEMMA UnjudgedIs ==
  ASSUME NEW c \in Clients, Judged(c), verdicts[c] = <<>>
  PROVE  /\ clientPc[c] = "none"
         /\ \A p \in Peers : Free(toServer[p], {Approval(c)}) /\ Free(toPeer[p], {Approval(c)})
<1>1. <<>> # <<TRUE>>
  <2>1. Len(<<>>) = 0 /\ Len(<<TRUE>>) = 1
    OBVIOUS
  <2> QED
    BY <2>1
<1>2. clientPc[c] = "none"
  BY <1>1 DEF Judged
<1>3. \A p \in Peers : /\ Free(toServer[p], {ApprovalResponse(c, TRUE)})
                       /\ Free(toPeer[p], {ApprovalResponse(c, TRUE)})
  BY <1>1 DEF Judged
<1> QED
  BY <1>2, <1>3, ApprovalIs

LEMMA RulingPipes ==
  ASSUME Types, Token, Guests, NEW h \in Hosts, NEW S \in SUBSET Clients, Ruling(h, S),
         NEW g \in Hosts, NEW c \in Clients
  PROVE  Piped(g, c)'
<1>1. PICK fs : toServer' = Written(h, fs) /\ Replies(fs, approvalQueue[h], S)
  BY DEF Ruling
<1>2. /\ toPeer[c] \in Seq(FramesToPeer) /\ toServer[g] \in Seq(FramesToServer)
      /\ fs \in Seq(FramesToServer) /\ Orderly(fs, Approval(c), After(c))
      /\ c \notin S => Free(fs, After(c))
      /\ Piped(g, c)
  BY <1>1, RepliesPipe, HostIsPeer, ClientIsPeer DEF Types, ChannelTypeOK, Guests, GuestOf
<1>3. /\ UNCHANGED <<toPeer, clientPc>>
      /\ \A d \in S : ~Free(approvalQueue[h], {d})
      /\ hostPc'[g][c] = IF g = h /\ c \in S THEN "new" ELSE hostPc[g][c]
      /\ toServer'[g] = toServer[g] \/ (g = h /\ toServer'[g] = toServer[g] \o fs)
  BY <1>1, HostIsPeer DEF Ruling, Written, Types, RtcTypeOK, ChannelTypeOK
<1>4. /\ Free(toServer[g] \o fs, {Approval(c)})
           <=> Free(toServer[g], {Approval(c)}) /\ Free(fs, {Approval(c)})
      /\ Free(toServer[g] \o fs, After(c)) <=> Free(toServer[g], After(c)) /\ Free(fs, After(c))
      /\ (Orderly(toServer[g], Approval(c), After(c)) /\ Orderly(fs, Approval(c), After(c))
            /\ (Free(toServer[g], {Approval(c)}) \/ Free(fs, After(c))))
           => Orderly(toServer[g] \o fs, Approval(c), After(c))
  BY <1>2, ConcatHolds
<1>5. PipeKeeps(toPeer[c], toPeer'[c], c)
  BY <1>3 DEF PipeKeeps
<1>6. CASE g = h /\ c \in S
  <2>1. ~Free(approvalQueue[h], {c})
    BY <1>3, <1>6
  <2>2. verdicts[c] = <<>>
    BY <2>1 DEF Token, Waiting
  <2>5. clientPc[c] = "none" /\ Free(toServer[g], {Approval(c)}) /\ Free(toPeer[c], {Approval(c)})
    BY <2>2, UnjudgedIs, HostIsPeer, ClientIsPeer DEF Token
  <2>6. Orderly(toServer'[g], Approval(c), After(c)) /\ Orderly(toPeer[c], Approval(c), After(c))
    BY <1>2, <1>3, <1>4, <2>5, FreeIsOrderly
  <2>7. After(c)' = After(c) /\ Approval(c)' = Approval(c)
    BY DEF After, Approval, ApprovalResponse, Offer
  <2> QED
    BY <1>3, <2>5, <2>6, <2>7 DEF Piped
<1>7. CASE g = h /\ c \notin S
  <2>1. Free(fs, {Approval(c)})
    BY <1>2, <1>7, ApprovalIs DEF Free
  <2>2. PipeKeeps(toServer[g], toServer'[g], c)
    BY <1>2, <1>3, <1>4, <1>7, <2>1 DEF PipeKeeps
  <2> QED
    BY <1>2, <1>3, <1>5, <1>7, <2>2, PipesKeepPiped
<1>8. CASE g # h
  <2>1. PipeKeeps(toServer[g], toServer'[g], c)
    BY <1>3, <1>8 DEF PipeKeeps
  <2> QED
    BY <1>2, <1>3, <1>5, <1>8, <2>1, PipesKeepPiped
<1> QED
  BY <1>6, <1>7, <1>8

LEMMA RulingApproves ==
  ASSUME Types, Token, Guests, NEW h \in Hosts, NEW S \in SUBSET Clients, Ruling(h, S),
         NEW c \in Clients
  PROVE  Approving(c)'
<1>1. PICK fs : toServer' = Written(h, fs) /\ Replies(fs, approvalQueue[h], S)
  BY DEF Ruling
<1>2. /\ Approving(c) /\ fs \in Seq(FramesToServer)
      /\ Free(fs, {Approval(c)}) <=> c \notin S
      /\ \A g \in Hosts : hostPc'[g][c] = IF g = h /\ c \in S THEN "new" ELSE hostPc[g][c]
      /\ verdicts'[c] = IF Free(approvalQueue[h], {c}) THEN verdicts[c]
                        ELSE Append(verdicts[c], c \in S)
  BY <1>1, RepliesPipe DEF Guests, Ruling, Replies, Types, RtcTypeOK, HostTypeOK
<1>3. ASSUME NEW g \in Hosts, Free(toServer[g], {Approval(c)}), ~Free(toServer'[g], {Approval(c)})
      PROVE  g = h /\ c \in S
  <2>1. toServer[g] \in Seq(FramesToServer) /\ g = h /\ toServer'[g] = toServer[g] \o fs
    BY <1>1, <1>3, HostIsPeer DEF Written, Types, ChannelTypeOK
  <2>2. Free(toServer[g] \o fs, {Approval(c)})
          <=> Free(toServer[g], {Approval(c)}) /\ Free(fs, {Approval(c)})
    BY <1>2, <2>1, ConcatHolds
  <2> QED
    BY <1>2, <1>3, <2>1, <2>2
<1>4. \A g \in Hosts : ~Free(toServer'[g], {Approval(c)}) => hostPc'[g][c] # "none"
  BY <1>2, <1>3 DEF Approving
<1>5. verdicts'[c] = <<TRUE>> => \E g \in Hosts : hostPc'[g][c] # "none"
  <2>1. CASE c \in S
    BY <1>2, <2>1
  <2>2. CASE Free(approvalQueue[h], {c}) /\ c \notin S
    BY <1>2, <2>2 DEF Approving
  <2>3. CASE ~Free(approvalQueue[h], {c}) /\ c \notin S
    <3>1. verdicts[c] = <<>>
      BY <2>3 DEF Token, Waiting
    <3>2. verdicts'[c] = <<FALSE>>
      <4>1. Append(<<>>, FALSE) = <<FALSE>> /\ (c \in S) = FALSE
        BY <2>3
      <4> QED
        BY <1>2, <2>3, <3>1, <4>1
    <3>3. <<FALSE>> # <<TRUE>>
      OBVIOUS
    <3> QED
      BY <3>2, <3>3
  <2> QED
    BY <2>1, <2>2, <2>3
<1> QED
  BY <1>4, <1>5 DEF Approving, Approval, ApprovalResponse

LEMMA HostGuests ==
  ASSUME Admission, Guests, HostNext, UNCHANGED <<serverVars, clientVars>>
  PROVE  Guests'
<1>1. IInv /\ Types /\ Token /\ UNCHANGED <<clientPc, clientOffer>>
  BY HostUsesChannels DEF Admission, IInv
<1>2. PICK h \in Hosts : HostStart(h) \/ HostReacts(h) \/ OperatorActs(h) \/ HostSuffers(h)
  BY DEF HostNext
<1>3. \A g \in Hosts, c \in Clients : Held(g, c)' /\ Served(g, c)'
  BY <1>1, <1>2, HostHolds, OtherHostHolds
<1>4. \A c \in Clients : Named(c)'
  BY <1>1 DEF Guests, Named
<1>5. ASSUME NEW c \in Clients
      PROVE  Approving(c)' /\ \A g \in Hosts : Piped(g, c)'
  <2>1. Approving(c) /\ \A g \in Hosts : Piped(g, c)
    BY DEF Guests, GuestOf
  <2>2. CASE Calm
    BY <1>1, <2>1, <2>2, CalmPipes, CalmIsSteady, SteadyApproving
  <2>3. ASSUME NEW k \in Hosts, HostStart(k)
        PROVE  Approving(c)' /\ \A g \in Hosts : Piped(g, c)'
    <3>1. HostRegister \in FramesToServer \ After(c)
      <4>1. HostRegister \notin Responses \cup Offers
        BY FramesDiffer DEF Forwarded
      <4> QED
        BY <4>1, ApprovalIs, FramesTyped
    <3>2. \A g \in Hosts : toServer'[g] \in {toServer[g], Append(toServer[g], HostRegister)}
      BY <1>1, <2>3, HostIsPeer DEF HostStart, Connect, Types, ChannelTypeOK
    <3>3. Less(toPeer'[c], toPeer[c]) /\ UNCHANGED <<hostPc, clientPc>>
      BY <2>3 DEF HostStart, Connect, Less, rtcVars
    <3> QED
      BY <1>1, <2>1, <2>3, <3>1, <3>2, <3>3, WritingPipes, HostStartSteady, SteadyApproving
  <2>4. ASSUME NEW k \in Hosts, HostOnRequest(k)
        PROVE  Approving(c)' /\ \A g \in Hosts : Piped(g, c)'
    <3>1. Reads(k, "APPROVAL_REQUEST") /\ UNCHANGED <<verdicts, toServer, hostPc>>
      BY <2>4 DEF HostOnRequest, rtcVars
    <3>2. PipeKeeps(toPeer[c], toPeer'[c], c) /\ \A g \in Hosts : PipeKeeps(toServer[g], toServer'[g], c)
      BY <1>1, <3>1, ReadingHolds, HostIsPeer, ClientIsPeer DEF PipeKeeps
    <3> QED
      BY <1>1, <2>1, <3>1, <3>2, PipesKeepPiped, QuietlyApproving
  <2>5. ASSUME NEW k \in Hosts, NEW S \in SUBSET Clients, Ruling(k, S)
        PROVE  Approving(c)' /\ \A g \in Hosts : Piped(g, c)'
    BY <1>1, <2>5, RulingPipes, RulingApproves
  <2> QED
    BY <2>2, <2>3, <2>4, <2>5, HostStepKinds
<1> QED
  BY <1>3, <1>4, <1>5 DEF Guests, GuestOf

-----------------------------------------------------------------------------
(* A client's steps.                                                       *)

LEMMA ClientMoves ==
  ASSUME Types, NEW d \in Clients, ClientCalmStep(d), NEW c \in Clients
  PROVE  /\ Listening(c) => Listening(c)'
         /\ clientPc'[c] = "new" => clientPc[c] = "new"
<1>1. \/ UNCHANGED clientPc
      \/ \E s \in {"remote", "answered", "open"} :
           clientPc[d] # "none" /\ clientPc' = [clientPc EXCEPT ![d] = s]
      \/ clientPc' = [clientPc EXCEPT ![d] = IF @ = "none" THEN @ ELSE "closed"]
  BY DEF ClientCalmStep, ClientExits, ClientIgnores, ClientOnSignal, ClientAppliesSignal,
     ClientAnswers, ClientSignalsAnswer, ClientSessionStarts, ClientMayOpen, ClientLosesSocket,
     rtcVars
<1> QED
  BY <1>1 DEF Listening, Types, RtcTypeOK

(* The one offer a client takes is the one that names it.                  *)
LEMMA ClientTakesOwn ==
  ASSUME Types, Token, Guests, NEW d \in Clients, ClientOnSignal(d)
  PROVE  Named(d)'
<1>1. /\ Reads(d, "SIGNAL_FORWARD") /\ ClientAppliesSignal(d, Head(toPeer[d]))
      /\ Named(d) /\ Approving(d) /\ Judged(d)
  BY DEF ClientOnSignal, Guests, Token
<1>2. CASE UNCHANGED <<clientPc, clientOffer>>
  BY <1>1, <1>2 DEF Named
<1>3. CASE ~UNCHANGED <<clientPc, clientOffer>>
  <2> DEFINE m == Head(toPeer[d])
  <2>1. /\ clientPc[d] = "new" /\ m.sdp = "offer"
        /\ clientOffer' = [clientOffer EXCEPT ![d] = m.for]
    BY <1>1, <1>3 DEF ClientAppliesSignal
  <2>2. /\ toPeer[d] \in Seq(FramesToPeer) /\ toPeer[d] # <<>> /\ m \in FramesToPeer
        /\ m.type = "SIGNAL_FORWARD"
    BY <1>1, ClientIsPeer DEF Reads, Types, ChannelTypeOK
  <2>3. m \in Offers
    <3>1. m \in Offers \/ m \in Answers
      BY <2>2, FrameFields
    <3>2. \A f \in Answers : f.sdp = "answer"
      BY DEF Answers, Answer
    <3> QED
      BY <2>1, <3>1, <3>2
  <2>4. PICK g \in Hosts, e \in Clients : m = Offer(g, e)
    BY <2>3 DEF Offers
  <2>5. PICK h \in Hosts : hostPc[h][d] # "none"
    BY <1>1, <2>1 DEF Judged, Approving
  <2>6. Free(toPeer[d], After(d))
    BY <2>1, <2>5 DEF Guests, GuestOf, Piped
  <2>7. m \notin After(d)
    BY <2>2, <2>6, TailHolds
  <2>8. e = d
    BY <2>4, <2>7 DEF After
  <2>9. m.for[2] = d
    <3>1. m.for = <<g, e>>
      BY <2>4 DEF Offer
    <3> QED
      BY <2>8, <3>1
  <2>10. clientOffer'[d][2] = d
    BY <2>1, <2>9 DEF Types, RtcTypeOK
  <2> QED
    BY <2>10 DEF Named
<1> QED
  BY <1>2, <1>3

LEMMA ClientNamed ==
  ASSUME Types, Token, Guests, NEW d \in Clients,
         ClientCalmStep(d) \/ ClientOnApproved(d), NEW c \in Clients
  PROVE  Named(c)'
<1>1. Named(c)
  BY DEF Guests
<1>2. CASE ClientOnSignal(d)
  <2>1. CASE c = d
    BY <1>2, <2>1, ClientTakesOwn
  <2>2. CASE c # d
    BY <1>1, <1>2, <2>2 DEF Named, ClientOnSignal, ClientAppliesSignal, Types, RtcTypeOK
  <2> QED
    BY <2>1, <2>2
<1>3. CASE ClientExits(d)
  <2>1. /\ c = d => clientPc'[c] \in {"none", "closed"} /\ clientOffer'[c] = None
        /\ c # d => clientPc'[c] = clientPc[c] /\ clientOffer'[c] = clientOffer[c]
    BY <1>3 DEF ClientExits, Types, RtcTypeOK
  <2> QED
    BY <1>1, <2>1 DEF Named
<1>4. CASE \/ ClientOnApproved(d) \/ ClientIgnores(d) \/ ClientAnswers(d)
           \/ ClientSessionStarts(d) \/ ClientLosesSocket(d)
  <2>1. /\ UNCHANGED clientOffer
        /\ \/ UNCHANGED clientPc
           \/ clientPc' = [clientPc EXCEPT ![d] = "new"]
           \/ \E s \in {"answered", "open"} :
                clientPc[d] \in {"remote", "answered"} /\ clientPc' = [clientPc EXCEPT ![d] = s]
    BY <1>4 DEF ClientOnApproved, ClientIgnores, ClientAnswers, ClientSignalsAnswer,
       ClientSessionStarts, ClientMayOpen, ClientLosesSocket, rtcVars
  <2>2. clientPc'[c] \in {"remote", "answered", "open"}
          => clientPc[c] \in {"remote", "answered", "open"}
    BY <2>1 DEF Types, RtcTypeOK
  <2> QED
    BY <1>1, <2>1, <2>2 DEF Named
<1> QED
  BY <1>2, <1>3, <1>4 DEF ClientCalmStep

(* The approval is read when it is the only one, and no offer for another  *)
(* client is on its way.                                                   *)
LEMMA ApprovedPipes ==
  ASSUME Types, Guests, NEW d \in Clients, ClientOnApproved(d), UNCHANGED <<hostVars>>,
         NEW h \in Hosts, NEW c \in Clients
  PROVE  /\ Piped(h, c)'
         /\ hostPc[h][c] # "none" /\ Listening(c) => Listening(c)'
<1>1. /\ Reads(d, "APPROVAL_RESPONSE") /\ UNCHANGED <<toServer, hostPc>>
      /\ Head(toPeer[d]) = Approval(d) /\ toPeer[d] # <<>> /\ toPeer[d] \in Seq(FramesToPeer)
      /\ clientPc' = [clientPc EXCEPT ![d] = "new"]
      /\ toPeer'[d] = Tail(toPeer[d])
  BY ApprovalRead, ClientIsPeer DEF ClientOnApproved, Reads, Types, ChannelTypeOK
<1>2. Piped(h, c)
  BY DEF Guests, GuestOf
<1>3. CASE c # d
  <2>1. PipeKeeps(toPeer[c], toPeer'[c], c) /\ PipeKeeps(toServer[h], toServer'[h], c)
    BY <1>1, ReadingHolds, ClientIsPeer DEF PipeKeeps
  <2>2. clientPc'[c] = clientPc[c]
    BY <1>1, <1>3 DEF Types, RtcTypeOK
  <2> QED
    BY <1>1, <1>2, <2>1, <2>2, PipesKeepPiped DEF Listening
<1>4. CASE c = d /\ hostPc[h][c] = "none"
  BY <1>1, <1>4 DEF Piped
<1>5. CASE c = d /\ hostPc[h][c] # "none"
  <2>1. ~Free(toPeer[c], {Approval(c)})
    <3>1. Free(toPeer[c], {Approval(c)}) => Head(toPeer[c]) \notin {Approval(c)}
      BY <1>1, <1>5, TailHolds
    <3> QED
      BY <1>1, <1>5, <3>1
  <2>2. /\ Orderly(toPeer[c], Approval(c), After(c))
        /\ Free(toServer[h], After(c))
        /\ clientPc[c] = "none"
    BY <1>2, <1>5, <2>1 DEF Piped
  <2>3. Free(toPeer'[c], After(c))
    BY <1>1, <1>5, <2>2, TailHolds
  <2>4. \A s : Free(s, After(c)) => Free(s, {Approval(c)})
    BY ApprovalIs DEF Free
  <2>5. After(c)' = After(c) /\ Approval(c)' = Approval(c)
    BY DEF After, Approval, ApprovalResponse, Offer
  <2>6. Orderly(toPeer'[c], Approval(c), After(c)) /\ Orderly(toServer[h], Approval(c), After(c))
    BY <2>2, <2>3, <2>4, FreeIsOrderly
  <2> QED
    BY <1>1, <2>2, <2>3, <2>4, <2>5, <2>6 DEF Piped, Listening
<1> QED
  BY <1>3, <1>4, <1>5

LEMMA ClientGuests ==
  ASSUME Admission, Guests, ClientNext, UNCHANGED <<serverVars, hostVars>>
  PROVE  Guests'
<1>1. IInv /\ Types /\ Token /\ OffersNamed /\ UNCHANGED <<hostPc, hostAnswer>>
  BY ClientUsesChannels DEF Admission, IInv
<1>2. ASSUME NEW c \in Clients, NEW h \in Hosts, hostPc[h][c] # "none" /\ Listening(c) => Listening(c)'
      PROVE  Held(h, c)' /\ Served(h, c)'
  BY <1>1, <1>2, HoldsOn DEF Guests, GuestOf, hostVars, Engaged
<1>3. PICK d \in Clients : \/ ClientStart(d)
                           \/ ClientOnMatchSuccess(d)
                           \/ ClientOnApproved(d)
                           \/ ClientCalmStep(d)
  BY ClientStepKinds
<1>4. ASSUME NEW c \in Clients
      PROVE  Approving(c) /\ Named(c) /\ \A h \in Hosts : Piped(h, c)
  BY DEF Guests, GuestOf
<1>5. ASSUME NEW c \in Clients, NEW f \in FramesToServer, f \in Lookups \cup Requests,
             \A h \in Hosts : toServer'[h] \in {toServer[h], Append(toServer[h], f)},
             Less(toPeer'[c], toPeer[c]), UNCHANGED rtcVars
      PROVE  Named(c)' /\ \A h \in Hosts : GuestOf(h, c)'
  <2>1. f \in FramesToServer \ After(c)
    <3>1. f \notin Responses \cup Offers
      BY <1>5, FramesDiffer DEF Forwarded
    <3> QED
      BY <3>1, ApprovalIs
  <2>2. Named(c)' /\ (Listening(c) => Listening(c)')
    BY <1>4, <1>5 DEF Named, Listening, rtcVars
  <2>3. \A h \in Hosts : Piped(h, c)'
    BY <1>1, <1>4, <1>5, <2>1, WritingPipes DEF rtcVars
  <2> QED
    BY <1>2, <2>2, <2>3 DEF GuestOf
<1>6. CASE ClientStart(d)
  <2>1. PICK k \in Codes : Connect(d, ClientLookup(k))
    BY <1>6 DEF ClientStart
  <2>2. ClientLookup(k) \in FramesToServer /\ ClientLookup(k) \in Lookups
    BY FramesTyped, FramesAre
  <2>3. \A h \in Hosts : toServer'[h] = toServer[h]
    BY <1>1, <2>1, PeersAssumption, HostIsPeer DEF Connect, Types, ChannelTypeOK
  <2>4. \A c \in Clients : Less(toPeer'[c], toPeer[c])
    BY <2>1 DEF Connect, Less
  <2>5. \A c \in Clients : Approving(c)'
    BY <1>1, <1>4, <1>6, ClientStartSteady, SteadyApproving
  <2> QED
    BY <1>5, <1>6, <2>2, <2>3, <2>4, <2>5 DEF Guests, ClientStart
<1>7. CASE ClientOnMatchSuccess(d)
  <2>1. ApprovalRequest(d) \in FramesToServer /\ ApprovalRequest(d) \in Requests
    BY FramesTyped, FramesAre
  <2>2. \A h \in Hosts : toServer'[h] = toServer[h]
    BY <1>1, <1>7, PeersAssumption, HostIsPeer
    DEF ClientOnMatchSuccess, Written, Types, ChannelTypeOK
  <2>3. \A c \in Clients : Less(toPeer'[c], toPeer[c])
    BY <1>1, <1>7, ClientIsPeer DEF ClientOnMatchSuccess, Reads, Less, Types, ChannelTypeOK
  <2>4. \A c \in Clients : Approving(c)'
    BY <1>1, <1>4, <1>7, MatchSuccessSteady, SteadyApproving
  <2> QED
    BY <1>5, <1>7, <2>1, <2>2, <2>3, <2>4 DEF Guests, ClientOnMatchSuccess
<1>8. CASE ClientOnApproved(d)
  <2>1. \A c \in Clients : Named(c)' /\ \A h \in Hosts : GuestOf(h, c)'
    BY <1>1, <1>2, <1>8, ClientNamed, ApprovedPipes DEF GuestOf
  <2>2. \A c \in Clients : Approving(c)'
    BY <1>1, <1>4, <1>8, QuietlyApproving DEF ClientOnApproved, hostVars
  <2> QED
    BY <2>1, <2>2 DEF Guests
<1>9. CASE ClientCalmStep(d)
  <2>1. Calm
    BY <1>1, <1>9, ClientStepsCalm
  <2>2. \A c \in Clients : Named(c)' /\ Approving(c)'
    BY <1>1, <1>4, <1>9, <2>1, ClientNamed, CalmIsSteady, SteadyApproving
  <2>3. \A c \in Clients, h \in Hosts : GuestOf(h, c)'
    BY <1>1, <1>2, <1>9, <2>1, ClientMoves, CalmPipes DEF GuestOf
  <2> QED
    BY <2>2, <2>3 DEF Guests
<1> QED
  BY <1>3, <1>6, <1>7, <1>8, <1>9

-----------------------------------------------------------------------------
(* The matchmaker's steps.                                                 *)

LEMMA ServingPipes ==
  ASSUME Types, NEW s \in Peers, NEW m, NEW n \in FramesToPeer, Serves(s, m, n),
         UNCHANGED rtcVars, NEW h \in Hosts, NEW c \in Clients, Piped(h, c),
         n \notin After(c) \/ toPeer'[c] = toPeer[c]
  PROVE  Piped(h, c)'
<1>1. /\ toPeer[c] \in Seq(FramesToPeer) /\ toServer[h] \in Seq(FramesToServer)
      /\ Less(toServer'[h], toServer[h])
      /\ toPeer'[c] = toPeer[c] \/ toPeer'[c] = Append(toPeer[c], n)
  BY ReceivingHolds, HostIsPeer, ClientIsPeer DEF Types, ChannelTypeOK, Serves
<1>2. PipeKeeps(toServer[h], toServer'[h], c)
  BY <1>1, LessPipe
<1>3. PipeKeeps(toPeer[c], toPeer[c], c) /\ (n \notin After(c) => PipeKeeps(toPeer[c], Append(toPeer[c], n), c))
  BY <1>1, AppendPipe DEF PipeKeeps
<1>4. PipeKeeps(toPeer[c], toPeer'[c], c)
  BY <1>1, <1>3
<1> QED
  BY <1>2, <1>4, PipesKeepPiped DEF rtcVars

LEMMA ServingApproves ==
  ASSUME Types, NEW s \in Peers, NEW m, Receives(s, m), UNCHANGED <<rtcVars, hostVars>>,
         NEW c \in Clients, Approving(c)
  PROVE  Approving(c)'
<1>1. \A h \in Hosts : Free(toServer[h], {Approval(c)}) => Free(toServer'[h], {Approval(c)})
  BY ReceivingHolds, LessHolds, HostIsPeer DEF Types, ChannelTypeOK
<1> QED
  BY <1>1, QuietlyApproving DEF rtcVars, hostVars

(* A frame of the host of c: it was the next one, so that the rest of what *)
(* that host wrote is as it must be after it.                              *)
LEMMA OwnFramePipes ==
  ASSUME Types, NEW h \in Hosts, NEW m \in Forwarded, Serves(h, m, m), UNCHANGED rtcVars,
         NEW c \in Clients, Piped(h, c), hostPc[h][c] # "none", m \in After(c)
  PROVE  Piped(h, c)'
<1>1. /\ toPeer[c] \in Seq(FramesToPeer) /\ toServer[h] \in Seq(FramesToServer)
      /\ toServer[h] # <<>> /\ Head(toServer[h]) = m /\ toServer'[h] = Tail(toServer[h])
      /\ toPeer'[c] = toPeer[c] \/ toPeer'[c] = Append(toPeer[c], m)
      /\ m \in FramesToPeer
  BY ReceivingHolds, FramesTyped, HostIsPeer, ClientIsPeer DEF Types, ChannelTypeOK, Serves
<1>2. /\ Orderly(toPeer[c], Approval(c), After(c))
      /\ Orderly(toServer[h], Approval(c), After(c))
      /\ Free(toPeer[c], {Approval(c)}) \/ Free(toServer[h], After(c))
      /\ clientPc[c] # "none" => Free(toPeer[c], {Approval(c)}) /\ Free(toServer[h], {Approval(c)})
      /\ clientPc[c] = "new" => Free(toPeer[c], After(c)) /\ Free(toServer[h], After(c))
  BY DEF Piped
<1>3. ~Free(toServer[h], After(c))
  <2>1. Free(toServer[h], After(c)) => Head(toServer[h]) \notin After(c)
    BY <1>1, TailHolds
  <2> QED
    BY <1>1, <2>1
<1>4. Free(toPeer[c], {Approval(c)}) /\ clientPc[c] # "new"
  BY <1>2, <1>3
<1>5. Orderly(toPeer'[c], Approval(c), After(c))
  <2>1. Orderly(Append(toPeer[c], m), Approval(c), After(c))
    BY <1>1, <1>2, <1>4, AppendHolds
  <2> QED
    BY <1>1, <1>2, <2>1
<1>6. /\ Orderly(Tail(toServer[h]), Approval(c), After(c))
      /\ m = Approval(c) => Free(Tail(toServer[h]), After(c))
      /\ Free(toServer[h], {Approval(c)}) => Free(Tail(toServer[h]), {Approval(c)})
  BY <1>1, <1>2, TailHolds
<1>7. After(c)' = After(c) /\ Approval(c)' = Approval(c) /\ UNCHANGED <<hostPc, clientPc>>
  BY DEF After, Approval, ApprovalResponse, Offer, rtcVars
<1>8. CASE m = Approval(c)
  <2>1. ~Free(toServer[h], {Approval(c)})
    <3>1. Free(toServer[h], {Approval(c)}) => Head(toServer[h]) \notin {Approval(c)}
      BY <1>1, TailHolds
    <3> QED
      BY <1>1, <1>8, <3>1
  <2>2. clientPc[c] = "none"
    BY <1>2, <2>1
  <2> QED
    BY <1>1, <1>5, <1>6, <1>7, <1>8, <2>2 DEF Piped
<1>9. CASE m # Approval(c)
  <2>1. Free(Append(toPeer[c], m), {Approval(c)})
          <=> Free(toPeer[c], {Approval(c)}) /\ m \notin {Approval(c)}
    <3>1. toPeer[c] \in Seq(FramesToPeer) /\ m \in FramesToPeer
      BY <1>1
    <3> QED
      BY <3>1, AppendHolds
  <2>2. Free(toPeer'[c], {Approval(c)})
    BY <1>1, <1>4, <1>9, <2>1
  <2> QED
    BY <1>1, <1>2, <1>4, <1>5, <1>6, <1>7, <2>2 DEF Piped
<1> QED
  BY <1>8, <1>9

(* What c must not read after its approval, no other host sends it.        *)
LEMMA ForwardPipes ==
  ASSUME Admission, Matched, Guests, NEW s \in Peers, HandleForward(s),
         UNCHANGED <<rtcVars, hostVars, clientVars>>, NEW h \in Hosts, NEW c \in Clients
  PROVE  Piped(h, c)'
<1>0. Types /\ Rooms /\ Token /\ Piped(h, c) /\ Approving(c)
  BY DEF Admission, IInv, Guests, GuestOf
<1>1. PICK m \in Forwarded :
        /\ Serves(s, m, m) /\ m \in FramesToPeer
        /\ toPeer' = Sent(RoomMates(s), m)
        /\ UNCHANGED <<link, activeSessions, socketToSession, issued, matchedHost>>
  BY <1>0, ForwardIs
<1>2. CASE hostPc[h][c] = "none"
  BY <1>2 DEF Piped, rtcVars
<1>3. CASE m \notin After(c)
  BY <1>0, <1>1, <1>3, ServingPipes
<1>4. CASE hostPc[h][c] # "none" /\ m \in After(c) /\ s = h
  BY <1>0, <1>1, <1>4, OwnFramePipes
<1>5. CASE hostPc[h][c] # "none" /\ m \in After(c) /\ s # h
  <2>1. ~Free(toServer[s], {m}) /\ toServer[s] \in Seq(FramesToServer)
    BY <1>0, <1>1, ReceivingHolds DEF Serves
  <2>2. m \in Responses \cup Offers
    BY <1>5, ApprovalIs
  <2>3. s \in Hosts
    <3>1. s \in Hosts \/ s \in Clients
      BY DEF Peers
    <3>2. ASSUME s \in Clients PROVE FALSE
      <4>1. toServer[s] \in Seq(ClientFrames(s))
        BY <1>0, <3>2 DEF Rooms, Senders
      <4>2. m \in ClientFrames(s)
        BY <2>1, <4>1 DEF Free
      <4> QED
        BY <2>2, <3>2, <4>2, FramesAre, FramesDiffer DEF Forwarded
    <3> QED
      BY <3>1, <3>2
  <2>4. m # Approval(c)
    <3>1. Judged(c)
      BY <1>0 DEF Token
    <3>2. hostPc[s][c] = "none"
      BY <1>5, <2>3, <3>1 DEF Judged
    <3> QED
      BY <1>0, <2>1, <2>3, <3>2 DEF Approving
  <2>5. c \notin RoomMates(s)
    <3> SUFFICES ASSUME c \in RoomMates(s) PROVE FALSE
      OBVIOUS
    <3>1. matchedHost[c] = s
      BY <1>0, <2>3, MatesMatch DEF Rooms, Matched
    <3>2. matchedHost[c] \in {h, None}
      BY <1>5 DEF Matched, Involved
    <3>3. s # None
      BY NoneIsNoPeer
    <3> QED
      BY <1>5, <3>1, <3>2, <3>3
  <2>6. toPeer'[c] = toPeer[c]
    BY <1>1, <2>5, ClientIsPeer DEF Sent
  <2> QED
    BY <1>0, <1>1, <2>6, ServingPipes
<1> QED
  BY <1>2, <1>3, <1>4, <1>5

LEMMA ServerGuests ==
  ASSUME Admission, Matched, Guests, ServerNext, UNCHANGED <<rtcVars, hostVars, clientVars>>
  PROVE  Guests'
<1>0. Types /\ Rooms /\ NoSeats
  BY DEF Admission, IInv
<1>1. \A c \in Clients : Named(c)' /\ \A h \in Hosts : Held(h, c)' /\ Served(h, c)'
  BY DEF Guests, GuestOf, Named, Held, Awaited, Reserved, Served, Listening, Engaged, rtcVars, hostVars
<1>2. ASSUME NEW c \in Clients
      PROVE  Approving(c)' /\ \A h \in Hosts : Piped(h, c)'
  <2>1. Approving(c) /\ \A h \in Hosts : Piped(h, c)
    BY DEF Guests, GuestOf
  <2>2. ASSUME NEW s \in Peers, NEW m, NEW n \in FramesToPeer, n \notin Forwarded,
               Receives(s, m), toPeer' = Sent({s}, n)
        PROVE  Approving(c)' /\ \A h \in Hosts : Piped(h, c)'
    <3>1. Serves(s, m, n)
      BY <1>0, <2>2 DEF Serves, Sent, Types, ChannelTypeOK
    <3>2. n \notin After(c)
      BY <2>2, ApprovalIs DEF Forwarded
    <3> QED
      BY <1>0, <2>1, <2>2, <3>1, <3>2, ServingPipes, ServingApproves
  <2>3. ASSUME NEW s \in Peers, HandleHostRegister(s)
        PROVE  Approving(c)' /\ \A h \in Hosts : Piped(h, c)'
    <3>1. PICK k \in Codes : toPeer' = Sent({s}, HostRegistered(k))
      BY <2>3 DEF HandleHostRegister
    <3>2. HostRegistered(k) \in FramesToPeer /\ HostRegistered(k) \notin Forwarded
      BY FramesTyped, FramesDiffer
    <3> QED
      BY <2>2, <2>3, <3>1, <3>2 DEF HandleHostRegister
  <2>4. ASSUME NEW s \in Peers, HandleClientLookup(s)
        PROVE  Approving(c)' /\ \A h \in Hosts : Piped(h, c)'
    <3>1. PICK k \in Codes, n \in {MatchSuccess, MatchFailed} :
            Receives(s, ClientLookup(k)) /\ toPeer' = Sent({s}, n)
      BY <2>4 DEF HandleClientLookup
    <3>2. n \in FramesToPeer /\ n \notin Forwarded
      BY FramesTyped, FramesDiffer
    <3> QED
      BY <2>2, <3>1, <3>2
  <2>5. ASSUME NEW s \in Peers, HandleForward(s)
        PROVE  Approving(c)' /\ \A h \in Hosts : Piped(h, c)'
    <3>1. \E m : Receives(s, m)
      BY <2>5 DEF HandleForward
    <3> QED
      BY <1>0, <2>1, <2>5, <3>1, ServingApproves, ForwardPipes
  <2>6. CASE UNCHANGED toPeer /\ \A h \in Hosts : toServer'[h] \in {toServer[h], <<>>}
    <3>1. PipeKeeps(toPeer[c], toPeer'[c], c) /\ \A h \in Hosts : PipeKeeps(toServer[h], toServer'[h], c)
      BY <2>6, EmptyHolds DEF PipeKeeps
    <3> QED
      BY <2>1, <3>1, PipesKeepPiped, QuietlyApproving DEF PipeKeeps, rtcVars, hostVars
  <2>7. ASSUME NEW s \in Peers, HandleClose(s)
        PROVE  UNCHANGED <<toPeer, toServer>>
    <3>1. socketToSession[s] # None => socketToSession[s] \in Codes
      BY <1>0 DEF Types, ServerTypeOK
    <3>2. ~SitsIn(s, socketToSession[s]) \/ socketToSession[s] = None
      BY <1>0, <3>1, NoneIsNoPeer DEF SitsIn, NoSeats
    <3> QED
      BY <2>7, <3>2 DEF HandleClose
  <2>8. ServerRestart => UNCHANGED toPeer /\ \A h \in Hosts : toServer'[h] = <<>>
    BY HostIsPeer DEF ServerRestart
  <2> QED
    BY <2>3, <2>4, <2>5, <2>6, <2>7, <2>8 DEF ServerNext, ServerHandles
<1> QED
  BY <1>1, <1>2 DEF Guests, GuestOf

-----------------------------------------------------------------------------
LEMMA InitGuests == Init => Guests
<1> SUFFICES ASSUME Init PROVE Guests
  OBVIOUS
<1>1. /\ \A p \in Peers : toServer[p] = <<>> /\ toPeer[p] = <<>>
      /\ \A h \in Hosts, c \in Clients : hostPc[h][c] = "none"
      /\ \A c \in Clients : clientPc[c] = "none" /\ clientOffer[c] = None /\ verdicts[c] = <<>>
  BY DEF Init, ChannelInit, RtcInit, HostInit
<1>2. \A c \in Clients, h \in Hosts : Held(h, c) /\ Served(h, c) /\ Piped(h, c)
  BY <1>1 DEF Held, Awaited, Served, Piped
<1>3. <<>> # <<TRUE>>
  <2>1. Len(<<>>) = 0 /\ Len(<<TRUE>>) = 1
    OBVIOUS
  <2> QED
    BY <2>1
<1>4. \A c \in Clients : Approving(c)
  <2>1. \A c : Free(<<>>, {Approval(c)})
    BY EmptyHolds
  <2>2. \A c \in Clients, h \in Hosts : Free(toServer[h], {Approval(c)})
    BY <1>1, <2>1, HostIsPeer
  <2>3. \A c \in Clients : verdicts[c] # <<TRUE>>
    BY <1>1, <1>3
  <2> QED
    BY <2>2, <2>3 DEF Approving
<1>5. \A c \in Clients : Named(c)
  BY <1>1 DEF Named
<1> QED
  BY <1>2, <1>4, <1>5 DEF Guests, GuestOf

LEMMA GuestsStep ==
  ASSUME Admission, Matched, Guests, [Next]_vars
  PROVE  Guests'
<1>1. CASE ServerNext /\ UNCHANGED <<rtcVars, hostVars, clientVars>>
  BY <1>1, ServerGuests
<1>2. CASE HostNext /\ UNCHANGED <<serverVars, clientVars>>
  BY <1>2, HostGuests
<1>3. CASE ClientNext /\ UNCHANGED <<serverVars, hostVars>>
  BY <1>3, ClientGuests
<1>4. CASE UNCHANGED vars
  <2>1. UNCHANGED <<toServer, toPeer, hostPc, hostAnswer, clientPc, clientOffer, hostUp,
                    isApproving, lobby, verdicts>>
    BY <1>4 DEF vars, channelVars, rtcVars, hostVars
  <2>2. \A c \in Clients : Approving(c)' /\ Named(c)'
    BY <2>1, QuietlyApproving DEF Guests, Named
  <2>3. \A c \in Clients, h \in Hosts : Held(h, c)' /\ Served(h, c)'
    BY <2>1 DEF Guests, GuestOf, Held, Awaited, Reserved, Served, Listening, Engaged
  <2>4. \A c \in Clients, h \in Hosts : Piped(h, c)'
    BY <2>1, PipesKeepPiped DEF Guests, GuestOf, PipeKeeps
  <2> QED
    BY <2>2, <2>3, <2>4 DEF Guests, GuestOf
<1> QED
  BY <1>1, <1>2, <1>3, <1>4 DEF Next

(* Only the client an operator selected gets a shell, and no client takes  *)
(* an offer for another's, when no code is issued twice.                   *)
THEOREM GuestsWereSelected ==
  ASSUME ~ReissueCodes
  PROVE  Spec => []GuestWasSelected
<1>1. Admission /\ Matched /\ Guests /\ [Next]_vars => Guests'
  BY GuestsStep
<1>2. Admission /\ Guests => GuestWasSelected
  <2> SUFFICES ASSUME Admission, Guests PROVE GuestWasSelected
    OBVIOUS
  <2>1. \A c \in Clients : Judged(c) /\ Named(c)
    BY DEF Admission, Token, Guests
  <2>2. \A h \in Hosts, c \in Clients :
          hostPc[h][c] = "open" => hostAnswer[h][c] = c /\ verdicts[c] = <<TRUE>>
    BY <2>1 DEF Guests, GuestOf, Served, Judged
  <2> QED
    BY <2>1, <2>2 DEF GuestWasSelected, Judged, Named
<1> QED
  BY <1>1, <1>2, InitGuests, AdmissionHolds, MatchedHolds, PTL DEF Spec

===============================================================================
