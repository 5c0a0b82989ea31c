-------------------------- MODULE HostContractProofs --------------------------
(***************************************************************************)
(* The lock and the terminal of a host, whatever the matchmaker does       *)
(* within the protocol: the same invariant as in the composed system, now  *)
(* with CLIENT_DISCONNECT frames among what the host reads.                *)
(***************************************************************************)
EXTENDS HostContract, HostAgentProofs

GuestsTyped ==
  /\ guest \in [Clients -> {"away", "knocked", "approved", "left"}]
  /\ room \in [Clients -> Hosts \cup {None}]

(* The inductive invariant.                                                *)
ContractInv == HostTypes /\ GuestsTyped /\ HostDiscipline

LEMMA ContractInitEstablishes == ContractInit => ContractInv
<1> SUFFICES ASSUME ContractInit PROVE ContractInv
  OBVIOUS
<1>1. ChannelTypeOK /\ RtcTypeOK /\ GuestsTyped
  BY DEF ContractInit, ChannelInit, RtcInit, ChannelTypeOK, LinkStates, RtcTypeOK,
         HostPcStates, ClientPcStates, GuestsTyped
<1>2. HostTypeOK
  <2>1. CookedStdin \in Stdins
    BY DEF CookedStdin, Stdins
  <2>2. <<>> \in Seq(BOOLEAN) /\ <<>> \in Seq(Clients)
    OBVIOUS
  <2> QED
    BY <2>1, <2>2 DEF ContractInit, HostInit, HostTypeOK
<1>3. HostDiscipline
  <2> SUFFICES ASSUME NEW h \in Hosts PROVE Locked(h) /\ Owned(h)
    BY DEF HostDiscipline
  <2>1. /\ Engaged(h) = {} /\ InUse(h) = {} /\ ~LobbyWaits(h)
        /\ lobby[h] = None /\ settled[h] = None
    BY DEF ContractInit, RtcInit, HostInit, Engaged, Live, InUse, LobbyWaits
  <2>2. Owned(h)
    BY <2>1 DEF ContractInit, HostInit, Owned, CookedStdin
  <2> QED
    BY <2>1, <2>2 DEF Locked
<1> QED
  BY <1>1, <1>2, <1>3 DEF ContractInv, HostTypes

LEMMA DeliverTyped ==
  ASSUME ChannelTypeOK, NEW h \in Hosts, NEW m \in FramesToPeer, Deliver(h, m)
  PROVE  toPeer' \in [Peers -> Seq(FramesToPeer)]
  BY HostIsPeer DEF ChannelTypeOK, Deliver

(* What the other side does: it writes to the host, or takes what the host *)
(* wrote, and never touches the host itself.                               *)
LEMMA KnockOrLeaveTyped ==
  ASSUME ChannelTypeOK, RtcTypeOK, GuestsTyped, NEW h \in Hosts, NEW c \in Clients,
         Knock(h, c) \/ Leave(h, c)
  PROVE  ChannelTypeOK' /\ RtcTypeOK' /\ GuestsTyped' /\ UNCHANGED hostPc
<1>1. toPeer' \in [Peers -> Seq(FramesToPeer)]
  BY FramesTyped, DeliverTyped DEF Knock, Leave
<1>2. ChannelTypeOK'
  BY <1>1 DEF Knock, Leave, ChannelTypeOK
<1>3. RtcTypeOK' /\ UNCHANGED hostPc
  BY DEF Knock, Leave, RtcTypeOK, ClientPcStates, rtcVars
<1>4. GuestsTyped'
  BY DEF Knock, Leave, GuestsTyped
<1> QED
  BY <1>2, <1>3, <1>4

LEMMA TakeTyped ==
  ASSUME ChannelTypeOK, RtcTypeOK, GuestsTyped, NEW h \in Hosts, Take(h)
  PROVE  ChannelTypeOK' /\ RtcTypeOK' /\ GuestsTyped' /\ UNCHANGED hostPc
<1>1. /\ toServer' \in [Peers -> Seq(FramesToServer)]
      /\ link' \in [Peers -> LinkStates]
      /\ UNCHANGED room
  BY HostIsPeer DEF Take, ChannelTypeOK
<1>2. \/ Register(h)
      \/ \E c \in Clients : Judge(h, c) \/ AnswerOffer(h, c)
  BY DEF Take
<1>3. CASE Register(h)
  <2>1. toPeer' \in [Peers -> Seq(FramesToPeer)]
    BY <1>3, FramesTyped, DeliverTyped DEF Register
  <2> QED
    BY <1>1, <1>3, <2>1 DEF Register, ChannelTypeOK, RtcTypeOK, GuestsTyped, rtcVars
<1>4. ASSUME NEW c \in Clients, Judge(h, c)
      PROVE  ChannelTypeOK' /\ RtcTypeOK' /\ GuestsTyped' /\ UNCHANGED hostPc
  <2>1. UNCHANGED <<toPeer, rtcVars>>
    BY <1>4 DEF Judge
  <2>2. GuestsTyped'
    BY <1>1, <1>4 DEF Judge, GuestsTyped
  <2> QED
    BY <1>1, <2>1, <2>2 DEF ChannelTypeOK, RtcTypeOK, rtcVars
<1>5. ASSUME NEW c \in Clients, AnswerOffer(h, c)
      PROVE  ChannelTypeOK' /\ RtcTypeOK' /\ GuestsTyped' /\ UNCHANGED hostPc
  <2>1. toPeer' \in [Peers -> Seq(FramesToPeer)]
    <3>1. Answer(c, h, c) \in FramesToPeer
      BY FramesTyped
    <3>2. UNCHANGED toPeer \/ Deliver(h, Answer(c, h, c))
      BY <1>5 DEF AnswerOffer
    <3> QED
      BY <3>1, <3>2, DeliverTyped DEF ChannelTypeOK
  <2>2. RtcTypeOK' /\ GuestsTyped' /\ UNCHANGED hostPc
    <3>1. UNCHANGED <<guest, hostPc, hostAnswer>>
      BY <1>5 DEF AnswerOffer
    <3>2. clientPc' \in [Clients -> ClientPcStates]
      BY <1>5 DEF AnswerOffer, RtcTypeOK, ClientPcStates
    <3>3. clientOffer' \in [Clients -> (Hosts \X Clients) \cup {None}]
      BY <1>5 DEF AnswerOffer, RtcTypeOK
    <3> QED
      BY <1>1, <3>1, <3>2, <3>3 DEF RtcTypeOK, GuestsTyped
  <2> QED
    BY <1>1, <2>1, <2>2 DEF ChannelTypeOK
<1> QED
  BY <1>2, <1>3, <1>4, <1>5

LEMMA ContractStepKeeps ==
  ASSUME ContractInv, [ContractNext]_contractVars
  PROVE  ContractInv'
<1>1. CASE HostNext /\ UNCHANGED <<guest, room>>
  BY <1>1, HostStepTyped, HostStepDisciplined DEF ContractInv, GuestsTyped
<1>2. ASSUME UNCHANGED hostVars,
             ChannelTypeOK' /\ RtcTypeOK' /\ GuestsTyped' /\ UNCHANGED hostPc
      PROVE  ContractInv'
  <2>1. HostTypeOK'
    BY <1>2 DEF ContractInv, HostTypes, HostTypeOK, hostVars
  <2>2. HostDiscipline'
    BY <1>2, OthersKeepDiscipline DEF ContractInv, hostVars
  <2> QED
    BY <1>2, <2>1, <2>2 DEF ContractInv, HostTypes
<1>3. ASSUME NEW h \in Hosts, Take(h) \/ (\E c \in Clients : Knock(h, c) \/ Leave(h, c)),
             UNCHANGED hostVars
      PROVE  ContractInv'
  BY <1>2, <1>3, KnockOrLeaveTyped, TakeTyped DEF ContractInv, HostTypes
<1>4. CASE UNCHANGED contractVars
  <2>1. ChannelTypeOK' /\ RtcTypeOK' /\ GuestsTyped'
    BY <1>4 DEF ContractInv, HostTypes, contractVars, channelVars, rtcVars, ChannelTypeOK,
       RtcTypeOK, GuestsTyped
  <2> QED
    BY <1>2, <1>4, <2>1 DEF contractVars, rtcVars
<1> QED
  BY <1>1, <1>3, <1>4 DEF ContractNext

(* ContractInv holds in every reachable state.                             *)
LEMMA ContractInvariance == ContractSpec => []ContractInv
  BY ContractInitEstablishes, ContractStepKeeps, PTL DEF ContractSpec

-----------------------------------------------------------------------------
(* Every variable of the host keeps its type.                              *)
THEOREM ContractTypeCorrect == ContractSpec => []ContractTypeOK
<1>1. ContractInv => ContractTypeOK
  BY DEF ContractInv, HostTypes, GuestsTyped, ContractTypeOK
<1> QED
  BY <1>1, ContractInvariance, PTL

(* The lock of processQueue excludes a second lobby or guest whatever the  *)
(* matchmaker sends, clients that leave while the lobby is up included.    *)
THEOREM ContractExclusive == ContractSpec => []HostExclusive
<1>1. ContractInv => HostExclusive
  BY DisciplineSuffices DEF ContractInv
<1> QED
  BY <1>1, ContractInvariance, PTL

(* So does the ownership of the terminal.                                  *)
THEOREM ContractTerminalOwned == ContractSpec => []TerminalOwned
<1>1. ContractInv => TerminalOwned
  BY DisciplineSuffices DEF ContractInv
<1> QED
  BY <1>1, ContractInvariance, PTL

-----------------------------------------------------------------------------
(* What a client that left still has at a host.                            *)

Request(c)    == {ApprovalRequest(c)}
Departure(c)  == {ClientDisconnect(c)}
ResponsesTo(c) == {ApprovalResponse(c, b) : b \in BOOLEAN}

(* The knock of c is still to be decided by h.                             *)
Pending(h, c) == ~Free(approvalQueue[h], {c}) \/ ~Free(toPeer[h], Request(c))

(* It is in one place, and no response to it has been written.             *)
Once(h, c) ==
  /\ Orderly(toPeer[h], ApprovalRequest(c), Request(c))
  /\ Orderly(approvalQueue[h], c, {c})
  /\ ~Free(approvalQueue[h], {c}) => Free(toPeer[h], Request(c))
  /\ Pending(h, c) => Free(toServer[h], ResponsesTo(c))

(* A host knows nothing of a client that did not knock at it.              *)
Strange(h, c) ==
  room[c] # h =>
    ~Pending(h, c) /\ Free(toPeer[h], Departure(c)) /\ Free(toServer[h], ResponsesTo(c))

(* No knock comes after a departure, and a pending knock of a client that  *)
(* left has its departure behind it.                                       *)
Noticed(h, c) ==
  /\ Orderly(toPeer[h], ClientDisconnect(c), Request(c))
  /\ (guest[c] = "left" /\ room[c] = h /\ link[h] = "open" /\ Pending(h, c))
       => ~Free(toPeer[h], Departure(c))

Fresh(h) == hostUp[h] = "off" => approvalQueue[h] = <<>> /\ toPeer[h] = <<>>

(* The inductive invariant of the departures.                              *)
DeparturesInv ==
  /\ \A c \in Clients : guest[c] = "away" => room[c] = None
  /\ \A h \in Hosts : Fresh(h)
  /\ \A h \in Hosts, c \in Clients : Once(h, c) /\ Strange(h, c) /\ Noticed(h, c)

LEMMA DeparturesInit == ContractInit => DeparturesInv
<1> SUFFICES ASSUME ContractInit PROVE DeparturesInv
  OBVIOUS
<1>1. \A h \in Hosts : approvalQueue[h] = <<>> /\ toPeer[h] = <<>> /\ toServer[h] = <<>>
  BY HostIsPeer DEF ContractInit, HostInit, ChannelInit
<1>2. \A h \in Hosts, c \in Clients : Once(h, c) /\ Strange(h, c) /\ Noticed(h, c)
  BY <1>1, EmptyHolds DEF Once, Strange, Noticed, Pending
<1>3. \A c \in Clients : room[c] = None
  BY DEF ContractInit
<1> QED
  BY <1>1, <1>2, <1>3 DEF DeparturesInv, Fresh

-----------------------------------------------------------------------------
(* Frames.                                                                 *)

LEMMA FramesOfTypes ==
  ASSUME NEW m \in FramesToPeer
  PROVE  /\ m.type = "APPROVAL_REQUEST" =>
              m.clientId \in Clients /\ m = ApprovalRequest(m.clientId)
         /\ m.type = "CLIENT_DISCONNECT" =>
              m.clientId \in Clients /\ m = ClientDisconnect(m.clientId)
  BY DEF FramesToPeer, Forwarded, Requests, Responses, Offers, Answers, HostRegistered,
         MatchSuccess, MatchFailed, ClientDisconnect, ApprovalRequest, ApprovalResponse,
         Offer, Answer

LEMMA DeparturesDiffer ==
  ASSUME NEW c, NEW d, NEW b, NEW h, NEW k
  PROVE  /\ ClientDisconnect(c) = ClientDisconnect(d) <=> c = d
         /\ ApprovalRequest(c) = ApprovalRequest(d) <=> c = d
         /\ ClientDisconnect(c) # ApprovalRequest(d)
         /\ HostRegistered(k) \notin Request(c) \cup Departure(c)
         /\ Answer(d, h, c) \notin Request(c) \cup Departure(c)
         /\ Answer(d, h, d) \notin Request(c) \cup Departure(c)
         /\ Offer(h, d) \notin ResponsesTo(c)
         /\ HostRegister \notin ResponsesTo(c)
         /\ ApprovalResponse(d, b) \in ResponsesTo(c) => c = d
<1>1. /\ ClientDisconnect(c) = ClientDisconnect(d) <=> c = d
      /\ ApprovalRequest(c) = ApprovalRequest(d) <=> c = d
  BY DEF ClientDisconnect, ApprovalRequest
<1>2. /\ ClientDisconnect(c).type = "CLIENT_DISCONNECT"
      /\ ApprovalRequest(d).type = "APPROVAL_REQUEST"
      /\ ApprovalRequest(c).type = "APPROVAL_REQUEST"
      /\ HostRegistered(k).type = "HOST_REGISTERED"
      /\ Answer(d, h, c).type = "SIGNAL_FORWARD" /\ Answer(d, h, d).type = "SIGNAL_FORWARD"
      /\ Offer(h, d).type = "SIGNAL_FORWARD"
      /\ HostRegister.type = "HOST_REGISTER"
      /\ \A a : ApprovalResponse(c, a).type = "APPROVAL_RESPONSE"
  BY DEF ClientDisconnect, ApprovalRequest, HostRegistered, Answer, Offer, HostRegister,
         ApprovalResponse
<1>3. /\ ClientDisconnect(c) # ApprovalRequest(d)
      /\ HostRegistered(k) \notin Request(c) \cup Departure(c)
      /\ Answer(d, h, c) \notin Request(c) \cup Departure(c)
      /\ Answer(d, h, d) \notin Request(c) \cup Departure(c)
      /\ Offer(h, d) \notin ResponsesTo(c)
      /\ HostRegister \notin ResponsesTo(c)
  BY <1>2 DEF Request, Departure, ResponsesTo
<1>4. ApprovalResponse(d, b) \in ResponsesTo(c) => c = d
  BY FramesDiffer DEF ResponsesTo
<1> QED
  BY <1>1, <1>3, <1>4

-----------------------------------------------------------------------------
(* What a step of a host does to its queue and its sockets.                *)

Keeps(h) ==
  /\ approvalQueue'[h] = approvalQueue[h]
  /\ toPeer'[h] = toPeer[h] /\ toServer'[h] = toServer[h]
  /\ link'[h] = link[h] /\ hostUp'[h] = hostUp[h]

(* It starts,                                                              *)
Starts(h) ==
  /\ hostUp[h] = "off" /\ approvalQueue'[h] = approvalQueue[h]
  /\ toPeer'[h] = toPeer[h] /\ toServer'[h] = Append(toServer[h], HostRegister)
  /\ hostUp'[h] = "up"

(* queues the client whose request it reads,                               *)
Asks(h, d) ==
  /\ toPeer[h] # <<>> /\ Head(toPeer[h]) = ApprovalRequest(d)
  /\ toPeer'[h] = Tail(toPeer[h])
  /\ approvalQueue'[h] = Append(approvalQueue[h], d)
  /\ toServer'[h] = toServer[h] /\ link'[h] = link[h]

(* strikes out the client whose departure it reads,                        *)
Strikes(h, d) ==
  /\ toPeer[h] # <<>> /\ Head(toPeer[h]) = ClientDisconnect(d)
  /\ toPeer'[h] = Tail(toPeer[h])
  /\ approvalQueue'[h] = Without(approvalQueue[h], d)
  /\ toServer'[h] = toServer[h] /\ link'[h] = link[h]

(* reads another frame,                                                    *)
Passes(h) ==
  /\ toPeer[h] # <<>>
  /\ Head(toPeer[h]).type \notin {"APPROVAL_REQUEST", "CLIENT_DISCONNECT"}
  /\ toPeer'[h] = Tail(toPeer[h])
  /\ approvalQueue'[h] = approvalQueue[h]
  /\ toServer'[h] = toServer[h] /\ link'[h] = link[h]

(* judges some that it has queued, and empties the queue, or writes what   *)
(* is not a response,                                                      *)
Writes(h, fs) ==
  /\ fs \in Seq(FramesToServer)
  /\ \A c \in Clients : Free(approvalQueue[h], {c}) => Free(fs, ResponsesTo(c))
  /\ \/ approvalQueue'[h] = <<>>
     \/ /\ approvalQueue'[h] = approvalQueue[h]
        /\ \A c \in Clients : Free(fs, ResponsesTo(c))
  /\ toPeer'[h] = toPeer[h] /\ link'[h] = link[h]
  /\ toServer'[h] = IF link[h] = "open" THEN toServer[h] \o fs ELSE toServer[h]

(* or loses its socket.                                                    *)
Loses(h) ==
  /\ approvalQueue'[h] \in {approvalQueue[h], <<>>}
  /\ toPeer'[h] = <<>> /\ link'[h] # "open" /\ Less(toServer'[h], toServer[h])

HostStep(h) ==
  \/ Starts(h)
  \/ /\ hostUp'[h] = "off" => hostUp[h] = "off"
     /\ \/ \E d \in Clients : Asks(h, d) \/ Strikes(h, d)
        \/ Passes(h)
        \/ \E fs : Writes(h, fs)
        \/ Loses(h)

(* The client struck out is not in the queue any more.                     *)
LEMMA WithoutStrikes ==
  ASSUME NEW q \in Seq(Clients), NEW c \in Clients, NEW d \in Clients, Orderly(q, d, {d})
  PROVE  /\ Without(q, c) \in Seq(Clients)
         /\ Orderly(Without(q, c), d, {d})
         /\ Free(q, {d}) => Free(Without(q, c), {d})
         /\ c = d => Free(Without(q, c), {d})
  BY WithoutTyped, WithoutOrderly, WithoutHolds

LEMMA ExitLoses ==
  ASSUME HostTypes, NEW h \in Hosts, Leaves(h)
  PROVE  HostStep(h) /\ \A g \in Hosts \ {h} : Keeps(g)
<1>1. PICK how \in {"exited", "crashed"} :
        /\ Cut(h) /\ hostUp' = [hostUp EXCEPT ![h] = how]
        /\ approvalQueue' = [approvalQueue EXCEPT ![h] = <<>>]
  BY DEF Leaves, HostEnds
<1>2. PICK n \in 0..Len(toServer[h]) :
        toServer' = [toServer EXCEPT ![h] = SubSeq(@, 1, n)]
  BY <1>1 DEF Cut
<1>3. Loses(h) /\ hostUp'[h] = how
  BY <1>1, <1>2, HostIsPeer DEF Loses, Less, Cut, HostTypes, HostTypeOK, ChannelTypeOK
<1>4. ASSUME NEW g \in Hosts \ {h}
      PROVE  Keeps(g)
  BY <1>1, <1>2, HostIsPeer DEF Keeps, Cut, HostTypes, HostTypeOK, ChannelTypeOK
<1> QED
  BY <1>3, <1>4 DEF HostStep

(* The callbacks of the socket.                                            *)
LEMMA CallbackSteps ==
  ASSUME HostTypes, NEW h \in Hosts,
         HostStart(h) \/ HostOnRequest(h) \/ HostOnDisconnect(h) \/ HostOnSignal(h) \/ HostIgnores(h)
  PROVE  HostStep(h) /\ \A g \in Hosts \ {h} : Keeps(g)
<1> DEFINE m == Head(toPeer[h])
<1>1. CASE HostStart(h)
  <2>1. /\ hostUp' = [hostUp EXCEPT ![h] = "up"] /\ hostUp[h] = "off"
        /\ toServer' = [toServer EXCEPT ![h] = Append(@, HostRegister)]
        /\ link' = [link EXCEPT ![h] = "open"]
        /\ UNCHANGED <<approvalQueue, toPeer>>
    BY <1>1 DEF HostStart, Connect
  <2> QED
    BY <2>1, HostIsPeer DEF HostStep, Starts, Keeps, HostTypes, HostTypeOK, ChannelTypeOK
<1>2. ASSUME NEW t, Reads(h, t)
      PROVE  /\ toPeer[h] # <<>> /\ m \in FramesToPeer /\ m.type = t
             /\ toPeer'[h] = Tail(toPeer[h])
             /\ \A g \in Hosts \ {h} : toPeer'[g] = toPeer[g]
  BY <1>2, HostIsPeer, ReadsTyped DEF Reads, HostTypes, ChannelTypeOK
<1>3. ASSUME HostIdle(h), UNCHANGED <<hostUp, link, toServer>>
      PROVE  /\ hostUp'[h] # "off"
             /\ \A g \in Hosts : toServer'[g] = toServer[g] /\ link'[g] = link[g]
                                 /\ hostUp'[g] = hostUp[g]
  BY <1>3 DEF HostIdle
<1>4. CASE HostOnRequest(h)
  <2>1. /\ Reads(h, "APPROVAL_REQUEST") /\ HostIdle(h) /\ UNCHANGED <<hostUp, link, toServer>>
        /\ approvalQueue' = [approvalQueue EXCEPT ![h] = Append(@, m.clientId)]
    BY <1>4 DEF HostOnRequest, Enqueued
  <2>2. m.clientId \in Clients /\ m = ApprovalRequest(m.clientId)
    BY <1>2, <2>1, FramesOfTypes
  <2>3. Asks(h, m.clientId)
    BY <1>2, <1>3, <2>1, <2>2 DEF Asks, HostTypes, HostTypeOK
  <2>4. \A g \in Hosts \ {h} : Keeps(g)
    BY <1>2, <1>3, <2>1 DEF Keeps, HostTypes, HostTypeOK
  <2> QED
    BY <1>3, <2>1, <2>2, <2>3, <2>4 DEF HostStep
<1>5. CASE HostOnDisconnect(h)
  <2>1. /\ Reads(h, "CLIENT_DISCONNECT") /\ HostIdle(h) /\ UNCHANGED <<hostUp, link, toServer>>
        /\ IF m.clientId \notin Queued(h) THEN UNCHANGED approvalQueue
           ELSE approvalQueue' =
                  [approvalQueue EXCEPT ![h] = Without(approvalQueue[h], m.clientId)]
    BY <1>5 DEF HostOnDisconnect
  <2>2. m.clientId \in Clients /\ m = ClientDisconnect(m.clientId)
    BY <1>2, <2>1, FramesOfTypes
  <2>3. m.clientId \notin Queued(h) => Without(approvalQueue[h], m.clientId) = approvalQueue[h]
    BY DEF Queued, Without
  <2>4. Strikes(h, m.clientId)
    BY <1>2, <1>3, <2>1, <2>2, <2>3 DEF Strikes, HostTypes, HostTypeOK
  <2>5. \A g \in Hosts \ {h} : Keeps(g)
    BY <1>2, <1>3, <2>1 DEF Keeps, HostTypes, HostTypeOK
  <2> QED
    BY <1>3, <2>1, <2>2, <2>4, <2>5 DEF HostStep
<1>6. CASE HostOnSignal(h) \/ HostIgnores(h)
  <2>1. PICK t \in {"SIGNAL_FORWARD", "HOST_REGISTERED", "APPROVAL_RESPONSE"} : Reads(h, t)
    BY <1>6 DEF HostOnSignal, HostIgnores
  <2>2. HostIdle(h) /\ UNCHANGED <<hostUp, link, toServer, approvalQueue>>
    BY <1>6 DEF HostOnSignal, HostIgnores, hostVars
  <2>3. Passes(h)
    BY <1>2, <1>3, <2>1, <2>2 DEF Passes
  <2>4. \A g \in Hosts \ {h} : Keeps(g)
    BY <1>2, <1>3, <2>1, <2>2 DEF Keeps
  <2> QED
    BY <1>3, <2>2, <2>3, <2>4 DEF HostStep
<1> QED
  BY <1>1, <1>4, <1>5, <1>6

(* The rest of processQueue answers only those that are in the queue.      *)
LEMMA AnswersAreOfQueued ==
  ASSUME NEW q \in Seq(Clients), NEW c \in Clients
  PROVE  /\ Denials(q) \in Seq(FramesToServer)
         /\ Free(q, {c}) => Free(Denials(q), ResponsesTo(c))
<1>1. DOMAIN Denials(q) = DOMAIN q /\ \A i \in DOMAIN q : Denials(q)[i] = ApprovalResponse(q[i], FALSE)
  BY DEF Denials, Denial
<1>2. \A d : ApprovalResponse(d, FALSE) \in ResponsesTo(c) => c = d
  BY DeparturesDiffer
<1>3. Free(q, {c}) => Free(Denials(q), ResponsesTo(c))
  BY <1>1, <1>2 DEF Free
<1> QED
  BY <1>3, DenialsTyped

LEMMA ReplyWrites ==
  ASSUME HostTypes, NEW h \in Hosts, NEW fs \in Seq(FramesToServer), Reply(h, fs),
         UNCHANGED hostUp, approvalQueue' = [approvalQueue EXCEPT ![h] = <<>>],
         \A c \in Clients : Free(approvalQueue[h], {c}) => Free(fs, ResponsesTo(c))
  PROVE  HostStep(h) /\ \A g \in Hosts \ {h} : Keeps(g)
<1>1. toServer' = Written(h, fs) /\ UNCHANGED <<link, toPeer>>
  BY DEF Reply
<1>2. Writes(h, fs)
  BY <1>1, HostIsPeer DEF Writes, Written, HostTypes, HostTypeOK, ChannelTypeOK
<1>3. \A g \in Hosts \ {h} : Keeps(g)
  BY <1>1, HostIsPeer DEF Keeps, Written, HostTypes, HostTypeOK, ChannelTypeOK
<1> QED
  BY <1>2, <1>3 DEF HostStep

LEMMA ResumptionSteps ==
  ASSUME HostTypes, NEW h \in Hosts, HostResumesRejectAll(h) \/ HostResumesSelected(h)
  PROVE  HostStep(h) /\ \A g \in Hosts \ {h} : Keeps(g)
<1> DEFINE q == approvalQueue[h]
           c == settled[h].result
<1>1. q \in Seq(Clients)
  BY DEF HostTypes, HostTypeOK
<1>2. UNCHANGED hostUp /\ approvalQueue' = [approvalQueue EXCEPT ![h] = <<>>]
  BY DEF HostResumesRejectAll, HostResumesSelected, LobbyDone, EmptyQueue
<1>3. CASE Reply(h, Denials(q))
  <2>1. Denials(q) \in Seq(FramesToServer)
    BY <1>1, DenialsTyped
  <2>2. \A d \in Clients : Free(q, {d}) => Free(Denials(q), ResponsesTo(d))
    BY <1>1, AnswersAreOfQueued
  <2> QED
    BY <1>2, <1>3, <2>1, <2>2, ReplyWrites
<1>4. CASE c \in Clients /\ c \in Queued(h) /\ Reply(h, Denials(Without(q, c)) \o <<Approval(c)>>)
  <2> DEFINE w == Without(q, c)
             fs == Denials(w) \o <<Approval(c)>>
  <2>1. w \in Seq(Clients) /\ Denials(w) \in Seq(FramesToServer)
    BY <1>1, WithoutTyped, DenialsTyped
  <2>2. Approval(c) \in FramesToServer
    BY <1>4, FramesTyped DEF Approval
  <2>3. <<Approval(c)>> \in Seq(FramesToServer)
    BY <2>2
  <2>4. fs \in Seq(FramesToServer)
    BY <2>1, <2>3, ConcatProperties
  <2>5. ASSUME NEW d \in Clients, Free(q, {d})
        PROVE  Free(fs, ResponsesTo(d))
    <3>1. d # c
      BY <1>4, <2>5 DEF Free, Queued
    <3>2. Free(Denials(w), ResponsesTo(d))
      <4>1. Free(w, {d})
        BY <1>1, <2>5, WithoutOrderly
      <4> QED
        BY <2>1, <4>1, AnswersAreOfQueued
    <3>3. Free(<<Approval(c)>>, ResponsesTo(d))
      <4>1. Approval(c) \notin ResponsesTo(d)
        BY <3>1, DeparturesDiffer DEF Approval
      <4> QED
        BY <4>1, SingleHolds
    <3> DEFINE s == Denials(w)
               t == <<Approval(c)>>
    <3>4. s \in Seq(FramesToServer) /\ t \in Seq(FramesToServer)
          /\ Free(s, ResponsesTo(d)) /\ Free(t, ResponsesTo(d))
      BY <2>1, <2>3, <3>2, <3>3
    <3> HIDE DEF s, t
    <3>5. Free(s \o t, ResponsesTo(d))
      BY <3>4, ConcatHolds
    <3> QED
      BY <3>5 DEF s, t
  <2> QED
    BY <1>2, <1>4, <2>4, <2>5, ReplyWrites
<1> QED
  BY <1>3, <1>4 DEF HostResumesRejectAll, HostResumesSelected

(* The host says nothing, or offers.                                       *)
LEMMA OtherSteps ==
  ASSUME HostTypes, NEW h \in Hosts, UNCHANGED <<hostUp, approvalQueue, link, toPeer>>,
         \/ UNCHANGED toServer
         \/ \E c \in Clients : toServer' = Written(h, <<Offer(h, c)>>)
  PROVE  HostStep(h) /\ \A g \in Hosts \ {h} : Keeps(g)
<1>1. ASSUME NEW fs \in Seq(FramesToServer), toServer' = Written(h, fs),
             \A c \in Clients : Free(fs, ResponsesTo(c))
      PROVE  HostStep(h) /\ \A g \in Hosts \ {h} : Keeps(g)
  <2>1. Writes(h, fs)
    BY <1>1, HostIsPeer DEF Writes, Written, HostTypes, ChannelTypeOK
  <2>2. \A g \in Hosts \ {h} : Keeps(g)
    BY <1>1, HostIsPeer DEF Keeps, Written, HostTypes, ChannelTypeOK
  <2> QED
    BY <2>1, <2>2 DEF HostStep
<1>2. CASE UNCHANGED toServer
  <2>1. toServer' = Written(h, <<>>) /\ <<>> \in Seq(FramesToServer)
    BY <1>2, HostIsPeer DEF Written, HostTypes, ChannelTypeOK
  <2> QED
    BY <1>1, <2>1, EmptyHolds
<1>3. ASSUME NEW c \in Clients, toServer' = Written(h, <<Offer(h, c)>>)
      PROVE  HostStep(h) /\ \A g \in Hosts \ {h} : Keeps(g)
  <2>1. <<Offer(h, c)>> \in Seq(FramesToServer)
    <3>1. Offer(h, c) \in FramesToServer
      BY FramesTyped
    <3> QED
      BY <3>1
  <2>2. \A d \in Clients : Free(<<Offer(h, c)>>, ResponsesTo(d))
    BY DeparturesDiffer, SingleHolds
  <2> QED
    BY <1>1, <1>3, <2>1, <2>2
<1> QED
  BY <1>2, <1>3

LEMMA HostSteps ==
  ASSUME HostTypes, HostNext
  PROVE  \E h \in Hosts : HostStep(h) /\ \A g \in Hosts \ {h} : Keeps(g)
<1>1. PICK h \in Hosts : HostStart(h) \/ HostReacts(h) \/ OperatorActs(h) \/ HostSuffers(h)
  BY DEF HostNext
<1> SUFFICES HostStep(h) /\ \A g \in Hosts \ {h} : Keeps(g)
  OBVIOUS
<1>2. CASE Leaves(h)
  BY <1>2, ExitLoses
<1>3. CASE HostLosesSocket(h)
  <2>1. Cut(h) /\ UNCHANGED <<hostUp, approvalQueue>>
    BY <1>3 DEF HostLosesSocket, hostVars
  <2>2. PICK n \in 0..Len(toServer[h]) :
          toServer' = [toServer EXCEPT ![h] = SubSeq(@, 1, n)]
    BY <2>1 DEF Cut
  <2>3. Loses(h) /\ hostUp'[h] = hostUp[h]
    BY <2>1, <2>2, HostIsPeer DEF Loses, Less, Cut, HostTypes, HostTypeOK, ChannelTypeOK
  <2>4. \A g \in Hosts \ {h} : Keeps(g)
    BY <2>1, <2>2, HostIsPeer DEF Keeps, Cut, HostTypes, HostTypeOK, ChannelTypeOK
  <2> QED
    BY <2>3, <2>4 DEF HostStep
<1>4. CASE \E c \in Clients : HostOffers(h, c)
  BY <1>4, OtherSteps DEF HostOffers, HostSignalsOffer, hostVars
<1>5. CASE \/ HostKeyUp(h) \/ HostKeyDown(h) \/ HostKeyEnter(h) \/ HostKeyCtrlC(h)
           \/ \E c \in Clients : \/ HostSessionStarts(h, c) \/ HostSessionCloses(h, c)
                                 \/ HostNegotiationFails(h, c)
  <2>1. UNCHANGED <<hostUp, approvalQueue, channelVars>> \/ Leaves(h)
    BY <1>5, ExitsLeave DEF HostKeyUp, HostKeyDown, MovesTo, HostKeyEnter, HostKeyCtrlC,
       HostSessionStarts, HostSessionCloses, HostNegotiationFails, hostVars
  <2> QED
    BY <1>2, <2>1, OtherSteps DEF channelVars
<1> QED
  BY <1>1, <1>2, <1>3, <1>4, <1>5, CallbackSteps, ResumptionSteps, ExitsLeave
     DEF HostReacts, OperatorActs, HostSuffers, HostShellExits, HostDrains, HostCrashes,
         HostResumesExit

-----------------------------------------------------------------------------
(* A step of a host keeps the invariant of the departures.                 *)

Here(h, c) == Once(h, c) /\ Strange(h, c) /\ Noticed(h, c)

LEMMA HereTypes ==
  ASSUME HostTypes, NEW h \in Hosts
  PROVE  /\ approvalQueue[h] \in Seq(Clients)
         /\ toPeer[h] \in Seq(FramesToPeer)
         /\ toServer[h] \in Seq(FramesToServer)
  BY HostIsPeer DEF HostTypes, HostTypeOK, ChannelTypeOK

LEMMA StartKeepsHere ==
  ASSUME HostTypes, NEW h \in Hosts, Starts(h), Fresh(h), NEW c \in Clients, Here(h, c),
         UNCHANGED <<guest, room>>
  PROVE  Here(h, c)'
<1>1. approvalQueue[h] = <<>> /\ toPeer[h] = <<>>
  BY DEF Starts, Fresh
<1>2. approvalQueue'[h] = <<>> /\ toPeer'[h] = <<>>
  BY <1>1 DEF Starts
<1>3. ~Pending(h, c)' /\ Once(h, c)' /\ Noticed(h, c)' /\ Free(toPeer'[h], Departure(c))
  BY <1>2, EmptyHolds DEF Pending, Once, Noticed
<1>4. Free(toServer[h], ResponsesTo(c)) => Free(toServer'[h], ResponsesTo(c))
  <2>1. toServer[h] \in Seq(FramesToServer) /\ HostRegister \in FramesToServer
    BY HereTypes, FramesTyped
  <2>2. HostRegister \notin ResponsesTo(c)
    BY DeparturesDiffer
  <2>3. Free(toServer[h], ResponsesTo(c))
          => Free(Append(toServer[h], HostRegister), ResponsesTo(c))
    BY <2>1, <2>2, AppendHolds
  <2> QED
    BY <2>3 DEF Starts
<1> QED
  BY <1>3, <1>4 DEF Here, Strange

(* What is left in order once the head of what h reads is gone.            *)
LEMMA ReadKeeps ==
  ASSUME HostTypes, NEW h \in Hosts, toPeer[h] # <<>>, toPeer'[h] = Tail(toPeer[h]),
         NEW c, NEW f, NEW S, S = Request(c) \/ S = Departure(c)
  PROVE  /\ Free(toPeer[h], S) => Free(toPeer'[h], S) /\ Head(toPeer[h]) \notin S
         /\ Orderly(toPeer[h], f, S) => Orderly(toPeer'[h], f, S)
         /\ (Orderly(toPeer[h], f, S) /\ Head(toPeer[h]) = f) => Free(toPeer'[h], S)
         /\ (Free(toPeer'[h], S) /\ Head(toPeer[h]) \notin S) => Free(toPeer[h], S)
<1>1. toPeer[h] \in Seq(FramesToPeer)
  BY HereTypes
<1> QED
  BY <1>1, TailHolds

LEMMA ReadKeepsOrder ==
  ASSUME HostTypes, NEW h \in Hosts, toPeer[h] # <<>>, toPeer'[h] = Tail(toPeer[h]),
         NEW c, Here(h, c)
  PROVE  /\ Orderly(toPeer'[h], ApprovalRequest(c), Request(c))
         /\ Orderly(toPeer'[h], ClientDisconnect(c), Request(c))
         /\ Head(toPeer[h]) \in Request(c) \cup Departure(c) => Free(toPeer'[h], Request(c))
         /\ Free(toPeer[h], Request(c)) => Free(toPeer'[h], Request(c))
         /\ Free(toPeer[h], Departure(c)) => Free(toPeer'[h], Departure(c))
         /\ Head(toPeer[h]) \notin Request(c) =>
              (Free(toPeer[h], Request(c)) <=> Free(toPeer'[h], Request(c)))
         /\ Head(toPeer[h]) \notin Departure(c) =>
              (Free(toPeer[h], Departure(c)) <=> Free(toPeer'[h], Departure(c)))
         /\ Head(toPeer[h]) \in Request(c) => ~Free(toPeer[h], Request(c))
<1>1. /\ Orderly(toPeer[h], ApprovalRequest(c), Request(c))
      /\ Orderly(toPeer[h], ClientDisconnect(c), Request(c))
  BY DEF Here, Once, Noticed
<1>2. /\ Orderly(toPeer'[h], ApprovalRequest(c), Request(c))
      /\ Head(toPeer[h]) = ApprovalRequest(c) => Free(toPeer'[h], Request(c))
  BY <1>1, ReadKeeps
<1>3. /\ Orderly(toPeer'[h], ClientDisconnect(c), Request(c))
      /\ Head(toPeer[h]) = ClientDisconnect(c) => Free(toPeer'[h], Request(c))
  BY <1>1, ReadKeeps
<1>4. /\ Free(toPeer[h], Request(c)) =>
              Free(toPeer'[h], Request(c)) /\ Head(toPeer[h]) \notin Request(c)
      /\ (Free(toPeer'[h], Request(c)) /\ Head(toPeer[h]) \notin Request(c))
            => Free(toPeer[h], Request(c))
  BY ReadKeeps
<1>5. /\ Free(toPeer[h], Departure(c)) => Free(toPeer'[h], Departure(c))
      /\ (Free(toPeer'[h], Departure(c)) /\ Head(toPeer[h]) \notin Departure(c))
            => Free(toPeer[h], Departure(c))
  BY ReadKeeps
<1>6. Head(toPeer[h]) \in Request(c) \cup Departure(c) =>
        Head(toPeer[h]) \in {ApprovalRequest(c), ClientDisconnect(c)}
  BY DEF Request, Departure
<1> QED
  BY <1>2, <1>3, <1>4, <1>5, <1>6

LEMMA RequestKeepsHere ==
  ASSUME HostTypes, NEW h \in Hosts, NEW d \in Clients, Asks(h, d), NEW c \in Clients,
         Here(h, c), UNCHANGED <<guest, room>>
  PROVE  Here(h, c)'
<1> DEFINE q == approvalQueue[h]
<1>1. /\ q \in Seq(Clients) /\ approvalQueue'[h] = Append(q, d)
      /\ toPeer[h] # <<>> /\ toPeer'[h] = Tail(toPeer[h])
      /\ Head(toPeer[h]) = ApprovalRequest(d)
      /\ toServer'[h] = toServer[h] /\ link'[h] = link[h]
  BY HereTypes DEF Asks
<1>2. /\ Orderly(toPeer'[h], ApprovalRequest(c), Request(c))
      /\ Orderly(toPeer'[h], ClientDisconnect(c), Request(c))
  BY <1>1, ReadKeepsOrder
<1>3. Free(toPeer[h], Departure(c)) <=> Free(toPeer'[h], Departure(c))
  <2>1. Head(toPeer[h]) \notin Departure(c)
    BY <1>1, DeparturesDiffer DEF Departure
  <2> QED
    BY <1>1, <2>1, ReadKeepsOrder
<1>4. CASE d = c
  <2>1. Head(toPeer[h]) \in Request(c)
    BY <1>1, <1>4 DEF Request
  <2>2. ~Free(toPeer[h], Request(c)) /\ Free(toPeer'[h], Request(c))
    BY <1>1, <2>1, ReadKeepsOrder
  <2>3. Free(q, {c}) /\ Pending(h, c)
    BY <2>2 DEF Here, Once, Pending
  <2>4. Orderly(approvalQueue'[h], c, {c})
    <3> HIDE DEF q
    <3>1. Orderly(q, c, {c})
      BY <2>3, FreeIsOrderly
    <3>2. Orderly(Append(q, c), c, {c})
      BY <1>1, <2>3, <3>1, AppendHolds
    <3> QED
      BY <1>1, <1>4, <3>2
  <2>5. Free(toServer'[h], ResponsesTo(c)) /\ room'[c] = h
    BY <1>1, <2>3 DEF Here, Once, Strange
  <2>6. (guest[c] = "left" /\ link'[h] = "open") => ~Free(toPeer'[h], Departure(c))
    BY <1>1, <1>3, <2>3, <2>5 DEF Here, Noticed
  <2> QED
    BY <1>2, <2>2, <2>4, <2>5, <2>6 DEF Here, Once, Strange, Noticed
<1>5. CASE d # c
  <2>1. Orderly(q, c, {c})
    BY DEF Here, Once
  <2>2. /\ Free(approvalQueue'[h], {c}) <=> Free(q, {c})
        /\ Orderly(approvalQueue'[h], c, {c})
    <3> HIDE DEF q
    <3>1. /\ Free(Append(q, d), {c}) <=> Free(q, {c}) /\ d \notin {c}
          /\ (Orderly(q, c, {c}) /\ (Free(q, {c}) \/ d \notin {c}))
               => Orderly(Append(q, d), c, {c})
      BY <1>1, AppendHolds
    <3> QED
      BY <1>1, <1>5, <2>1, <3>1
  <2>3. Free(toPeer'[h], Request(c)) <=> Free(toPeer[h], Request(c))
    <3>1. Head(toPeer[h]) \notin Request(c)
      BY <1>1, <1>5, DeparturesDiffer DEF Request
    <3> QED
      BY <1>1, <3>1, ReadKeepsOrder
  <2>4. Pending(h, c)' <=> Pending(h, c)
    BY <2>2, <2>3 DEF Pending
  <2> QED
    BY <1>1, <1>2, <1>3, <2>2, <2>3, <2>4 DEF Here, Once, Strange, Noticed
<1> QED
  BY <1>4, <1>5

LEMMA DepartureKeepsHere ==
  ASSUME HostTypes, NEW h \in Hosts, NEW d \in Clients, Strikes(h, d), NEW c \in Clients,
         Here(h, c), UNCHANGED <<guest, room>>
  PROVE  Here(h, c)'
<1> DEFINE q == approvalQueue[h]
<1>1. /\ q \in Seq(Clients) /\ approvalQueue'[h] = Without(q, d)
      /\ toPeer[h] # <<>> /\ toPeer'[h] = Tail(toPeer[h])
      /\ Head(toPeer[h]) = ClientDisconnect(d)
      /\ toServer'[h] = toServer[h] /\ link'[h] = link[h]
  BY HereTypes DEF Strikes
<1>2. /\ Orderly(toPeer'[h], ApprovalRequest(c), Request(c))
      /\ Orderly(toPeer'[h], ClientDisconnect(c), Request(c))
      /\ Orderly(q, c, {c})
  BY <1>1, ReadKeepsOrder DEF Here, Once
<1>3. /\ Orderly(approvalQueue'[h], c, {c})
      /\ Free(q, {c}) => Free(approvalQueue'[h], {c})
      /\ d = c => Free(approvalQueue'[h], {c})
  BY <1>1, <1>2, WithoutStrikes
<1>4. /\ Free(toPeer[h], Request(c)) => Free(toPeer'[h], Request(c))
      /\ Free(toPeer[h], Departure(c)) => Free(toPeer'[h], Departure(c))
      /\ (d # c /\ Free(toPeer'[h], Departure(c))) => Free(toPeer[h], Departure(c))
  <2>1. d # c => Head(toPeer[h]) \notin Departure(c)
    BY <1>1, DeparturesDiffer DEF Departure
  <2> QED
    BY <1>1, <2>1, ReadKeepsOrder
<1>5. d = c => Free(toPeer'[h], Request(c))
  <2>1. d = c => Head(toPeer[h]) \in Departure(c)
    BY <1>1 DEF Departure
  <2> QED
    BY <1>1, <2>1, ReadKeepsOrder
<1>6. /\ Pending(h, c)' => Pending(h, c)
      /\ d = c => ~Pending(h, c)'
      /\ ~Free(approvalQueue'[h], {c}) => Free(toPeer'[h], Request(c))
  BY <1>3, <1>4, <1>5 DEF Pending, Here, Once
<1>7. (guest[c] = "left" /\ room[c] = h /\ link'[h] = "open" /\ Pending(h, c)')
        => ~Free(toPeer'[h], Departure(c))
  BY <1>1, <1>4, <1>6 DEF Here, Noticed
<1> QED
  BY <1>1, <1>2, <1>3, <1>4, <1>6, <1>7 DEF Here, Once, Strange, Noticed

LEMMA PassKeepsHere ==
  ASSUME HostTypes, NEW h \in Hosts, Passes(h), NEW c \in Clients, Here(h, c),
         UNCHANGED <<guest, room>>
  PROVE  Here(h, c)'
<1>1. /\ approvalQueue'[h] = approvalQueue[h]
      /\ toPeer[h] # <<>> /\ toPeer'[h] = Tail(toPeer[h])
      /\ toServer'[h] = toServer[h] /\ link'[h] = link[h]
  BY DEF Passes
<1>2. Head(toPeer[h]) \notin Request(c) \cup Departure(c)
  BY DEF Passes, Request, Departure, ApprovalRequest, ClientDisconnect
<1>3. /\ Orderly(toPeer'[h], ApprovalRequest(c), Request(c))
      /\ Orderly(toPeer'[h], ClientDisconnect(c), Request(c))
      /\ Free(toPeer[h], Request(c)) <=> Free(toPeer'[h], Request(c))
      /\ Free(toPeer[h], Departure(c)) <=> Free(toPeer'[h], Departure(c))
  BY <1>1, <1>2, ReadKeepsOrder
<1>4. Pending(h, c)' <=> Pending(h, c)
  BY <1>1, <1>3 DEF Pending
<1> QED
  BY <1>1, <1>3, <1>4 DEF Here, Once, Strange, Noticed

LEMMA WriteKeepsHere ==
  ASSUME HostTypes, NEW h \in Hosts, NEW fs, Writes(h, fs), NEW c \in Clients, Here(h, c),
         UNCHANGED <<guest, room>>
  PROVE  Here(h, c)'
<1>1. /\ toPeer'[h] = toPeer[h] /\ link'[h] = link[h]
      /\ toServer'[h] \in {toServer[h], toServer[h] \o fs}
      /\ toServer[h] \in Seq(FramesToServer) /\ fs \in Seq(FramesToServer)
      /\ Free(approvalQueue[h], {c}) => Free(fs, ResponsesTo(c))
  BY HereTypes DEF Writes
<1>2. (Free(toServer[h], ResponsesTo(c)) /\ Free(fs, ResponsesTo(c)))
        => Free(toServer'[h], ResponsesTo(c))
  <2>1. (Free(toServer[h], ResponsesTo(c)) /\ Free(fs, ResponsesTo(c)))
          => Free(toServer[h] \o fs, ResponsesTo(c))
    BY <1>1, ConcatHolds
  <2> QED
    BY <1>1, <2>1
<1>3. CASE approvalQueue'[h] = <<>>
  <2>1. Free(approvalQueue'[h], {c}) /\ Orderly(approvalQueue'[h], c, {c})
    BY <1>3, EmptyHolds
  <2>2. Pending(h, c)' => Pending(h, c) /\ Free(approvalQueue[h], {c})
    BY <1>1, <2>1 DEF Pending, Here, Once
  <2>3. ~Pending(h, c) => Free(fs, ResponsesTo(c))
    BY <1>1 DEF Pending
  <2> QED
    BY <1>1, <1>2, <2>1, <2>2, <2>3 DEF Here, Once, Strange, Noticed
<1>4. CASE approvalQueue'[h] = approvalQueue[h] /\ Free(fs, ResponsesTo(c))
  <2>1. Pending(h, c)' <=> Pending(h, c)
    BY <1>1, <1>4 DEF Pending
  <2> QED
    BY <1>1, <1>2, <1>4, <2>1 DEF Here, Once, Strange, Noticed
<1> QED
  BY <1>3, <1>4 DEF Writes

LEMMA LossKeepsHere ==
  ASSUME HostTypes, NEW h \in Hosts, Loses(h), NEW c \in Clients, Here(h, c),
         UNCHANGED <<guest, room>>
  PROVE  Here(h, c)'
<1>1. /\ toPeer'[h] = <<>> /\ link'[h] # "open"
      /\ approvalQueue'[h] \in {approvalQueue[h], <<>>}
      /\ toServer[h] \in Seq(FramesToServer) /\ Less(toServer'[h], toServer[h])
  BY HereTypes DEF Loses
<1>2. Free(toServer[h], ResponsesTo(c)) => Free(toServer'[h], ResponsesTo(c))
  BY <1>1, LessHolds
<1>3. /\ Free(toPeer'[h], Request(c)) /\ Free(toPeer'[h], Departure(c))
      /\ Orderly(toPeer'[h], ApprovalRequest(c), Request(c))
      /\ Orderly(toPeer'[h], ClientDisconnect(c), Request(c))
  BY <1>1, EmptyHolds
<1>4. /\ Free(approvalQueue[h], {c}) => Free(approvalQueue'[h], {c})
      /\ Orderly(approvalQueue'[h], c, {c})
  BY <1>1, EmptyHolds DEF Here, Once
<1>5. Pending(h, c)' => Pending(h, c)
  BY <1>3, <1>4 DEF Pending
<1> QED
  BY <1>1, <1>2, <1>3, <1>4, <1>5 DEF Here, Once, Strange, Noticed

LEMMA HostStepKeepsHere ==
  ASSUME HostTypes, NEW h \in Hosts, HostStep(h), Fresh(h), UNCHANGED <<guest, room>>,
         \A c \in Clients : Here(h, c)
  PROVE  Fresh(h)' /\ \A c \in Clients : Here(h, c)'
<1>1. ASSUME NEW c \in Clients
      PROVE  Here(h, c)'
  <2>1. Here(h, c)
    OBVIOUS
  <2>2. CASE Starts(h)
    BY <2>1, <2>2, StartKeepsHere
  <2>3. ASSUME NEW d \in Clients, Asks(h, d)
        PROVE  Here(h, c)'
    BY <2>1, <2>3, RequestKeepsHere
  <2>4. ASSUME NEW d \in Clients, Strikes(h, d)
        PROVE  Here(h, c)'
    BY <2>1, <2>4, DepartureKeepsHere
  <2>5. CASE Passes(h)
    BY <2>1, <2>5, PassKeepsHere
  <2>6. ASSUME NEW fs, Writes(h, fs)
        PROVE  Here(h, c)'
    BY <2>1, <2>6, WriteKeepsHere
  <2>7. CASE Loses(h)
    BY <2>1, <2>7, LossKeepsHere
  <2> QED
    BY <2>2, <2>3, <2>4, <2>5, <2>6, <2>7 DEF HostStep
<1>2. ASSUME hostUp'[h] = "off"
      PROVE  approvalQueue'[h] = <<>> /\ toPeer'[h] = <<>>
  <2>1. hostUp[h] = "off" /\ approvalQueue[h] = <<>> /\ toPeer[h] = <<>>
    BY <1>2 DEF HostStep, Starts, Fresh
  <2> QED
    BY <1>2, <2>1 DEF HostStep, Starts, Asks, Strikes, Passes, Writes, Loses
<1> QED
  BY <1>1, <1>2 DEF Fresh

LEMMA KeepsHere ==
  ASSUME NEW g \in Hosts, Keeps(g), Fresh(g), UNCHANGED <<guest, room>>,
         \A c \in Clients : Here(g, c)
  PROVE  Fresh(g)' /\ \A c \in Clients : Here(g, c)'
  BY DEF Keeps, Fresh, Here, Once, Strange, Noticed, Pending

LEMMA HostNextKeepsDepartures ==
  ASSUME HostTypes, HostNext, UNCHANGED <<guest, room>>, DeparturesInv
  PROVE  DeparturesInv'
<1>1. PICK h \in Hosts : HostStep(h) /\ \A g \in Hosts \ {h} : Keeps(g)
  BY HostSteps
<1>2. ASSUME NEW g \in Hosts
      PROVE  Fresh(g)' /\ \A c \in Clients : Here(g, c)'
  <2>1. Fresh(g) /\ \A c \in Clients : Here(g, c)
    BY DEF DeparturesInv, Here
  <2>2. CASE g = h
    BY <1>1, <2>1, <2>2, HostStepKeepsHere
  <2>3. CASE g # h
    BY <1>1, <2>1, <2>3, KeepsHere
  <2> QED
    BY <2>2, <2>3
<1> QED
  BY <1>2 DEF DeparturesInv, Here

-----------------------------------------------------------------------------
(* A step of the other side keeps it too.                                  *)

(* What host g holds of client d is as it was, as far as Here tells.       *)
LEMMA UntouchedHere ==
  ASSUME NEW g \in Hosts, NEW d \in Clients, Here(g, d),
         UNCHANGED approvalQueue, room'[d] = room[d], link'[g] = link[g],
         Free(toPeer'[g], Request(d)) <=> Free(toPeer[g], Request(d)),
         Free(toPeer'[g], Departure(d)) <=> Free(toPeer[g], Departure(d)),
         Orderly(toPeer[g], ApprovalRequest(d), Request(d))
           => Orderly(toPeer'[g], ApprovalRequest(d), Request(d)),
         Orderly(toPeer[g], ClientDisconnect(d), Request(d))
           => Orderly(toPeer'[g], ClientDisconnect(d), Request(d)),
         Free(toServer[g], ResponsesTo(d)) => Free(toServer'[g], ResponsesTo(d)),
         guest'[d] = guest[d] \/ room[d] # g \/ ~Pending(g, d)
  PROVE  Here(g, d)'
<1>1. Pending(g, d)' <=> Pending(g, d)
  BY DEF Pending
<1> QED
  BY <1>1 DEF Here, Once, Strange, Noticed

(* Sending h a frame that is neither a request nor a departure of d.       *)
LEMMA DeliveryKeeps ==
  ASSUME HostTypes, NEW h \in Hosts, NEW m \in FramesToPeer, Deliver(h, m), NEW g \in Hosts,
         NEW d, g # h \/ m \notin Request(d) \cup Departure(d)
  PROVE  /\ Free(toPeer'[g], Request(d)) <=> Free(toPeer[g], Request(d))
         /\ Free(toPeer'[g], Departure(d)) <=> Free(toPeer[g], Departure(d))
         /\ Orderly(toPeer[g], ApprovalRequest(d), Request(d))
              => Orderly(toPeer'[g], ApprovalRequest(d), Request(d))
         /\ Orderly(toPeer[g], ClientDisconnect(d), Request(d))
              => Orderly(toPeer'[g], ClientDisconnect(d), Request(d))
<1>1. CASE g # h
  <2>1. toPeer'[g] = toPeer[g]
    BY <1>1, HostIsPeer DEF Deliver, HostTypes, ChannelTypeOK
  <2> QED
    BY <2>1
<1>2. CASE g = h
  <2>1. toPeer'[h] = Append(toPeer[h], m) /\ toPeer[h] \in Seq(FramesToPeer)
    BY HostIsPeer DEF Deliver, HostTypes, ChannelTypeOK
  <2>2. /\ Free(Append(toPeer[h], m), Request(d)) <=> Free(toPeer[h], Request(d))
        /\ Free(Append(toPeer[h], m), Departure(d)) <=> Free(toPeer[h], Departure(d))
    BY <1>2, <2>1, AppendHolds
  <2>3. Orderly(toPeer[h], ApprovalRequest(d), Request(d))
          => Orderly(Append(toPeer[h], m), ApprovalRequest(d), Request(d))
    BY <1>2, <2>1, AppendHolds
  <2>4. Orderly(toPeer[h], ClientDisconnect(d), Request(d))
          => Orderly(Append(toPeer[h], m), ClientDisconnect(d), Request(d))
    BY <1>2, <2>1, AppendHolds
  <2> QED
    BY <1>2, <2>1, <2>2, <2>3, <2>4
<1> QED
  BY <1>1, <1>2

LEMMA KnockKeepsDepartures ==
  ASSUME HostTypes, GuestsTyped, NEW h \in Hosts, NEW c \in Clients, Knock(h, c),
         UNCHANGED hostVars, DeparturesInv
  PROVE  DeparturesInv'
<1>1. /\ Deliver(h, ApprovalRequest(c)) /\ UNCHANGED <<link, toServer, hostUp, approvalQueue>>
      /\ hostUp[h] = "up" /\ guest[c] = "away"
      /\ guest'[c] = "knocked" /\ room'[c] = h
      /\ \A d \in Clients \ {c} : guest'[d] = guest[d] /\ room'[d] = room[d]
  BY DEF Knock, Reachable, hostVars, GuestsTyped
<1>2. ApprovalRequest(c) \in FramesToPeer
  BY FramesTyped
<1>3. \A g \in Hosts : room[c] # g
  BY <1>1, PeersAssumption DEF DeparturesInv
<1>4. ASSUME NEW g \in Hosts, NEW d \in Clients
      PROVE  Here(g, d)'
  <2>1. Here(g, d) /\ Here(g, c)
    BY DEF DeparturesInv, Here
  <2>2. CASE d # c
    <3>1. ApprovalRequest(c) \notin Request(d) \cup Departure(d)
      BY <2>2, DeparturesDiffer DEF Request, Departure
    <3> QED
      BY <1>1, <1>2, <2>1, <2>2, <3>1, DeliveryKeeps, UntouchedHere
  <2>3. CASE d = c /\ g # h
    <3>1. toPeer'[g] = toPeer[g]
      BY <1>1, <2>3, HostIsPeer DEF Deliver, HostTypes, ChannelTypeOK
    <3> QED
      BY <1>1, <1>3, <2>1, <2>3, <3>1 DEF Here, Once, Strange, Noticed, Pending
  <2>4. CASE d = c /\ g = h
    <3>1. /\ toPeer'[h] = Append(toPeer[h], ApprovalRequest(c))
          /\ toPeer[h] \in Seq(FramesToPeer)
      BY <1>1, HostIsPeer DEF Deliver, HostTypes, ChannelTypeOK
    <3>2. /\ Free(approvalQueue[h], {c}) /\ Free(toPeer[h], Request(c))
          /\ Free(toPeer[h], Departure(c)) /\ Free(toServer[h], ResponsesTo(c))
          /\ Orderly(toPeer[h], ApprovalRequest(c), Request(c))
          /\ Orderly(toPeer[h], ClientDisconnect(c), Request(c))
          /\ Orderly(approvalQueue[h], c, {c})
      BY <1>3, <2>1, <2>4 DEF Here, Once, Strange, Noticed, Pending
    <3>3. Orderly(Append(toPeer[h], ApprovalRequest(c)), ApprovalRequest(c), Request(c))
      BY <1>2, <3>1, <3>2, AppendHolds DEF Request
    <3>4. Orderly(Append(toPeer[h], ApprovalRequest(c)), ClientDisconnect(c), Request(c))
      BY <1>2, <3>1, <3>2, AppendHolds DEF Departure
    <3> QED
      BY <1>1, <2>4, <3>1, <3>2, <3>3, <3>4 DEF Here, Once, Strange, Noticed
  <2> QED
    BY <2>2, <2>3, <2>4
<1>5. ASSUME NEW g \in Hosts
      PROVE  Fresh(g)'
  <2>1. Fresh(g)
    BY DEF DeparturesInv
  <2>2. g # h => toPeer'[g] = toPeer[g]
    BY <1>1, HostIsPeer DEF Deliver, HostTypes, ChannelTypeOK
  <2> QED
    BY <1>1, <2>1, <2>2 DEF Fresh
<1>6. \A d \in Clients : guest'[d] = "away" => room'[d] = None
  BY <1>1 DEF DeparturesInv
<1> QED
  BY <1>4, <1>5, <1>6 DEF DeparturesInv, Here

LEMMA LeaveKeepsDepartures ==
  ASSUME HostTypes, GuestsTyped, NEW h \in Hosts, NEW c \in Clients, Leave(h, c),
         UNCHANGED hostVars, DeparturesInv
  PROVE  DeparturesInv'
<1>1. /\ Deliver(h, ClientDisconnect(c))
      /\ UNCHANGED <<link, toServer, hostUp, approvalQueue, room>>
      /\ hostUp[h] = "up" /\ room[c] = h /\ guest'[c] = "left"
      /\ \A d \in Clients \ {c} : guest'[d] = guest[d]
  BY DEF Leave, Reachable, hostVars, GuestsTyped
<1>2. ClientDisconnect(c) \in FramesToPeer
  BY FramesTyped
<1>3. ASSUME NEW g \in Hosts, NEW d \in Clients
      PROVE  Here(g, d)'
  <2>1. Here(g, d)
    BY DEF DeparturesInv, Here
  <2>2. CASE d # c
    <3>1. ClientDisconnect(c) \notin Request(d) \cup Departure(d)
      BY <2>2, DeparturesDiffer DEF Request, Departure
    <3> QED
      BY <1>1, <1>2, <2>1, <2>2, <3>1, DeliveryKeeps, UntouchedHere
  <2>3. CASE d = c /\ g # h
    BY <1>1, <1>2, <2>1, <2>3, DeliveryKeeps, UntouchedHere
  <2>4. CASE d = c /\ g = h
    <3>1. /\ toPeer'[h] = Append(toPeer[h], ClientDisconnect(c))
          /\ toPeer[h] \in Seq(FramesToPeer)
      BY <1>1, HostIsPeer DEF Deliver, HostTypes, ChannelTypeOK
    <3>2. ClientDisconnect(c) \notin Request(c) /\ ClientDisconnect(c) \in Departure(c)
      BY DeparturesDiffer DEF Request, Departure
    <3> DEFINE w == Append(toPeer[h], ClientDisconnect(c))
    <3>3. /\ Free(w, Request(c)) <=> Free(toPeer[h], Request(c))
          /\ ~Free(w, Departure(c))
      BY <1>2, <3>1, <3>2, AppendHolds
    <3>4. Orderly(toPeer[h], ApprovalRequest(c), Request(c))
            => Orderly(w, ApprovalRequest(c), Request(c))
      BY <1>2, <3>1, <3>2, AppendHolds
    <3>5. Orderly(toPeer[h], ClientDisconnect(c), Request(c))
            => Orderly(w, ClientDisconnect(c), Request(c))
      BY <1>2, <3>1, <3>2, AppendHolds
    <3>6. toPeer'[h] = w
      BY <3>1
    <3> HIDE DEF w
    <3> QED
      BY <1>1, <2>1, <2>4, <3>3, <3>4, <3>5, <3>6 DEF Here, Once, Strange, Noticed, Pending
  <2> QED
    BY <2>2, <2>3, <2>4
<1>4. ASSUME NEW g \in Hosts
      PROVE  Fresh(g)'
  <2>1. Fresh(g)
    BY DEF DeparturesInv
  <2>2. g # h => toPeer'[g] = toPeer[g]
    BY <1>1, HostIsPeer DEF Deliver, HostTypes, ChannelTypeOK
  <2> QED
    BY <1>1, <2>1, <2>2 DEF Fresh
<1>5. \A d \in Clients : guest'[d] = "away" => room'[d] = None
  BY <1>1 DEF DeparturesInv
<1> QED
  BY <1>3, <1>4, <1>5 DEF DeparturesInv, Here

LEMMA TakeKeepsDepartures ==
  ASSUME HostTypes, GuestsTyped, NEW h \in Hosts, Take(h), UNCHANGED hostVars, DeparturesInv
  PROVE  DeparturesInv'
<1>1. /\ UNCHANGED <<link, hostUp, approvalQueue, room>>
      /\ hostUp[h] = "up" /\ toServer[h] \in Seq(FramesToServer) /\ toServer[h] # <<>>
      /\ \A g \in Hosts : toServer'[g] = IF g = h THEN Tail(toServer[h]) ELSE toServer[g]
  BY HereTypes, HostIsPeer DEF Take, Reachable, hostVars, HostTypes, ChannelTypeOK
<1>2. ASSUME NEW g \in Hosts, NEW d \in Clients
      PROVE  Free(toServer[g], ResponsesTo(d)) =>
               /\ Free(toServer'[g], ResponsesTo(d))
               /\ g = h => Head(toServer[h]) \notin ResponsesTo(d)
  <2>1. Free(toServer[h], ResponsesTo(d)) =>
          Free(Tail(toServer[h]), ResponsesTo(d)) /\ Head(toServer[h]) \notin ResponsesTo(d)
    BY <1>1, TailHolds
  <2> QED
    BY <1>1, <2>1
<1>3. ASSUME NEW m \in FramesToPeer, UNCHANGED toPeer \/ Deliver(h, m),
             \A d \in Clients : m \notin Request(d) \cup Departure(d),
             guest' \in [Clients -> {"away", "knocked", "approved", "left"}],
             \A d \in Clients : \/ guest'[d] = guest[d]
                                \/ /\ Head(toServer[h]) \in ResponsesTo(d)
                                   /\ guest[d] = "knocked" /\ guest'[d] # "away"
      PROVE  DeparturesInv'
  <2>1. ASSUME NEW g \in Hosts, NEW d \in Clients
        PROVE  Here(g, d)'
    <3>1. Here(g, d) /\ Here(h, d)
      BY DEF DeparturesInv, Here
    <3>2. guest'[d] = guest[d] \/ room[d] # g \/ ~Pending(g, d)
      <4>1. ASSUME guest'[d] # guest[d]
            PROVE  room[d] = h /\ ~Pending(h, d)
        BY <1>2, <1>3, <3>1, <4>1 DEF Here, Once, Strange
      <4> QED
        BY <4>1
    <3>3. /\ Free(toPeer'[g], Request(d)) <=> Free(toPeer[g], Request(d))
          /\ Free(toPeer'[g], Departure(d)) <=> Free(toPeer[g], Departure(d))
          /\ Orderly(toPeer[g], ApprovalRequest(d), Request(d))
               => Orderly(toPeer'[g], ApprovalRequest(d), Request(d))
          /\ Orderly(toPeer[g], ClientDisconnect(d), Request(d))
               => Orderly(toPeer'[g], ClientDisconnect(d), Request(d))
      BY <1>3, DeliveryKeeps
    <3> QED
      BY <1>1, <1>2, <3>1, <3>2, <3>3, UntouchedHere
  <2>2. ASSUME NEW g \in Hosts
        PROVE  Fresh(g)'
    <3>1. Fresh(g)
      BY DEF DeparturesInv
    <3>2. g # h => toPeer'[g] = toPeer[g]
      BY <1>3, HostIsPeer DEF Deliver, HostTypes, ChannelTypeOK
    <3> QED
      BY <1>1, <3>1, <3>2 DEF Fresh
  <2>3. \A d \in Clients : guest'[d] = "away" => room'[d] = None
    BY <1>1, <1>3 DEF DeparturesInv
  <2> QED
    BY <2>1, <2>2, <2>3 DEF DeparturesInv, Here
<1>4. CASE Register(h)
  <2>1. PICK k \in Codes : Deliver(h, HostRegistered(k)) /\ UNCHANGED guest
    BY <1>4 DEF Register
  <2>2. /\ HostRegistered(k) \in FramesToPeer
        /\ \A d \in Clients : HostRegistered(k) \notin Request(d) \cup Departure(d)
    BY FramesTyped, DeparturesDiffer
  <2> QED
    BY <1>3, <2>1, <2>2 DEF GuestsTyped
<1>5. ASSUME NEW c \in Clients, Judge(h, c)
      PROVE  DeparturesInv'
  <2>1. PICK b \in BOOLEAN :
          /\ Head(toServer[h]) = ApprovalResponse(c, b)
          /\ guest' = [guest EXCEPT ![c] =
                         IF @ # "knocked" THEN @ ELSE IF b THEN "approved" ELSE "left"]
    BY <1>5 DEF Judge
  <2>2. Head(toServer[h]) \in ResponsesTo(c) /\ UNCHANGED toPeer
    BY <1>5, <2>1 DEF Judge, ResponsesTo
  <2>3. /\ guest' \in [Clients -> {"away", "knocked", "approved", "left"}]
        /\ \A d \in Clients : \/ guest'[d] = guest[d]
                              \/ /\ Head(toServer[h]) \in ResponsesTo(d)
                                 /\ guest[d] = "knocked" /\ guest'[d] # "away"
    BY <2>1, <2>2 DEF GuestsTyped
  <2>4. /\ MatchSuccess \in FramesToPeer
        /\ \A d \in Clients : MatchSuccess \notin Request(d) \cup Departure(d)
    BY FramesTyped DEF MatchSuccess, Request, Departure, ApprovalRequest, ClientDisconnect
  <2> QED
    BY <1>3, <2>2, <2>3, <2>4
<1>6. ASSUME NEW c \in Clients, AnswerOffer(h, c)
      PROVE  DeparturesInv'
  <2>1. UNCHANGED guest /\ (UNCHANGED toPeer \/ Deliver(h, Answer(c, h, c)))
    BY <1>6 DEF AnswerOffer
  <2>2. /\ Answer(c, h, c) \in FramesToPeer
        /\ \A d \in Clients : Answer(c, h, c) \notin Request(d) \cup Departure(d)
    BY FramesTyped DEF Answer, Request, Departure, ApprovalRequest, ClientDisconnect
  <2> QED
    BY <1>3, <2>1, <2>2 DEF GuestsTyped
<1> QED
  BY <1>4, <1>5, <1>6 DEF Take

LEMMA DeparturesStep ==
  ASSUME ContractInv, DeparturesInv, [ContractNext]_contractVars
  PROVE  DeparturesInv'
<1>1. HostTypes /\ GuestsTyped
  BY DEF ContractInv
<1>2. CASE HostNext /\ UNCHANGED <<guest, room>>
  BY <1>1, <1>2, HostNextKeepsDepartures
<1>3. ASSUME NEW h \in Hosts, Take(h) \/ (\E c \in Clients : Knock(h, c) \/ Leave(h, c)),
             UNCHANGED hostVars
      PROVE  DeparturesInv'
  BY <1>1, <1>3, KnockKeepsDepartures, LeaveKeepsDepartures, TakeKeepsDepartures
<1>4. CASE UNCHANGED contractVars
  BY <1>4 DEF contractVars, channelVars, hostVars, DeparturesInv, Fresh, Once, Strange, Noticed,
     Pending
<1> QED
  BY <1>2, <1>3, <1>4 DEF ContractNext

(* A client that left is out of the queue of the host it knocked at once   *)
(* that host has read its CLIENT_DISCONNECT, for any number of hosts and   *)
(* clients.                                                                *)
THEOREM LeaversForgotten == ContractSpec => []LeaversAreForgotten
<1>1. DeparturesInv => LeaversAreForgotten
  <2> SUFFICES ASSUME DeparturesInv, NEW h \in Hosts, NEW c \in Clients,
                      c \in Queued(h), guest[c] = "left", link[h] = "open"
               PROVE  \E i \in DOMAIN toPeer[h] : toPeer[h][i] = ClientDisconnect(c)
    BY DEF LeaversAreForgotten
  <2>1. Once(h, c) /\ Strange(h, c) /\ Noticed(h, c)
    BY DEF DeparturesInv
  <2>2. ~Free(approvalQueue[h], {c})
    BY DEF Queued, Free
  <2>3. ~Free(toPeer[h], Departure(c))
    BY <2>1, <2>2 DEF Strange, Noticed, Pending
  <2> QED
    BY <2>3 DEF Free, Departure
<1> QED
  BY <1>1, ContractInvariance, DeparturesInit, DeparturesStep, PTL DEF ContractSpec

===============================================================================
