--------------------------- MODULE MatchmakingProofs ---------------------------
(***************************************************************************)
(* The safety of the composed system for any number of hosts, clients and  *)
(* codes.  HostExclusive, TerminalOwned and HighlightedClientIsChosen are  *)
(* local to a host, but the last one, and the bound on the cursor, depend  *)
(* on the matchmaker: they hold only because no CLIENT_DISCONNECT is ever  *)
(* sent, which is an invariant of the server's maps (NoSeats).             *)
(***************************************************************************)
EXTENDS Matchmaking, HostAgentProofs

-----------------------------------------------------------------------------
(* The client: every step of it keeps the types of its state, of the       *)
(* transports and of the channels, and brings no CLIENT_DISCONNECT.        *)

(* A client that holds an offer, and is to answer it, knows whose it is.   *)
OffersNamed ==
  \A d \in Clients : clientPc[d] = "remote" => clientOffer[d] \in Hosts \X Clients

LEMMA ClientIsPeer == Clients \subseteq Peers
  BY DEF Peers

LEMMA ClientExitStep ==
  ASSUME ChannelTypeOK, RtcTypeOK, ClientTypeOK, OffersNamed, NEW c \in Clients, ClientExits(c)
  PROVE  ChannelTypeOK' /\ RtcTypeOK' /\ ClientTypeOK' /\ OffersNamed'
<1>1. ChannelTypeOK'
  BY ClientIsPeer, CutTyped DEF ClientExits
<1>2. RtcTypeOK' /\ OffersNamed'
  BY DEF ClientExits, RtcTypeOK, ClientPcStates, OffersNamed
<1>3. ClientTypeOK'
  BY DEF ClientExits, ClientTypeOK
<1> QED
  BY <1>1, <1>2, <1>3

(* Reading a frame, with the rest of the channels left alone or written.   *)
LEMMA ClientReadStep ==
  ASSUME ChannelTypeOK, NEW c \in Clients, NEW t, Reads(c, t), UNCHANGED link,
         \/ UNCHANGED toServer
         \/ \E fs \in Seq(FramesToServer) : toServer' = Written(c, fs)
  PROVE  ChannelTypeOK'
  BY ClientIsPeer, ReadsTyped, WrittenTyped DEF ChannelTypeOK

LEMMA ClientSignalStep ==
  ASSUME ChannelTypeOK, RtcTypeOK, ClientTypeOK, OffersNamed, NEW c \in Clients, ClientOnSignal(c)
  PROVE  ChannelTypeOK' /\ RtcTypeOK' /\ ClientTypeOK' /\ OffersNamed'
<1> DEFINE m == Head(toPeer[c])
<1>1. Reads(c, "SIGNAL_FORWARD") /\ ClientAppliesSignal(c, m)
      /\ UNCHANGED <<link, toServer, clientUp>>
  BY DEF ClientOnSignal
<1>2. m \in FramesToPeer /\ m.for \in Hosts \X Clients
  BY <1>1, ClientIsPeer, ReadsTyped, FrameFields
<1>3. ChannelTypeOK'
  BY <1>1, ClientReadStep
<1>4. RtcTypeOK' /\ OffersNamed'
  BY <1>1, <1>2 DEF ClientAppliesSignal, RtcTypeOK, ClientPcStates, OffersNamed
<1> QED
  BY <1>1, <1>3, <1>4 DEF ClientTypeOK

LEMMA ClientAnswerStep ==
  ASSUME ChannelTypeOK, RtcTypeOK, ClientTypeOK, OffersNamed, NEW c \in Clients,
         ClientAnswers(c)
  PROVE  ChannelTypeOK' /\ RtcTypeOK' /\ ClientTypeOK' /\ OffersNamed'
<1>1. PICK h \in Hosts, d \in Clients : clientOffer[c] = <<h, d>>
  BY DEF ClientAnswers, ClientSignalsAnswer, OffersNamed
<1>2. <<Answer(c, h, d)>> \in Seq(FramesToServer)
  BY FramesTyped
<1>3. /\ toServer' = Written(c, <<Answer(c, h, d)>>)
      /\ clientPc' = [clientPc EXCEPT ![c] = "answered"]
      /\ UNCHANGED <<hostPc, hostAnswer, clientOffer, link, toPeer, clientUp>>
  BY <1>1 DEF ClientAnswers, ClientSignalsAnswer
<1>4. ChannelTypeOK'
  BY <1>2, <1>3, ClientIsPeer, WrittenTyped DEF ChannelTypeOK
<1>5. RtcTypeOK' /\ ClientTypeOK'
  BY <1>3 DEF RtcTypeOK, ClientPcStates, ClientTypeOK
<1>6. OffersNamed'
  BY <1>3 DEF OffersNamed, RtcTypeOK
<1> QED
  BY <1>4, <1>5, <1>6

LEMMA ClientStep ==
  ASSUME ChannelTypeOK, RtcTypeOK, ClientTypeOK, OffersNamed, ClientNext
  PROVE  ChannelTypeOK' /\ RtcTypeOK' /\ ClientTypeOK' /\ OffersNamed'
<1>1. PICK c \in Clients : \/ ClientStart(c)
                           \/ ClientReacts(c)
                           \/ ClientSessionStarts(c)
                           \/ ClientDetaches(c)
                           \/ ClientLosesSocket(c)
                           \/ ClientCrashes(c)
  BY DEF ClientNext
<1>2. CASE ClientStart(c)
  <2>1. PICK k \in Codes : Connect(c, ClientLookup(k))
    BY <1>2 DEF ClientStart
  <2>2. ChannelTypeOK'
    BY <2>1, FramesTyped, ClientIsPeer, ConnectTyped
  <2> QED
    BY <1>2, <2>2 DEF ClientStart, ClientTypeOK, RtcTypeOK, rtcVars, OffersNamed
<1>3. CASE ClientOnMatchSuccess(c)
  <2>1. <<ApprovalRequest(c)>> \in Seq(FramesToServer)
    BY FramesTyped
  <2>2. ChannelTypeOK'
    BY <1>3, <2>1, ClientReadStep DEF ClientOnMatchSuccess
  <2> QED
    BY <1>3, <2>2 DEF ClientOnMatchSuccess, ClientTypeOK, RtcTypeOK, rtcVars, OffersNamed
<1>4. CASE ClientOnApproved(c)
  <2>1. ChannelTypeOK'
    BY <1>4, ClientReadStep DEF ClientOnApproved
  <2> QED
    BY <1>4, <2>1 DEF ClientOnApproved, ClientTypeOK, RtcTypeOK, ClientPcStates,
       OffersNamed
<1>5. CASE ClientIgnores(c)
  <2>1. ChannelTypeOK'
    BY <1>5, ClientReadStep DEF ClientIgnores
  <2> QED
    BY <1>5, <2>1 DEF ClientIgnores, ClientTypeOK, RtcTypeOK, rtcVars, OffersNamed
<1>6. CASE ClientOnSignal(c)
  BY <1>6, ClientSignalStep
<1>7. CASE ClientAnswers(c)
  BY <1>7, ClientAnswerStep DEF OffersNamed
<1>8. CASE ClientSessionStarts(c)
  <2>1. ChannelTypeOK'
    BY <1>8, ClientIsPeer, HangupTyped DEF ClientSessionStarts
  <2> QED
    BY <1>8, <2>1 DEF ClientSessionStarts, ClientTypeOK, RtcTypeOK, ClientPcStates,
       OffersNamed
<1>9. CASE ClientLosesSocket(c)
  <2>1. ChannelTypeOK'
    BY <1>9, ClientIsPeer, CutTyped DEF ClientLosesSocket
  <2> QED
    BY <1>9, <2>1 DEF ClientLosesSocket, ClientTypeOK, RtcTypeOK, rtcVars, OffersNamed
<1>10. CASE ClientExits(c)
  BY <1>10, ClientExitStep
<1> QED
  BY <1>1, <1>2, <1>3, <1>4, <1>5, <1>6, <1>7, <1>8, <1>9, <1>10
  DEF ClientReacts, ClientOnMatchFailed, ClientOnDenied, ClientSessionEnds, ClientDrains,
      ClientDetaches, ClientCrashes

-----------------------------------------------------------------------------
(* The matchmaker: every step of it keeps the types of its maps and of the *)
(* channels, and no step sends a CLIENT_DISCONNECT.                        *)

(* No client sits in a session, so that no host is told that one left.     *)
NoSeats ==
  /\ \A k \in Codes : activeSessions[k] # None => activeSessions[k].clientSocket = None
  /\ \A p \in Peers : \A i \in DOMAIN toPeer[p] : toPeer[p][i].type # "CLIENT_DISCONNECT"

LEMMA NoneIsNoPeer == None \notin Peers
  BY PeersAssumption DEF Peers

LEMMA SentTyped ==
  ASSUME ChannelTypeOK, NEW S, NEW m \in FramesToPeer
  PROVE  /\ Sent(S, m) \in [Peers -> Seq(FramesToPeer)]
         /\ (NoSeats /\ m.type # "CLIENT_DISCONNECT")
              => \A p \in Peers : \A i \in DOMAIN Sent(S, m)[p] :
                   Sent(S, m)[p][i].type # "CLIENT_DISCONNECT"
  BY DEF ChannelTypeOK, Sent, NoSeats

LEMMA ReceivesTyped ==
  ASSUME ChannelTypeOK, NEW s \in Peers, NEW m, Receives(s, m)
  PROVE  /\ toServer' \in [Peers -> Seq(FramesToServer)]
         /\ link' \in [Peers -> LinkStates]
         /\ m \in FramesToServer
  BY DEF ChannelTypeOK, Receives

LEMMA ForwardedFields ==
  ASSUME NEW m \in Forwarded
  PROVE  /\ m.type # "CLIENT_DISCONNECT"
         /\ m.type = "APPROVAL_REQUEST" => m.clientId \in Clients
  BY DEF Forwarded, Requests, Responses, Offers, Answers, ApprovalRequest,
         ApprovalResponse, Offer, Answer

LEMMA ServerRegisterStep ==
  ASSUME ChannelTypeOK, ServerTypeOK, NoSeats, NEW s \in Peers, HandleHostRegister(s)
  PROVE  ChannelTypeOK' /\ ServerTypeOK' /\ NoSeats'
<1>1. PICK k \in Codes :
        /\ activeSessions' =
             [activeSessions EXCEPT ![k] = [hostSocket |-> s, clientSocket |-> None]]
        /\ socketToSession' = [socketToSession EXCEPT ![s] = k]
        /\ toPeer' = Sent({s}, HostRegistered(k))
        /\ issued' = issued \cup {k}
  BY DEF HandleHostRegister
<1>2. Receives(s, HostRegister) /\ UNCHANGED <<socketToClient, matchedHost>>
  BY DEF HandleHostRegister
<1>3. HostRegistered(k) \in FramesToPeer /\ HostRegistered(k).type # "CLIENT_DISCONNECT"
  BY FramesTyped DEF HostRegistered
<1>4. ChannelTypeOK'
  BY <1>1, <1>2, <1>3, SentTyped, ReceivesTyped DEF ChannelTypeOK
<1>5. ServerTypeOK'
  BY <1>1, <1>2 DEF ServerTypeOK, Sessions
<1>6. NoSeats'
  BY <1>1, <1>3, SentTyped DEF NoSeats, ServerTypeOK
<1> QED
  BY <1>4, <1>5, <1>6

LEMMA ServerLookupStep ==
  ASSUME ChannelTypeOK, ServerTypeOK, NoSeats, NEW s \in Peers, HandleClientLookup(s)
  PROVE  ChannelTypeOK' /\ ServerTypeOK' /\ NoSeats'
<1>1. PICK k \in Codes :
        /\ Receives(s, ClientLookup(k))
        /\ \/ /\ activeSessions[k] = None
              /\ toPeer' = Sent({s}, MatchFailed)
              /\ UNCHANGED <<socketToSession, matchedHost>>
           \/ /\ activeSessions[k] # None
              /\ toPeer' = Sent({s}, MatchSuccess)
              /\ socketToSession' = [socketToSession EXCEPT ![s] = k]
              /\ matchedHost' = [matchedHost EXCEPT ![s] = activeSessions[k].hostSocket]
  BY DEF HandleClientLookup
<1>2. UNCHANGED <<activeSessions, socketToClient, issued>>
  BY DEF HandleClientLookup
<1>3. /\ MatchFailed \in FramesToPeer /\ MatchFailed.type # "CLIENT_DISCONNECT"
      /\ MatchSuccess \in FramesToPeer /\ MatchSuccess.type # "CLIENT_DISCONNECT"
  BY FramesTyped DEF MatchFailed, MatchSuccess
<1>4. /\ toPeer' \in [Peers -> Seq(FramesToPeer)]
      /\ \A p \in Peers : \A i \in DOMAIN toPeer'[p] : toPeer'[p][i].type # "CLIENT_DISCONNECT"
  BY <1>1, <1>3, SentTyped
<1>5. ChannelTypeOK'
  BY <1>1, <1>4, ReceivesTyped DEF ChannelTypeOK
<1>6. ServerTypeOK'
  BY <1>1, <1>2 DEF ServerTypeOK, Sessions
<1>7. NoSeats'
  BY <1>2, <1>4 DEF NoSeats
<1> QED
  BY <1>5, <1>6, <1>7

LEMMA ServerForwardStep ==
  ASSUME ChannelTypeOK, ServerTypeOK, NoSeats, NEW s \in Peers, HandleForward(s)
  PROVE  ChannelTypeOK' /\ ServerTypeOK' /\ NoSeats'
<1>1. PICK m \in Forwarded :
        /\ Receives(s, m)
        /\ socketToClient' = IF m.type = "APPROVAL_REQUEST"
                             THEN [socketToClient EXCEPT ![s] = m.clientId]
                             ELSE socketToClient
        /\ toPeer' = Sent(RoomMates(s), m)
  BY DEF HandleForward
<1>2. UNCHANGED <<activeSessions, socketToSession, issued, matchedHost>>
  BY DEF HandleForward
<1>3. m \in FramesToPeer /\ m.type # "CLIENT_DISCONNECT"
  BY FramesTyped, ForwardedFields
<1>4. ChannelTypeOK'
  BY <1>1, <1>3, SentTyped, ReceivesTyped DEF ChannelTypeOK
<1>5. ServerTypeOK'
  BY <1>1, <1>2, ForwardedFields DEF ServerTypeOK
<1>6. NoSeats'
  BY <1>1, <1>2, <1>3, SentTyped DEF NoSeats
<1> QED
  BY <1>4, <1>5, <1>6

LEMMA ServerCloseStep ==
  ASSUME ChannelTypeOK, ServerTypeOK, NoSeats, NEW s \in Peers, HandleClose(s)
  PROVE  ChannelTypeOK' /\ ServerTypeOK' /\ NoSeats'
<1> DEFINE k == socketToSession[s]
<1>1. k # None => ~SitsIn(s, k)
  BY NoneIsNoPeer DEF SitsIn, NoSeats, ServerTypeOK
<1>2. /\ toPeer' = toPeer
      /\ UNCHANGED <<toServer, issued>>
      /\ link' = [link EXCEPT ![s] = "closed"]
      /\ activeSessions' = activeSessions \/ activeSessions' = [activeSessions EXCEPT ![k] = None]
      /\ socketToSession' = [socketToSession EXCEPT ![s] = None]
      /\ \/ socketToClient' = socketToClient
         \/ socketToClient' = [socketToClient EXCEPT ![s] = None]
      /\ matchedHost' = [c \in Clients |-> IF c = s THEN None ELSE matchedHost[c]]
  BY <1>1 DEF HandleClose
<1>3. ChannelTypeOK'
  BY <1>2 DEF ChannelTypeOK, LinkStates
<1>4. ServerTypeOK'
  BY <1>2 DEF ServerTypeOK
<1>5. NoSeats'
  BY <1>2 DEF NoSeats, ServerTypeOK
<1> QED
  BY <1>3, <1>4, <1>5

LEMMA ServerRestartStep ==
  ASSUME ChannelTypeOK, ServerTypeOK, NoSeats, ServerRestart
  PROVE  ChannelTypeOK' /\ ServerTypeOK' /\ NoSeats'
<1>1. ChannelTypeOK'
  BY DEF ServerRestart, ChannelTypeOK, LinkStates
<1>2. ServerTypeOK'
  BY DEF ServerRestart, ServerTypeOK
<1>3. NoSeats'
  BY DEF ServerRestart, NoSeats
<1> QED
  BY <1>1, <1>2, <1>3

LEMMA ServerStep ==
  ASSUME ChannelTypeOK, ServerTypeOK, NoSeats, ServerNext
  PROVE  ChannelTypeOK' /\ ServerTypeOK' /\ NoSeats'
<1>1. CASE ServerRestart
  BY <1>1, ServerRestartStep
<1>2. CASE \E s \in Peers : ServerHandles(s)
  <2>1. PICK s \in Peers : ServerHandles(s)
    BY <1>2
  <2> QED
    BY <2>1, ServerRegisterStep, ServerLookupStep, ServerForwardStep, ServerCloseStep
    DEF ServerHandles
<1> QED
  BY <1>1, <1>2 DEF ServerNext

-----------------------------------------------------------------------------
(* The three programs together.                                            *)

Types ==
  /\ ChannelTypeOK
  /\ ServerTypeOK
  /\ RtcTypeOK
  /\ HostTypeOK
  /\ ClientTypeOK

(* The inductive invariant.                                                *)
IInv == Types /\ NoSeats /\ OffersNamed /\ HostDiscipline /\ Screens

-----------------------------------------------------------------------------
LEMMA InitEstablishes == Init => IInv
<1> SUFFICES ASSUME Init PROVE IInv
  OBVIOUS
<1>1. ChannelTypeOK /\ ServerTypeOK /\ RtcTypeOK /\ ClientTypeOK
  BY DEF Init, ChannelInit, ServerInit, RtcInit, ClientInit, ChannelTypeOK, LinkStates,
         ServerTypeOK, RtcTypeOK, HostPcStates, ClientPcStates, ClientTypeOK
<1>2. HostTypeOK
  <2>1. CookedStdin \in Stdins
    BY DEF CookedStdin, Stdins
  <2>2. <<>> \in Seq(BOOLEAN) /\ <<>> \in Seq(Clients)
    OBVIOUS
  <2> QED
    BY <2>1, <2>2 DEF Init, HostInit, HostTypeOK
<1>3. NoSeats /\ OffersNamed
  BY DEF Init, ChannelInit, ServerInit, RtcInit, NoSeats, OffersNamed
<1>4. HostDiscipline
  <2> SUFFICES ASSUME NEW h \in Hosts PROVE Locked(h) /\ Owned(h)
    BY DEF HostDiscipline
  <2>1. /\ Engaged(h) = {} /\ InUse(h) = {} /\ ~LobbyWaits(h)
        /\ lobby[h] = None /\ settled[h] = None
    BY DEF Init, RtcInit, HostInit, Engaged, Live, InUse, LobbyWaits
  <2>2. stdin[h] = CookedStdin
    BY DEF Init, HostInit
  <2>3. Owned(h)
    BY <2>1, <2>2 DEF Owned, CookedStdin
  <2> QED
    BY <2>1, <2>3 DEF Locked
<1>5. Screens
  BY DEF Init, HostInit, Screens, ScreenOK
<1> QED
  BY <1>1, <1>2, <1>3, <1>4, <1>5 DEF IInv, Types

-----------------------------------------------------------------------------
(* The peers only take frames from what the server wrote to them.          *)
Shrinks == \A p \in Peers : toPeer'[p] \in {toPeer[p], Tail(toPeer[p]), <<>>}

LEMMA ShrinkingKeepsNoSeats ==
  ASSUME ChannelTypeOK, NoSeats, UNCHANGED serverVars, Shrinks
  PROVE  NoSeats'
<1>1. ASSUME NEW p \in Peers, NEW i \in DOMAIN toPeer'[p]
      PROVE  toPeer'[p][i].type # "CLIENT_DISCONNECT"
  <2>1. toPeer[p] \in Seq(FramesToPeer)
    BY DEF ChannelTypeOK
  <2>2. CASE toPeer'[p] = toPeer[p]
    BY <1>1, <2>2 DEF NoSeats
  <2>3. CASE toPeer'[p] = <<>>
    BY <1>1, <2>3
  <2>4. CASE toPeer'[p] = Tail(toPeer[p]) /\ toPeer[p] # <<>>
    <3>1. i \in 1..(Len(toPeer[p]) - 1) /\ toPeer'[p][i] = toPeer[p][i + 1]
      BY <1>1, <2>1, <2>4
    <3>2. i + 1 \in DOMAIN toPeer[p]
      BY <2>1, <3>1
    <3> QED
      BY <3>1, <3>2 DEF NoSeats
  <2>5. CASE toPeer'[p] = Tail(toPeer[p]) /\ toPeer[p] = <<>>
    BY <1>1, <2>5
  <2> QED
    BY <2>2, <2>3, <2>4, <2>5 DEF Shrinks
<1> QED
  BY <1>1 DEF NoSeats, serverVars

LEMMA ChannelUseShrinks ==
  ASSUME ChannelTypeOK,
         \/ UNCHANGED toPeer
         \/ \E p \in Peers : Hangup(p) \/ Cut(p) \/ (\E t : Reads(p, t))
  PROVE  Shrinks
  BY DEF ChannelTypeOK, Shrinks, Hangup, Cut, Reads

LEMMA HostUsesChannels ==
  ASSUME HostNext
  PROVE  /\ UNCHANGED <<clientPc, clientOffer>>
         /\ \/ UNCHANGED toPeer
            \/ \E p \in Peers : Hangup(p) \/ Cut(p) \/ (\E t : Reads(p, t))
<1>1. PICK h \in Hosts : HostStart(h) \/ HostReacts(h) \/ OperatorActs(h) \/ HostSuffers(h)
  BY DEF HostNext
<1>2. h \in Peers
  BY HostIsPeer
<1>0. ASSUME NEW how, NEW raw, HostEnds(h, how, raw)
      PROVE  UNCHANGED <<clientPc, clientOffer>> /\ Cut(h)
  BY <1>0 DEF HostEnds
<1>3. CASE HostExits(h) \/ HostDies(h) \/ HostShellExits(h)
  BY <1>0, <1>2, <1>3 DEF HostExits, HostDies, HostShellExits
<1>4. CASE HostStart(h)
  BY <1>4 DEF HostStart, Connect, rtcVars
<1>5. CASE HostOnRequest(h) \/ HostOnDisconnect(h) \/ HostOnSignal(h) \/ HostIgnores(h)
  BY <1>2, <1>5 DEF HostOnRequest, HostOnDisconnect, HostOnSignal, HostIgnores,
     HostAppliesSignal, rtcVars
<1>6. CASE (OperatorActs(h) \/ HostResumesRejectAll(h) \/ HostResumesSelected(h)) /\ ~HostDies(h)
  BY <1>6 DEF OperatorActs, HostKeyUp, HostKeyDown, HostKeyEnter, HostKeyCtrlC, MovesTo,
     HostResumesRejectAll, HostResumesSelected, Reply, channelVars, rtcVars
<1>7. CASE /\ HostSuffers(h) \/ \E c \in Clients : HostOffers(h, c)
           /\ ~HostExits(h) /\ ~HostDies(h) /\ ~HostShellExits(h)
  BY <1>2, <1>7 DEF HostSuffers, HostSessionStarts, HostSessionCloses, HostNegotiationFails,
     HostLosesSocket, HostDrains, HostCrashes, HostOffers, HostSignalsOffer,
     channelVars, rtcVars
<1> QED
  BY <1>1, <1>3, <1>4, <1>5, <1>6, <1>7 DEF HostReacts, HostResumesExit

LEMMA ClientUsesChannels ==
  ASSUME ClientNext
  PROVE  /\ UNCHANGED <<hostPc, hostAnswer>>
         /\ \/ UNCHANGED toPeer
            \/ \E p \in Peers : Hangup(p) \/ Cut(p) \/ (\E t : Reads(p, t))
<1>1. PICK c \in Clients : \/ ClientStart(c)
                           \/ ClientReacts(c)
                           \/ ClientSessionStarts(c)
                           \/ ClientDetaches(c)
                           \/ ClientLosesSocket(c)
                           \/ ClientCrashes(c)
  BY DEF ClientNext
<1>2. c \in Peers
  BY ClientIsPeer
<1>3. CASE ClientExits(c)
  BY <1>2, <1>3 DEF ClientExits
<1>4. CASE ClientStart(c)
  BY <1>4 DEF ClientStart, Connect, rtcVars
<1>5. CASE ClientReacts(c) /\ ~ClientExits(c)
  BY <1>2, <1>5 DEF ClientReacts, ClientOnMatchFailed, ClientOnMatchSuccess, ClientOnDenied,
     ClientOnApproved, ClientIgnores, ClientOnSignal, ClientAppliesSignal, ClientAnswers,
     ClientSignalsAnswer, ClientSessionEnds, ClientDrains, rtcVars
<1>6. CASE ClientSessionStarts(c) \/ ClientLosesSocket(c)
  BY <1>2, <1>6 DEF ClientSessionStarts, ClientLosesSocket, rtcVars
<1> QED
  BY <1>1, <1>3, <1>4, <1>5, <1>6 DEF ClientDetaches, ClientCrashes

-----------------------------------------------------------------------------
LEMMA ServerKeeps ==
  ASSUME IInv, ServerNext, UNCHANGED <<rtcVars, hostVars, clientVars>>
  PROVE  IInv'
<1>1. ChannelTypeOK' /\ ServerTypeOK' /\ NoSeats'
  BY ServerStep DEF IInv, Types
<1>2. RtcTypeOK' /\ ClientTypeOK' /\ OffersNamed'
  BY DEF IInv, Types, RtcTypeOK, ClientTypeOK, OffersNamed, rtcVars, clientVars
<1>3. HostTypeOK' /\ Screens'
  BY DEF IInv, Types, HostTypeOK, Screens, ScreenOK, hostVars
<1>4. HostDiscipline'
  BY OthersKeepDiscipline DEF IInv, rtcVars, hostVars
<1> QED
  BY <1>1, <1>2, <1>3, <1>4 DEF IInv, Types

LEMMA HostKeeps ==
  ASSUME IInv, HostNext, UNCHANGED <<serverVars, clientVars>>
  PROVE  IInv'
<1>1. HostTypes
  BY DEF IInv, Types, HostTypes
<1>2. HostTypes'
  BY <1>1, HostStepTyped
<1>3. HostDiscipline'
  BY <1>1, HostStepDisciplined DEF IInv
<1>4. \A g \in Hosts : ~Reads(g, "CLIENT_DISCONNECT")
  <2> SUFFICES ASSUME NEW g \in Hosts, Reads(g, "CLIENT_DISCONNECT") PROVE FALSE
    OBVIOUS
  <2>1. toPeer[g] \in Seq(FramesToPeer) /\ toPeer[g] # <<>> /\ g \in Peers
    BY HostIsPeer DEF Reads, IInv, Types, ChannelTypeOK
  <2>2. 1 \in DOMAIN toPeer[g] /\ Head(toPeer[g]) = toPeer[g][1]
    BY <2>1
  <2> QED
    BY <2>1, <2>2 DEF Reads, IInv, NoSeats
<1>5. Screens'
  BY <1>1, <1>4, HostStepScreens DEF IInv
<1>6. Shrinks
  BY HostUsesChannels, ChannelUseShrinks DEF IInv, Types
<1>7. NoSeats'
  BY <1>6, ShrinkingKeepsNoSeats DEF IInv, Types
<1>8. OffersNamed'
  BY HostUsesChannels DEF IInv, OffersNamed
<1>9. ServerTypeOK' /\ ClientTypeOK'
  BY DEF IInv, Types, ServerTypeOK, ClientTypeOK, serverVars, clientVars
<1> QED
  BY <1>2, <1>3, <1>5, <1>7, <1>8, <1>9 DEF IInv, Types, HostTypes

LEMMA ClientKeeps ==
  ASSUME IInv, ClientNext, UNCHANGED <<serverVars, hostVars>>
  PROVE  IInv'
<1>1. ChannelTypeOK' /\ RtcTypeOK' /\ ClientTypeOK' /\ OffersNamed'
  BY ClientStep DEF IInv, Types
<1>2. ServerTypeOK' /\ HostTypeOK' /\ Screens'
  BY DEF IInv, Types, ServerTypeOK, HostTypeOK, Screens, ScreenOK, serverVars, hostVars
<1>3. HostDiscipline'
  BY ClientUsesChannels, OthersKeepDiscipline DEF IInv, hostVars
<1>4. Shrinks
  BY ClientUsesChannels, ChannelUseShrinks DEF IInv, Types
<1>5. NoSeats'
  BY <1>4, ShrinkingKeepsNoSeats DEF IInv, Types
<1> QED
  BY <1>1, <1>2, <1>3, <1>5 DEF IInv, Types

LEMMA StutterKeeps ==
  ASSUME IInv, UNCHANGED vars
  PROVE  IInv'
<1>1. Types'
  BY DEF IInv, Types, vars, channelVars, serverVars, rtcVars, hostVars, clientVars,
         ChannelTypeOK, ServerTypeOK, RtcTypeOK, HostTypeOK, ClientTypeOK
<1>2. NoSeats' /\ OffersNamed' /\ Screens'
  BY DEF IInv, vars, channelVars, serverVars, rtcVars, hostVars, NoSeats, OffersNamed,
         Screens, ScreenOK
<1>3. HostDiscipline'
  BY OthersKeepDiscipline DEF IInv, vars, rtcVars, hostVars
<1> QED
  BY <1>1, <1>2, <1>3 DEF IInv

(* IInv holds in every reachable state: no step of the matchmaker, a host, *)
(* a client or the network breaks it.                                      *)
THEOREM Invariance == Spec => []IInv
<1>1. IInv /\ [Next]_vars => IInv'
  <2> SUFFICES ASSUME IInv, [Next]_vars PROVE IInv'
    OBVIOUS
  <2>1. CASE ServerNext /\ UNCHANGED <<rtcVars, hostVars, clientVars>>
    BY <2>1, ServerKeeps
  <2>2. CASE HostNext /\ UNCHANGED <<serverVars, clientVars>>
    BY <2>2, HostKeeps
  <2>3. CASE ClientNext /\ UNCHANGED <<serverVars, hostVars>>
    BY <2>3, ClientKeeps
  <2>4. CASE UNCHANGED vars
    BY <2>4, StutterKeeps
  <2> QED
    BY <2>1, <2>2, <2>3, <2>4 DEF Next
<1> QED
  BY <1>1, InitEstablishes, PTL DEF Spec

-----------------------------------------------------------------------------
(* Every variable keeps its type.                                          *)
THEOREM TypeCorrect == Spec => []TypeOK
<1>1. IInv => TypeOK
  BY DEF IInv, Types, TypeOK
<1> QED
  BY <1>1, Invariance, PTL

(* The lock of processQueue covers the lobby and the session: one guest,   *)
(* and never a lobby beside it.                                            *)
THEOREM HostsAreExclusive == Spec => []HostExclusive
<1>1. IInv => HostExclusive
  BY DisciplineSuffices DEF IInv
<1> QED
  BY <1>1, Invariance, PTL

(* The host's terminal has one reader at most, and is raw just as long.    *)
THEOREM TerminalsAreOwned == Spec => []TerminalOwned
<1>1. IInv => TerminalOwned
  BY DisciplineSuffices DEF IInv
<1> QED
  BY <1>1, Invariance, PTL

(* Entering on a highlighted client selects that client, whoever knocked   *)
(* since the screen was painted.                                           *)
THEOREM SeenIsChosen == Spec => []HighlightedClientIsChosen
<1>1. IInv => HighlightedClientIsChosen
  BY DEF IInv, Screens, ScreenOK, HighlightedClientIsChosen
<1> QED
  BY <1>1, Invariance, PTL

(* Enter always finds an entry or "Deny All": as long as no one is told of *)
(* leavers, the queue only grows while a lobby counts its lines (render,   *)
(* handleInput and finish of DynamicLobby).                                *)
THEOREM CursorStaysInReach == Spec => []CursorInReach
<1>1. IInv => CursorInReach
  <2> SUFFICES ASSUME IInv, NEW h \in Hosts, LobbyWaits(h)
               PROVE  lobby[h].selectedIndex <= Len(approvalQueue[h])
    BY DEF CursorInReach
  <2>1. lobby[h] \in Lobbies /\ Painted(lobby[h], approvalQueue[h])
    BY DEF LobbyWaits, IInv, Types, HostTypeOK, Screens, ScreenOK
  <2>2. /\ lobby[h].selectedIndex \in Nat /\ lobby[h].cursor \in Nat
        /\ Len(lobby[h].entries) \in Nat /\ Len(approvalQueue[h]) \in Nat
    BY <2>1 DEF Lobbies, IInv, Types, HostTypeOK
  <2> QED
    BY <2>1, <2>2 DEF Painted
<1> QED
  BY <1>1, Invariance, PTL

(* The branch of 'close' that tells a host that a client left is dead: no  *)
(* session has a client socket and no CLIENT_DISCONNECT is on its way.     *)
THEOREM NoOneIsToldOfLeavers == Spec => []NoSeats
<1>1. IInv => NoSeats
  BY DEF IInv
<1> QED
  BY <1>1, Invariance, PTL

===============================================================================
