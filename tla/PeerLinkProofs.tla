---------------------------- MODULE PeerLinkProofs ---------------------------
(***************************************************************************)
(* KcpPeer implements PeerLink: every step of the peer is, for whoever     *)
(* reads its events, a step of PeerLink or none at all.                    *)
(***************************************************************************)
EXTENDS KcpPeerProofs

(* The refinement mapping. *)
Links == [p \in Peers |-> Link(p)]
Dues == [p \in Peers |-> rx.pc = "close" /\ rx.from = p]

Creating(p) == rx.pc = "create" /\ rx.from = p
Closing(p) == rx.pc = "close" /\ rx.from = p

-----------------------------------------------------------------------------
(* Which link an entry of the map stands for. *)

LEMMA LinkValue ==
  ASSUME TypeOK, NEW p \in Peers
  PROVE  /\ sessions[p] = None => Link(p) = "Down"
         /\ sessions[p] # None =>
              /\ Entry(p).state \in {"SynSent", "Established"}
              /\ Entry(p).state = "SynSent" => Link(p) = "Handshaking"
              /\ (Entry(p).state = "Established" /\ Creating(p)) => Link(p) = "Restarting"
              /\ (Entry(p).state = "Established" /\ ~Creating(p)) => Link(p) = "Up"
<1>1. sessions[p] # None => Entry(p) \in Session
  BY DEF TypeOK, VariablesOK, Entry
<1>2. sessions[p] # None => Entry(p).state \in {"SynSent", "Established"}
  BY <1>1 DEF Session, SessionState
<1>3. (p \in Mapped) <=> (sessions[p] # None)
  BY DEF Mapped
<1> HIDE DEF Entry
<1> QED
  BY <1>2, <1>3 DEF Link, Creating

LEMMA LinkValueNext ==
  ASSUME TypeOK', NEW p \in Peers
  PROVE  /\ sessions'[p] = None => Link(p)' = "Down"
         /\ sessions'[p] # None =>
              /\ Entry(p)'.state \in {"SynSent", "Established"}
              /\ Entry(p)'.state = "SynSent" => Link(p)' = "Handshaking"
              /\ (Entry(p)'.state = "Established" /\ Creating(p)') => Link(p)' = "Restarting"
              /\ (Entry(p)'.state = "Established" /\ ~Creating(p)') => Link(p)' = "Up"
<1>1. sessions'[p] # None => Entry(p)' \in Session
  BY DEF TypeOK, VariablesOK, Entry
<1>2. sessions'[p] # None => Entry(p)'.state \in {"SynSent", "Established"}
  BY <1>1 DEF Session, SessionState
<1>3. (p \in Mapped') <=> (sessions'[p] # None)
  BY DEF Mapped
<1> QED
  BY <1>2, <1>3 DEF Link, Creating

(* An entry with the same session in the same state is the same link. *)
SameEntry(q) ==
    /\ sessions'[q] = sessions[q]
    /\ sessions[q] # None =>
          /\ sess'[sessions[q]].state = sess[sessions[q]].state
          /\ Creating(q)' <=> Creating(q)

LEMMA SameEntrySameLink ==
  ASSUME TypeOK, TypeOK', NEW q \in Peers, SameEntry(q) PROVE Link(q)' = Link(q)
<1>1. CASE sessions[q] = None
  BY <1>1, LinkValue, LinkValueNext DEF SameEntry
<1>2. CASE sessions[q] # None
  BY <1>2, LinkValue, LinkValueNext DEF SameEntry, Entry
<1> QED
  BY <1>1, <1>2

(* A step that touches the entry of one peer. *)
LEMMA OneLink ==
  ASSUME TypeOK, TypeOK', NEW p \in Peers, \A q \in Peers \ {p} : SameEntry(q)
  PROVE  Links' = [Links EXCEPT ![p] = Link(p)']
<1>1. \A q \in Peers \ {p} : Link(q)' = Link(q)
  BY SameEntrySameLink
<1> QED
  BY <1>1 DEF Links

(* A step nobody hears of. *)
Hushed ==
    /\ last_event' = last_event
    /\ \A q \in Peers : SameEntry(q) /\ (Closing(q)' <=> Closing(q))

LEMMA HushedStutters ==
  ASSUME TypeOK, TypeOK', Hushed PROVE UNCHANGED <<Links, last_event, Dues>>
<1>1. Links' = Links
  BY SameEntrySameLink DEF Hushed, Links
<1>2. Dues' = Dues
  BY Zenon DEF Hushed, Dues, Closing
<1> QED
  BY <1>1, <1>2 DEF Hushed

(* What the map refers to is not freed by the step. *)
LEMMA MappedSurvives ==
  ASSUME TypeOK', NEW new, sess' = Collect(new), NEW q \in Peers, sessions'[q] # None
  PROVE  sess'[sessions'[q]] = new[sessions'[q]]
<1>1. sessions'[q] \in Arcs /\ sessions'[q] \in Held'
  BY ReachableIsHeldNext DEF TypeOK, VariablesOK
<1> QED
  BY <1>1 DEF Collect

Silently == UNCHANGED <<Links, last_event, Dues>>

-----------------------------------------------------------------------------
(* The steps of the abstract specification. *)

LEMMA BeginStep ==
  ASSUME NEW p \in Peers, Link(p) = "Down", Links' = [Links EXCEPT ![p] = "Handshaking"],
         last_event' = last_event, Dues' = Dues
  PROVE  PL!Next
<1>1. PL!Begin(p)
  BY DEF PL!Begin, Links, Dues
<1> QED
  BY <1>1 DEF PL!Next

LEMMA CompleteStep ==
  ASSUME NEW p \in Peers, Link(p) # "Up", ~Closing(p), Links' = [Links EXCEPT ![p] = "Up"],
         last_event' = [last_event EXCEPT ![p] = "Connected"], Dues' = Dues
  PROVE  PL!Next
<1>1. PL!Complete(p)
  BY DEF PL!Complete, Links, Dues, Closing
<1> QED
  BY <1>1 DEF PL!Next

LEMMA RestartStep ==
  ASSUME NEW p \in Peers, Link(p) = "Up", ~Closing(p), Links' = [Links EXCEPT ![p] = "Restarting"],
         last_event' = [last_event EXCEPT ![p] = "PeerRestarted"], Dues' = Dues
  PROVE  PL!Next
<1>1. PL!Restart(p)
  BY DEF PL!Restart, Links, Dues, Closing
<1> QED
  BY <1>1 DEF PL!Next

LEMMA EndStep ==
  ASSUME NEW p \in Peers, Link(p) # "Down", Links' = [Links EXCEPT ![p] = "Down"],
         last_event' = [last_event EXCEPT ![p] = "Disconnected"], Dues' = Dues
  PROVE  PL!Next
<1>1. PL!End(p)
  BY DEF PL!End, Links, Dues
<1> QED
  BY <1>1 DEF PL!Next

LEMMA VanishStep ==
  ASSUME NEW p \in Peers, ~Closing(p), Links' = [Links EXCEPT ![p] = "Down"],
         last_event' = last_event, Dues' = [Dues EXCEPT ![p] = TRUE]
  PROVE  PL!Next
<1>1. PL!Vanish(p)
  BY DEF PL!Vanish, Links, Dues, Closing
<1> QED
  BY <1>1 DEF PL!Next

LEMMA ReportStep ==
  ASSUME NEW p \in Peers, Closing(p), Link(p) \in {"Down", "Handshaking"}, Links' = Links,
         last_event' = [last_event EXCEPT ![p] = "Disconnected"],
         Dues' = [Dues EXCEPT ![p] = FALSE]
  PROVE  PL!Next
<1>1. PL!Report(p)
  BY DEF PL!Report, Links, Dues, Closing
<1> QED
  BY <1>1 DEF PL!Next

(* A step of anyone but the receive task leaves what is due alone. *)
LEMMA DuesKept == ASSUME rx' = rx PROVE Dues' = Dues
  BY DEF Dues

-----------------------------------------------------------------------------
(* The steps of the peer. *)

(* The caller's. *)
LEMMA CallerSimulates ==
  ASSUME IInv, TypeOK', NEW c \in Callers, CallerNext(c) PROVE PL!Next \/ Silently
<1>0. TypeOK
  BY DEF IInv
<1>1. ASSUME UNCHANGED <<sessions, rx, last_event>>,
             sess' = sess \/ sess' = Collect(sess)
      PROVE  Silently
  <2>1. \A q \in Peers : sessions[q] # None => sess'[sessions[q]] = sess[sessions[q]]
    BY <1>1, MappedSurvives
  <2>2. Hushed
    BY <1>1, <2>1 DEF Hushed, SameEntry, Creating, Closing
  <2> QED
    BY <1>0, <2>2, HushedStutters DEF Silently
<1>2. CASE QueueData(c)
  <2>1. PICK s \in SendData(sess[call[c].arc]) :
            sess' = Collect([sess EXCEPT ![call[c].arc] = s])
    BY <1>2 DEF QueueData
  <2>2. call[c].arc \in Arcs /\ sess[call[c].arc] \in Session /\ sess \in [Arcs -> Session]
    BY <1>0, <1>2 DEF QueueData, TypeOK, VariablesOK, LocalsOK
  <2>3. s.state = sess[call[c].arc].state
    BY <2>1, <2>2, SendDataSession DEF Keeps
  <2>4. UNCHANGED <<sessions, rx, last_event>>
    BY <1>2 DEF QueueData
  <2>5. ASSUME NEW q \in Peers, sessions[q] # None
        PROVE  sess'[sessions[q]].state = sess[sessions[q]].state
    <3>1. sess'[sessions[q]] = [sess EXCEPT ![call[c].arc] = s][sessions[q]]
      <4>1. PICK new : new = [sess EXCEPT ![call[c].arc] = s]
        OBVIOUS
      <4>2. sess' = Collect(new) /\ sessions' = sessions
        BY <2>1, <2>4, <4>1
      <4>3. sess'[sessions'[q]] = new[sessions'[q]]
        BY <2>5, <4>2, MappedSurvives
      <4> QED
        BY <4>1, <4>2, <4>3
    <3>2. sessions[q] \in Arcs
      BY <1>0, <2>5 DEF TypeOK, VariablesOK
    <3> QED
      BY <2>2, <2>3, <3>1, <3>2
  <2>6. Hushed
    BY <2>4, <2>5 DEF Hushed, SameEntry, Creating, Closing
  <2> QED
    BY <1>0, <2>6, HushedStutters DEF Silently
<1>3. ASSUME NEW conv \in Conv, InitiateInsert(c, conv) PROVE PL!Next
  <2>0. PICK p \in Peers : p = call[c].peer
    BY <1>0, <1>3 DEF InitiateInsert, TypeOK, LocalsOK
  <2> DEFINE new == NewOutbound(conv, p)
  <2>1. FreshArc \in Arcs /\ FreshArc # None /\ FreshArc \notin Held
    BY <1>3, FreshArcIsFree DEF InitiateInsert
  <2>2. /\ sessions[p] = None
        /\ sessions' = [sessions EXCEPT ![p] = FreshArc]
        /\ sess' = [sess EXCEPT ![FreshArc] = new]
        /\ UNCHANGED <<rx, last_event>>
    BY <1>3, <2>0 DEF InitiateInsert
  <2>3. new.state = "SynSent"
    BY DEF NewOutbound
  <2> HIDE DEF new
  <2>4. sess \in [Arcs -> Session] /\ sessions \in [Peers -> Arcs \cup {None}]
    BY <1>0 DEF TypeOK, VariablesOK
  <2>5. \A q \in Peers : sessions[q] # FreshArc
    BY <2>1, ReachableIsHeld
  <2>6. \A q \in Peers \ {p} : SameEntry(q)
    BY <2>1, <2>2, <2>4, <2>5 DEF SameEntry, Creating
  <2>7. sessions'[p] = FreshArc /\ sess'[FreshArc].state = "SynSent"
    BY <2>1, <2>2, <2>3, <2>4
  <2>8. Link(p) = "Down" /\ Link(p)' = "Handshaking"
    BY <1>0, <2>1, <2>2, <2>7, LinkValue, LinkValueNext DEF Entry
  <2>9. Links' = [Links EXCEPT ![p] = "Handshaking"]
    BY <1>0, <2>1, <2>6, <2>8, OneLink
  <2> QED
    BY <2>1, <2>2, <2>8, <2>9, BeginStep, DuesKept
<1>4. CASE InitiateFastCheck(c) \/ InitiateFound(c) \/ SendSyn(c) \/ SendAdmitted(c)
  BY <1>1, <1>4 DEF InitiateFastCheck, InitiateFound, SendSyn, SendAdmitted
<1>5. ASSUME NEW p \in Peers, Send(c, p) PROVE Silently
  BY <1>1, <1>5 DEF Send
<1>6. CASE CancelSend(c) \/ SendRefused(c)
  BY <1>1, <1>6 DEF CancelSend, SendRefused
<1> QED
  BY <1>2, <1>3, <1>4, <1>5, <1>6 DEF CallerNext, SendStep

(* disconnect() and the prune of a mapped session. *)
LEMMA RemovalSimulates ==
  ASSUME IInv, TypeOK', NEW p \in Peers, sessions[p] # None, rx' = rx,
         sessions' = [sessions EXCEPT ![p] = None],
         last_event' = [last_event EXCEPT ![p] = "Disconnected"],
         sess' = Collect([a \in Arcs |->
                    IF a = sessions[p] THEN MarkClosed(sess[a]) ELSE sess[a]])
  PROVE  PL!Next
<1>1. TypeOK /\ sess \in [Arcs -> Session] /\ sessions \in [Peers -> Arcs \cup {None}]
  BY DEF IInv, TypeOK, VariablesOK
<1>2. ASSUME NEW q \in Peers \ {p} PROVE SameEntry(q)
  <2>1. sessions'[q] = sessions[q]
    BY <1>1
  <2>2. CASE sessions[q] # None
    <3>1. sessions[q] \in Arcs
      BY <1>1, <2>2
    <3>2. sess'[sessions[q]] = IF sessions[q] = sessions[p] THEN MarkClosed(sess[sessions[q]])
                               ELSE sess[sessions[q]]
      BY <2>1, <2>2, <3>1, MappedSurvives
    <3>3. sess'[sessions[q]].state = sess[sessions[q]].state
      BY <1>1, <3>1, <3>2 DEF MarkClosed, Session
    <3> QED
      BY <2>1, <3>3 DEF SameEntry, Creating
  <2> QED
    BY <2>1, <2>2 DEF SameEntry
<1>3. sessions'[p] = None
  BY <1>1
<1>4. Link(p) # "Down" /\ Link(p)' = "Down"
  BY <1>1, <1>3, LinkValue, LinkValueNext
<1>5. Links' = [Links EXCEPT ![p] = "Down"]
  BY <1>1, <1>2, <1>4, OneLink
<1> QED
  BY <1>4, <1>5, EndStep, DuesKept

LEMMA DisconnectSimulates ==
  ASSUME IInv, TypeOK', NEW p \in Peers, Disconnect(p) PROVE PL!Next
<1>1. sess \in [Arcs -> Session]
  BY DEF IInv, TypeOK, VariablesOK
<1>2. [sess EXCEPT ![sessions[p]] = MarkClosed(@)] =
        [a \in Arcs |-> IF a = sessions[p] THEN MarkClosed(sess[a]) ELSE sess[a]]
  BY <1>1
<1> QED
  BY <1>2, RemovalSimulates DEF Disconnect

(* The receive task's.  A handshake completes on the mapped session. *)
LEMMA EstablishSimulates ==
  ASSUME IInv, TypeOK', NEW p \in Peers, NEW s, p = rx.from, sessions[p] # None,
         Entry(p).state = "SynSent", rx.pc \in {"Syn", "SynAck"}, rx' = NoPacket,
         sessions' = sessions, last_event' = [last_event EXCEPT ![p] = "Connected"],
         sess' = [sess EXCEPT ![sessions[p]] = s], s.state = "Established"
  PROVE  PL!Next
<1>1. TypeOK /\ sess \in [Arcs -> Session] /\ sessions[p] \in Arcs
  BY DEF IInv, TypeOK, VariablesOK
<1>2. \A q \in Peers : ~Creating(q) /\ ~Creating(q)' /\ ~Closing(q) /\ ~Closing(q)'
  BY DEF Creating, Closing, NoPacket
<1>3. \A q \in Peers \ {p} : sessions[q] # None => sessions[q] # sessions[p]
  BY DEF IInv, NoSharedEntry, Mapped, Entry
<1>4. \A q \in Peers \ {p} : SameEntry(q)
  BY <1>1, <1>2, <1>3 DEF SameEntry
<1>5. sess'[sessions'[p]].state = "Established"
  BY <1>1
<1>6. Link(p) = "Handshaking" /\ Link(p)' = "Up"
  BY <1>1, <1>2, <1>5, LinkValue, LinkValueNext DEF Entry
<1>7. Links' = [Links EXCEPT ![p] = "Up"]
  BY <1>1, <1>4, <1>6, OneLink
<1>8. Dues' = Dues
  BY <1>2, Zenon DEF Dues, Closing
<1> QED
  BY <1>2, <1>6, <1>7, <1>8, CompleteStep

LEMMA RxSimulates == ASSUME IInv, TypeOK', RxNext PROVE PL!Next \/ Silently
<1>0. TypeOK /\ rx \in RxState /\ sess \in [Arcs -> Session]
      /\ sessions \in [Peers -> Arcs \cup {None}] /\ NoPacket.pc = "recv"
  BY DEF IInv, TypeOK, VariablesOK, NoPacket
<1>1. ASSUME UNCHANGED <<sessions, last_event>>,
             sess' = sess \/ sess' = Collect(sess),
             rx.pc \notin {"create", "close"}, rx'.pc \notin {"create", "close"}
      PROVE  Silently
  <2>1. \A q \in Peers : sessions[q] # None => sess'[sessions[q]] = sess[sessions[q]]
    BY <1>1, MappedSurvives
  <2>2. Hushed
    BY <1>1, <2>1 DEF Hushed, SameEntry, Creating, Closing
  <2> QED
    BY <1>0, <2>2, HushedStutters DEF Silently
<1>2. ASSUME NEW typ \in PacketType, NEW p \in Peers, NEW conv \in Conv, RecvFrom(typ, p, conv)
      PROVE  Silently
  BY <1>1, <1>2 DEF RecvFrom, PacketType
<1>3. CASE RxKcpData \/ RxSynSame \/ RxSynAckIgnored \/ RxReset \/ RecvStop
  BY <1>0, <1>1, <1>3 DEF RxKcpData, RxSynSame, RxSynAckIgnored, RxReset, RecvStop, RxState
<1>4. CASE RxInputRefused \/ RxNotify
  BY <1>0, <1>1, <1>4 DEF RxInputRefused, RxNotify
<1>5. ASSUME NEW n \in 0..RcvWnd, RxInput(n) PROVE Silently
  <2>1. rx.arc \in Arcs /\ sess[rx.arc] \in Session
    BY <1>0, <1>5 DEF RxInput, TypeOK, LocalsOK
  <2>2. PICK k \in KcpInput(sess[rx.arc].kcp) :
            sess' = Collect([sess EXCEPT ![rx.arc].kcp = k])
    BY <1>5 DEF RxInput
  <2> DEFINE t == [sess[rx.arc] EXCEPT !.kcp = k]
  <2>3. t.state = sess[rx.arc].state
    BY <2>1, <2>2, KcpInputSession DEF Keeps
  <2>4. sess' = Collect([sess EXCEPT ![rx.arc] = t])
    BY <2>2
  <2> HIDE DEF t
  <2>5. UNCHANGED <<sessions, last_event>> /\ rx.pc = "input" /\ rx'.pc \in {"recv", "notify"}
    BY <1>0, <1>5 DEF RxInput, RxState
  <2>6. ASSUME NEW q \in Peers, sessions[q] # None
        PROVE  sess'[sessions[q]].state = sess[sessions[q]].state
    <3>1. sess'[sessions[q]] = [sess EXCEPT ![rx.arc] = t][sessions[q]]
      <4>1. PICK new : new = [sess EXCEPT ![rx.arc] = t]
        OBVIOUS
      <4>2. sess' = Collect(new) /\ sessions' = sessions
        BY <2>4, <2>5, <4>1
      <4>3. sess'[sessions'[q]] = new[sessions'[q]]
        BY <2>6, <4>2, MappedSurvives
      <4> QED
        BY <4>1, <4>2, <4>3
    <3> QED
      BY <1>0, <2>1, <2>3, <2>6, <3>1
  <2>7. Hushed
    BY <2>5, <2>6 DEF Hushed, SameEntry, Creating, Closing
  <2> QED
    BY <1>0, <2>7, HushedStutters DEF Silently
<1>6. CASE RxSynUnknown
  <2>1. /\ rx.pc = "Syn" /\ rx'.pc = "create" /\ rx'.from = rx.from /\ sessions[rx.from] = None
        /\ UNCHANGED <<sessions, sess, last_event>>
    BY <1>0, <1>6 DEF RxSynUnknown, RxState
  <2>2. Hushed
    BY <2>1 DEF Hushed, SameEntry, Creating, Closing
  <2> QED
    BY <1>0, <2>2, HushedStutters DEF Silently
<1>7. CASE RxSynSimultaneous
  <2>1. PICK p \in Peers : p = rx.from
    BY <1>0, <1>7 DEF RxSynSimultaneous, TypeOK, LocalsOK
  <2>2. Entry(p) \in Session /\ TieBreak(Entry(p), rx.conv, p \in Higher) \in Conv \cup {None}
    BY <1>0, <1>7, <2>1
    DEF RxSynSimultaneous, Entry, TieBreak, Session, TypeOK, LocalsOK
  <2>3. PICK s \in Establish(Entry(p), TieBreak(Entry(p), rx.conv, p \in Higher)) :
            sess' = [sess EXCEPT ![sessions[p]] = s]
    BY <1>7, <2>1 DEF RxSynSimultaneous
  <2>4. s.state = "Established"
    BY <2>2, <2>3, EstablishSession
  <2> QED
    BY <1>7, <2>1, <2>3, <2>4, EstablishSimulates DEF RxSynSimultaneous
<1>8. CASE RxSynAck
  <2>1. PICK p \in Peers : p = rx.from
    BY <1>0, <1>8 DEF RxSynAck, TypeOK, LocalsOK
  <2>2. Entry(p) \in Session /\ rx.conv \in Conv
    BY <1>0, <1>8, <2>1 DEF RxSynAck, Answers, Entry, TypeOK, LocalsOK
  <2>3. PICK s \in Establish(Entry(p), rx.conv) : sess' = [sess EXCEPT ![sessions[p]] = s]
    BY <1>8, <2>1 DEF RxSynAck
  <2>4. s.state = "Established"
    BY <2>2, <2>3, EstablishSession
  <2> QED
    BY <1>8, <2>1, <2>3, <2>4, EstablishSimulates DEF RxSynAck, Answers
<1>9. CASE RxSynRestart
  <2>1. PICK p \in Peers : p = rx.from
    BY <1>0, <1>9 DEF RxSynRestart, TypeOK, LocalsOK
  <2>2. /\ sessions[p] # None /\ Entry(p).state = "Established"
        /\ rx.pc = "Syn" /\ rx'.pc = "create" /\ rx'.from = p
        /\ sess' = [sess EXCEPT ![sessions[p]] = MarkClosed(sess[sessions[p]])]
        /\ sessions' = sessions
        /\ last_event' = [last_event EXCEPT ![p] = "PeerRestarted"]
    BY <1>0, <1>9, <2>1 DEF RxSynRestart, RxState
  <2>3. sessions[p] \in Arcs /\ sess'[sessions[p]].state = "Established"
    BY <1>0, <2>2 DEF MarkClosed, Session, Entry
  <2>4. \A q \in Peers \ {p} : sessions[q] # None => sessions[q] # sessions[p]
    BY <2>2 DEF IInv, NoSharedEntry, Mapped, Entry
  <2>5. \A q \in Peers \ {p} : SameEntry(q)
    BY <1>0, <2>2, <2>3, <2>4 DEF SameEntry, Creating
  <2>6. Link(p) = "Up" /\ Link(p)' = "Restarting"
    BY <1>0, <2>2, <2>3, LinkValue, LinkValueNext DEF Entry, Creating
  <2>7. Links' = [Links EXCEPT ![p] = "Restarting"]
    BY <1>0, <2>5, <2>6, OneLink
  <2>8. ~Closing(p) /\ Dues' = Dues
    BY <2>2 DEF Dues, Closing
  <2> QED
    BY <2>2, <2>6, <2>7, <2>8, RestartStep
<1>10. CASE RxCreate
  <2>1. PICK p \in Peers : p = rx.from
    BY <1>0, <1>10 DEF RxCreate, TypeOK, LocalsOK
  <2> DEFINE new == NewInbound(rx.conv, p)
  <2>2. FreshArc \in Arcs /\ FreshArc # None /\ FreshArc \notin Held
    BY <1>10, FreshArcIsFree DEF RxCreate
  <2>3. /\ rx.pc = "create" /\ rx'.pc = "recv"
        /\ sessions' = [sessions EXCEPT ![p] = FreshArc]
        /\ sess' = Collect([sess EXCEPT ![FreshArc] = new])
        /\ last_event' = [last_event EXCEPT ![p] = "Connected"]
    BY <1>0, <1>10, <2>1 DEF RxCreate
  <2>4. new.state = "Established"
    BY DEF NewInbound
  <2> DEFINE mem == [sess EXCEPT ![FreshArc] = new]
  <2> HIDE DEF new
  <2>m. sess' = Collect(mem) /\ mem[FreshArc] = new
        /\ \A a \in Arcs : a # FreshArc => mem[a] = sess[a]
    BY <1>0, <2>2, <2>3
  <2> HIDE DEF mem
  <2>5. sessions'[p] = FreshArc /\ sess'[FreshArc].state = "Established"
    <3>1. sessions'[p] = FreshArc
      BY <1>0, <2>3
    <3>2. sess'[sessions'[p]] = mem[sessions'[p]]
      BY <2>2, <2>m, <3>1, MappedSurvives
    <3> QED
      BY <2>4, <2>m, <3>1, <3>2
  <2>6. ASSUME NEW q \in Peers \ {p} PROVE SameEntry(q)
    <3>1. sessions'[q] = sessions[q] /\ sessions[q] # FreshArc
      BY <1>0, <2>2, <2>3, ReachableIsHeld
    <3>2. ASSUME sessions[q] # None PROVE sess'[sessions[q]] = sess[sessions[q]]
      <4>1. sess'[sessions[q]] = mem[sessions[q]]
        BY <2>m, <3>1, <3>2, MappedSurvives
      <4> QED
        BY <1>0, <2>m, <3>1, <3>2, <4>1
    <3> QED
      BY <2>1, <2>3, <3>1, <3>2 DEF SameEntry, Creating
  <2>7. Link(p) # "Up"
    BY <1>0, <2>1, <2>3, LinkValue DEF Creating
  <2>8. Link(p)' = "Up"
    BY <2>2, <2>3, <2>5, LinkValueNext DEF Creating, Entry
  <2>9. Links' = [Links EXCEPT ![p] = "Up"]
    BY <1>0, <2>6, <2>8, OneLink
  <2>10. ~Closing(p) /\ Dues' = Dues
    BY <2>3 DEF Dues, Closing
  <2> QED
    BY <2>3, <2>7, <2>9, <2>10, CompleteStep
<1>11. CASE RxRemove
  <2>1. PICK p \in Peers : p = rx.from
    BY <1>0, <1>11 DEF RxRemove, TypeOK, LocalsOK
  <2>2. /\ rx.pc = "remove" /\ rx'.pc = "close" /\ rx'.from = p
        /\ sessions' = [sessions EXCEPT ![p] = None]
        /\ last_event' = last_event /\ sess' = Collect(sess)
    BY <1>0, <1>11, <2>1 DEF RxRemove, RxState
  <2>3. ASSUME NEW q \in Peers \ {p} PROVE SameEntry(q)
    <3>1. sessions'[q] = sessions[q]
      BY <1>0, <2>2
    <3>2. ASSUME sessions[q] # None PROVE sess'[sessions[q]] = sess[sessions[q]]
      BY <2>2, <3>1, <3>2, MappedSurvives
    <3> QED
      BY <2>2, <3>1, <3>2 DEF SameEntry, Creating
  <2>4. sessions'[p] = None
    BY <1>0, <2>2
  <2>5. Link(p)' = "Down"
    BY <2>4, LinkValueNext
  <2>6. Links' = [Links EXCEPT ![p] = "Down"]
    BY <1>0, <2>3, <2>5, OneLink
  <2>7. ~Closing(p)
    BY <2>2 DEF Closing
  <2>8. Dues' = [Dues EXCEPT ![p] = TRUE]
    BY <2>2 DEF Dues
  <2> QED
    BY <2>2, <2>6, <2>7, <2>8, VanishStep
<1>12. CASE RxClose
  <2>1. PICK p \in Peers : p = rx.from
    BY <1>0, <1>12 DEF RxClose, TypeOK, LocalsOK
  <2>2. /\ rx.pc = "close" /\ rx'.pc = "recv"
        /\ sessions' = sessions
        /\ last_event' = [last_event EXCEPT ![p] = "Disconnected"]
        /\ sess' = Collect([sess EXCEPT ![rx.arc] = MarkClosed(@)])
    BY <1>0, <1>12, <2>1 DEF RxClose
  <2>3. /\ \A q \in Peers : sessions[q] # rx.arc
        /\ sessions[p] # None => Entry(p).state = "SynSent"
    BY <2>1, <2>2 DEF IInv, NoSharedEntry, Mapped
  <2> DEFINE mem == [sess EXCEPT ![rx.arc] = MarkClosed(@)]
  <2>m. sess' = Collect(mem) /\ \A a \in Arcs : a # rx.arc => mem[a] = sess[a]
    BY <1>0, <2>2
  <2> HIDE DEF mem
  <2>4. ASSUME NEW q \in Peers PROVE SameEntry(q)
    <3>1. ASSUME sessions[q] # None PROVE sess'[sessions[q]] = sess[sessions[q]]
      <4>1. sess'[sessions[q]] = mem[sessions[q]]
        BY <2>2, <2>m, <3>1, MappedSurvives
      <4> QED
        BY <1>0, <2>3, <2>m, <3>1, <4>1
    <3> QED
      BY <2>2, <3>1 DEF SameEntry, Creating
  <2>5. Link(p) \in {"Down", "Handshaking"}
    BY <1>0, <2>3, LinkValue
  <2>6. Links' = Links
    BY <1>0, <2>4, SameEntrySameLink DEF Links
  <2>7. Closing(p)
    BY <2>1, <2>2 DEF Closing
  <2>8. Dues' = [Dues EXCEPT ![p] = FALSE]
    BY <2>1, <2>2 DEF Dues
  <2> QED
    BY <2>2, <2>5, <2>6, <2>7, <2>8, ReportStep
<1> QED
  BY <1>2, <1>3, <1>4, <1>5, <1>6, <1>7, <1>8, <1>9, <1>10, <1>11, <1>12 DEF RxNext, HandlerStep

(* The update task's. *)
LEMMA UpdateSimulates == ASSUME IInv, TypeOK', UpdateNext PROVE PL!Next \/ Silently
<1>0. TypeOK /\ sess \in [Arcs -> Session] /\ sessions \in [Peers -> Arcs \cup {None}]
  BY DEF IInv, TypeOK, VariablesOK
<1>1. ASSUME UNCHANGED <<sessions, rx, last_event>>,
             \A q \in Peers : sessions[q] # None =>
                sess'[sessions[q]].state = sess[sessions[q]].state
      PROVE  Silently
  <2>1. Hushed
    BY <1>1 DEF Hushed, SameEntry, Creating, Closing
  <2> QED
    BY <1>0, <2>1, HushedStutters DEF Silently
<1>2. CASE Tick \/ ScanStart \/ UpdateStop
  BY <1>1, <1>2 DEF Tick, ScanStart, UpdateStop
<1>3. CASE VisitNext
  <2>1. ASSUME NEW p \in up.todo, NEW s, NEW doomed \in BOOLEAN, Visiting(p), Visit(p, s, doomed),
               s.state = Entry(p).state
        PROVE  Silently
    BY <1>0, <1>1, <2>1 DEF Visit, Entry
  <2>2. PICK p \in up.todo : \/ VisitClosed(p)
                             \/ \E k \in Kcp, idle \in BOOLEAN : VisitEstablished(p, k, idle)
                             \/ VisitExhausted(p)
                             \/ \E idle \in BOOLEAN : VisitRetry(p, idle)
                             \/ \E idle \in BOOLEAN : VisitWait(p, idle)
    BY <1>3 DEF VisitNext
  <2>3. Visiting(p)
    BY <2>2 DEF VisitClosed, VisitEstablished, VisitExhausted, VisitRetry, VisitWait
  <2>4. Entry(p) \in Session
    BY <1>0, <2>3 DEF TypeOK, LocalsOK, Mapped, Visiting, Entry
  <2>5. CASE VisitClosed(p) \/ VisitExhausted(p) \/ \E idle \in BOOLEAN : VisitWait(p, idle)
    BY <2>1, <2>3, <2>5 DEF VisitClosed, VisitExhausted, VisitWait
  <2>6. ASSUME NEW k \in Kcp, NEW idle \in BOOLEAN, VisitEstablished(p, k, idle)
        PROVE  Silently
    <3> DEFINE t == [Entry(p) EXCEPT !.kcp = k]
    <3>1. t.state = Entry(p).state
      BY <2>4 DEF Session
    <3>2. Visit(p, t, k = "DeadLink" \/ idle)
      BY <2>6 DEF VisitEstablished
    <3> HIDE DEF t
    <3> QED
      BY <2>1, <2>3, <3>1, <3>2
  <2>7. ASSUME NEW idle \in BOOLEAN, VisitRetry(p, idle) PROVE Silently
    <3> DEFINE t == [Entry(p) EXCEPT !.syn_retries = @ + 1]
    <3>1. t.state = Entry(p).state
      BY <2>4 DEF Session
    <3>2. Visit(p, t, idle)
      BY <2>7 DEF VisitRetry
    <3> HIDE DEF t
    <3> QED
      BY <2>1, <2>3, <3>1, <3>2
  <2> QED
    BY <2>2, <2>5, <2>6, <2>7
<1>4. CASE PruneNext
  <2>1. PICK e \in up.to_remove : Prune(e)
    BY <1>4 DEF PruneNext
  <2>2. PICK p \in Peers : p = e.can
    BY <1>0, <2>1 DEF TypeOK, VariablesOK, UpdateState
  <2>3. CASE sessions[p] # None
    BY <2>1, <2>2, <2>3, RemovalSimulates DEF Prune
  <2>4. CASE sessions[p] = None
    <3>1. UNCHANGED <<sessions, rx, last_event>>
      BY <1>0, <2>1, <2>2, <2>4 DEF Prune
    <3>2. sess' = Collect(sess)
      BY <1>0, <2>1, <2>2, <2>4, NoneIsNoArc DEF Prune, Collect
    <3>3. \A q \in Peers : sessions[q] # None => sess'[sessions[q]] = sess[sessions[q]]
      BY <3>1, <3>2, MappedSurvives
    <3> QED
      BY <1>1, <3>1, <3>3
  <2> QED
    BY <2>3, <2>4
<1> QED
  BY <1>2, <1>3, <1>4 DEF UpdateNext

(* The owner's: shutdown() reports nothing. *)
LEMMA OwnerSimulates == ASSUME IInv, TypeOK', OwnerNext PROVE Silently
<1>0. TypeOK /\ sess \in [Arcs -> Session]
  BY DEF IInv, TypeOK, VariablesOK
<1>1. ASSUME UNCHANGED <<sessions, rx, last_event>>,
             \A q \in Peers : sessions[q] # None =>
                sess'[sessions[q]].state = sess[sessions[q]].state
      PROVE  Silently
  <2>1. Hushed
    BY <1>1 DEF Hushed, SameEntry, Creating, Closing
  <2> QED
    BY <1>0, <2>1, HushedStutters DEF Silently
<1>2. CASE Shutdown \/ ShutdownList \/ ShutdownJoin \/ CancelShutdown \/ Drop
  BY <1>1, <1>2 DEF Shutdown, ShutdownList, ShutdownJoin, CancelShutdown, Drop
<1>3. ASSUME NEW a \in owner.peers, ShutdownClose(a) PROVE Silently
  <2>1. UNCHANGED <<sessions, rx, last_event>>
        /\ sess' = Collect([sess EXCEPT ![a] = MarkClosed(@)])
    BY <1>3 DEF ShutdownClose
  <2>2. ASSUME NEW q \in Peers, sessions[q] # None
        PROVE  sess'[sessions[q]].state = sess[sessions[q]].state
    <3>1. sess'[sessions[q]] = [sess EXCEPT ![a] = MarkClosed(@)][sessions[q]]
      <4>1. PICK new : new = [sess EXCEPT ![a] = MarkClosed(@)]
        OBVIOUS
      <4>2. sess' = Collect(new) /\ sessions' = sessions
        BY <2>1, <4>1
      <4>3. sess'[sessions'[q]] = new[sessions'[q]]
        BY <2>2, <4>2, MappedSurvives
      <4> QED
        BY <4>1, <4>2, <4>3
    <3>2. sessions[q] \in Arcs
      BY <1>0, <2>2 DEF TypeOK, VariablesOK
    <3> QED
      BY <1>0, <3>1, <3>2 DEF MarkClosed, Session
  <2> QED
    BY <1>1, <2>1, <2>2
<1> QED
  BY <1>2, <1>3 DEF OwnerNext

-----------------------------------------------------------------------------

LEMMA InitSimulates == Init => PL!Init
<1> SUFFICES ASSUME Init PROVE PL!Init
  OBVIOUS
<1>1. \A p \in Peers : Link(p) = "Down"
  <2>1. TypeOK /\ \A p \in Peers : sessions[p] = None
    BY InitOK DEF Init, IInv
  <2> QED
    BY <2>1, LinkValue
<1>2. \A p \in Peers : ~(rx.pc = "close" /\ rx.from = p)
  BY DEF Init, NoPacket
<1>3. Links = [p \in Peers |-> "Down"]
  BY <1>1 DEF Links
<1>4. Dues = [p \in Peers |-> FALSE]
  BY <1>2 DEF Dues
<1> QED
  BY <1>3, <1>4 DEF Init, PL!Init, Links, Dues

LEMMA StepSimulates == IInv /\ TypeOK' /\ [Next]_vars => PL!Next \/ Silently
<1> SUFFICES ASSUME IInv, TypeOK', [Next]_vars PROVE PL!Next \/ Silently
  OBVIOUS
<1>1. ASSUME UNCHANGED mapVars PROVE Silently
  BY <1>1 DEF mapVars, Silently, Links, Dues, Link, Mapped, Entry
<1>2. ASSUME NEW r \in Receivers, ReceiverNext(r) PROVE Silently
  BY <1>1, <1>2 DEF ReceiverNext
<1>3. CASE Terminated \/ UNCHANGED vars
  BY <1>1, <1>3 DEF Terminated, vars
<1> QED
  BY <1>2, <1>3, CallerSimulates, DisconnectSimulates, RxSimulates, UpdateSimulates,
     OwnerSimulates DEF Next

(* transport.rs:25-66: the events about every peer come in an order, and   *)
(* with sessions behind them, that PeerLink allows: no second Connected    *)
(* over a session that is up, no Connected before the end of the session   *)
(* before was reported, PeerRestarted only of a session that is up.        *)
THEOREM ImplementsPeerLink == Spec => EventOrdering
<1>1. Silently => UNCHANGED PL!vars
  BY DEF Silently, PL!vars, Links, Dues
<1>2. IInv /\ IInv' /\ [Next]_vars => [PL!Next]_(PL!vars)
  BY <1>1, StepSimulates DEF IInv
<1>3. Spec => []IInv
  BY InitOK, InvariantStep, PTL DEF Spec
<1> QED
  BY <1>2, <1>3, InitSimulates, PTL DEF Spec, EventOrdering, PL!Spec

=============================================================================
