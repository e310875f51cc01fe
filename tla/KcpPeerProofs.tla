---------------------------- MODULE KcpPeerProofs ----------------------------
(***************************************************************************)
(* Proofs about KcpPeer, for any number of peers, callers, conversations,  *)
(* receivers and allocations.                                              *)
(***************************************************************************)
EXTENDS KcpPeer, TLAPS

-----------------------------------------------------------------------------
(* What the methods of Session do to a session. *)

(* Two values of a session that the map and the events cannot tell apart. *)
Keeps(s, t) == t.peer_addr = s.peer_addr /\ t.state = s.state /\ t.closed = s.closed

LEMMA NewSessions ==
  /\ Freed \in Session /\ Buffered(Freed)
  /\ \A conv \in Conv, p \in Peers :
        /\ NewOutbound(conv, p) \in Session /\ Buffered(NewOutbound(conv, p))
        /\ NewInbound(conv, p) \in Session /\ Buffered(NewInbound(conv, p))
  BY SynMaxRetriesNat
  DEF Freed, NewOutbound, NewInbound, Session, SessionState, Kcp, Buffered

LEMMA MarkClosedSession ==
  \A s \in Session : MarkClosed(s) \in Session /\ (Buffered(s) => Buffered(MarkClosed(s)))
  BY DEF MarkClosed, Session, Buffered

LEMMA KcpDriveType == \A k \in Kcp : KcpDrive(k) \subseteq Kcp
  BY DEF KcpDrive, Kcp

LEMMA SendDataSession ==
  \A s \in Session : \A t \in SendData(s) :
     t \in Session /\ Keeps(s, t) /\ (Buffered(s) => Buffered(t))
<1> SUFFICES ASSUME NEW s \in Session, NEW t \in SendData(s)
             PROVE  t \in Session /\ Keeps(s, t) /\ (Buffered(s) => Buffered(t))
  OBVIOUS
<1>1. CASE t = s
  BY <1>1 DEF Keeps
<1>2. CASE \E k \in IF s.state = "Established" THEN KcpDrive("Queued") ELSE {"Queued"} :
              t = [s EXCEPT !.kcp = k]
  BY <1>2 DEF Keeps, Buffered, KcpDrive, Session, Kcp
<1> QED
  BY <1>1, <1>2 DEF SendData

LEMMA EstablishSession ==
  \A s \in Session, conv \in Conv \cup {None} : \A t \in Establish(s, conv) :
     /\ t \in Session /\ Buffered(t)
     /\ t.peer_addr = s.peer_addr /\ t.state = "Established" /\ t.closed = s.closed
<1> SUFFICES ASSUME NEW s \in Session, NEW conv \in Conv \cup {None}, NEW t \in Establish(s, conv)
             PROVE  /\ t \in Session /\ Buffered(t)
                    /\ t.peer_addr = s.peer_addr /\ t.state = "Established" /\ t.closed = s.closed
  OBVIOUS
<1>1. PICK k \in KcpDrive(s.kcp) :
          t = [s EXCEPT !.state = "Established", !.conv_id = conv, !.kcp = k]
  BY DEF Establish
<1>2. k \in Kcp
  BY KcpDriveType DEF Session
<1> QED
  BY <1>1, <1>2 DEF Session, SessionState, Buffered

(* kcp.input and update() change the KCP control block, maybe_retry_syn()  *)
(* the retry counter, and nothing else.                                    *)
LEMMA KcpInputSession ==
  \A s \in Session : \A k \in KcpInput(s.kcp) :
     LET t == [s EXCEPT !.kcp = k]
     IN  t \in Session /\ Keeps(s, t) /\ (Buffered(s) => Buffered(t))
  BY DEF KcpInput, Session, Kcp, Keeps, Buffered

LEMMA KcpDriveSession ==
  \A s \in Session : \A k \in KcpDrive(s.kcp) :
     LET t == [s EXCEPT !.kcp = k]
     IN  t \in Session /\ Keeps(s, t) /\ (s.state = "Established" => Buffered(t))
  BY KcpDriveType DEF Session, Keeps, Buffered

LEMMA RetrySession ==
  \A s \in Session : s.syn_retries < SynMaxRetries =>
     LET t == [s EXCEPT !.syn_retries = @ + 1]
     IN  t \in Session /\ Keeps(s, t) /\ (Buffered(s) => Buffered(t))
  BY SynMaxRetriesNat DEF Session, Keeps, Buffered

-----------------------------------------------------------------------------
(* Memory. *)

LEMMA FreshArcIsFree ==
  FreeArcs # {} => FreshArc \in Arcs /\ FreshArc \notin Held /\ FreshArc # None
  BY NoneIsNoArc DEF FreeArcs, FreshArc

LEMMA InitOK == Init => IInv
<1> SUFFICES ASSUME Init PROVE IInv
  OBVIOUS
<1> USE DEF Init
<1>1. VariablesOK
  BY NewSessions
  DEF VariablesOK, RxState, UpdateState, CallState, OwnerState, NoPacket, IdleCall, Event
<1>2. LocalsOK
  BY DEF LocalsOK, NoPacket, IdleCall, Mapped
<1>3. NoSharedEntry /\ ClosedOnlyWhileReplaced /\ EventsMatchMap
  BY DEF NoSharedEntry, ClosedOnlyWhileReplaced, EventsMatchMap, Mapped, NoPacket
<1>4. BufferedUntilEstablished
  BY NewSessions DEF BufferedUntilEstablished
<1> QED
  BY <1>1, <1>2, <1>3, <1>4 DEF IInv, TypeOK

-----------------------------------------------------------------------------
(* Type correctness.  The caller's steps. *)

LEMMA CallerTypeOK == ASSUME TypeOK, NEW c \in Callers, CallerNext(c) PROVE TypeOK'
<1> USE DEF TypeOK, VariablesOK, LocalsOK, Mapped
<1> call[c] \in CallState
  OBVIOUS
<1>0. IdleCall \in CallState /\ IdleCall.pc = "idle"
  BY DEF IdleCall, CallState
<1>1. ASSUME NEW p \in Peers, Send(c, p) PROVE TypeOK'
  <2> DEFINE new == [pc |-> IF sessions[p] = None THEN "initiate" ELSE "send",
                     peer |-> p, arc |-> sessions[p]]
  <2>1. new \in CallState /\ new.peer \in Peers /\ (new.pc = "send" => new.arc \in Arcs)
        /\ new.pc \in {"initiate", "send"}
    BY DEF CallState
  <2>2. call' = [call EXCEPT ![c] = new]
    BY <1>1 DEF Send
  <2> HIDE DEF new
  <2> QED
    BY <1>1, <2>1, <2>2 DEF Send
<1>2. CASE InitiateFastCheck(c)
  <2> DEFINE found == sessions[call[c].peer]
             new == [call[c] EXCEPT !.pc = IF found = None THEN "insert" ELSE "send",
                                    !.arc = found]
  <2>1. call[c].peer \in Peers /\ found \in Arcs \cup {None}
    BY <1>2 DEF InitiateFastCheck
  <2>2. new \in CallState /\ new.peer \in Peers /\ (new.pc = "send" => new.arc \in Arcs)
        /\ new.pc \in {"insert", "send"}
    BY <2>1 DEF CallState
  <2>3. call' = [call EXCEPT ![c] = new]
    BY <1>2 DEF InitiateFastCheck
  <2> HIDE DEF new, found
  <2> QED
    BY <1>2, <2>2, <2>3 DEF InitiateFastCheck
<1>3. CASE InitiateFound(c)
  BY <1>3 DEF InitiateFound, CallState
<1>4. ASSUME NEW conv \in Conv, InitiateInsert(c, conv) PROVE TypeOK'
  <2> DEFINE new == [call[c] EXCEPT !.pc = "syn", !.arc = FreshArc]
  <2>1. FreshArc \in Arcs /\ FreshArc # None /\ call[c].peer \in Peers
    BY <1>4, FreshArcIsFree DEF InitiateInsert
  <2>2. new \in CallState /\ new.pc = "syn" /\ new.peer \in Peers /\ new.arc \in Arcs
    BY <2>1 DEF CallState
  <2>3. NewOutbound(conv, call[c].peer) \in Session
    BY <2>1, NewSessions
  <2>4. call' = [call EXCEPT ![c] = new]
    BY <1>4 DEF InitiateInsert
  <2> HIDE DEF new
  <2> QED
    BY <1>4, <2>1, <2>2, <2>3, <2>4 DEF InitiateInsert, MapUnlocked
<1>5. CASE SendSyn(c)
  BY <1>5 DEF SendSyn, CallState
<1>6. CASE CancelSend(c)
  BY <1>0, <1>6, NewSessions DEF CancelSend, Collect
<1>7. CASE SendRefused(c)
  BY <1>0, <1>7, NewSessions DEF SendRefused, Collect
<1>8. CASE SendAdmitted(c)
  BY <1>8 DEF SendAdmitted, CallState
<1>9. CASE QueueData(c)
  <2>1. PICK s \in SendData(sess[call[c].arc]) :
            sess' = Collect([sess EXCEPT ![call[c].arc] = s])
    BY <1>9 DEF QueueData
  <2>2. s \in Session
    BY <1>9, <2>1, SendDataSession DEF QueueData
  <2> QED
    BY <1>0, <1>9, <2>1, <2>2, NewSessions DEF QueueData, Collect
<1> QED
  BY <1>1, <1>2, <1>3, <1>4, <1>5, <1>6, <1>7, <1>8, <1>9 DEF CallerNext, SendStep

LEMMA DisconnectTypeOK == ASSUME TypeOK, NEW p \in Peers, Disconnect(p) PROVE TypeOK'
<1> USE DEF TypeOK, VariablesOK, LocalsOK, Mapped, Disconnect
<1>1. sess' \in [Arcs -> Session]
  BY NewSessions, MarkClosedSession DEF Collect
<1> QED
  BY <1>1 DEF MapUnlocked, Event

(* The receive task's steps. *)

LEMMA RxTypeOK == ASSUME TypeOK, RxNext PROVE TypeOK'
<1> USE DEF TypeOK, VariablesOK, LocalsOK, Mapped
<1>0. NoPacket \in RxState /\ NoPacket.pc = "recv"
  BY DEF NoPacket, RxState
<1>1. ASSUME NEW typ \in PacketType, NEW p \in Peers, NEW conv \in Conv, RecvFrom(typ, p, conv)
      PROVE  TypeOK'
  BY <1>1 DEF RecvFrom, RxState, PacketType
<1>2. CASE RxKcpData
  BY <1>0, <1>2 DEF RxKcpData, RxState
<1>3. CASE RxInputRefused
  BY <1>0, <1>3, NewSessions DEF RxInputRefused, Collect
<1>4. ASSUME NEW n \in 0..RcvWnd, RxInput(n) PROVE TypeOK'
  <2>1. rx.arc \in Arcs /\ rx.from \in Peers /\ rx.conv \in Conv
    BY <1>4 DEF RxInput
  <2>2. PICK k \in KcpInput(sess[rx.arc].kcp) :
            sess' = Collect([sess EXCEPT ![rx.arc].kcp = k])
    BY <1>4 DEF RxInput
  <2>3. [sess[rx.arc] EXCEPT !.kcp = k] \in Session
    BY <2>1, <2>2, KcpInputSession
  <2>4. sess' \in [Arcs -> Session]
    BY <2>1, <2>2, <2>3, NewSessions DEF Collect
  <2>5. rx' = NoPacket \/ rx' = [rx EXCEPT !.pc = "notify"]
    BY <1>4 DEF RxInput
  <2>6. rx' \in RxState /\ rx'.pc \in {"recv", "notify"}
        /\ (rx'.pc = "notify" => rx'.arc \in Arcs /\ rx'.from \in Peers /\ rx'.conv \in Conv)
    BY <1>0, <2>1, <2>5 DEF RxState
  <2> QED
    BY <1>4, <2>4, <2>6 DEF RxInput
<1>5. CASE RxNotify
  BY <1>0, <1>5, NewSessions DEF RxNotify, Collect
<1>6. CASE RxSynUnknown
  BY <1>6 DEF RxSynUnknown, RxState
<1>7. CASE RxSynSame
  BY <1>0, <1>7 DEF RxSynSame
<1>8. CASE RxSynSimultaneous
  <2>1. sessions[rx.from] \in Arcs /\ rx.from \in Peers /\ rx.conv \in Conv
    BY <1>8 DEF RxSynSimultaneous
  <2>2. PICK s \in Establish(Entry(rx.from),
                             TieBreak(Entry(rx.from), rx.conv, rx.from \in Higher)) :
            sess' = [sess EXCEPT ![sessions[rx.from]] = s]
    BY <1>8 DEF RxSynSimultaneous
  <2>3. Entry(rx.from) \in Session
    BY <2>1 DEF Entry
  <2>4. TieBreak(Entry(rx.from), rx.conv, rx.from \in Higher) \in Conv \cup {None}
    BY <2>1, <2>3 DEF TieBreak, Session
  <2>5. s \in Session
    BY <2>2, <2>3, <2>4, EstablishSession
  <2> QED
    BY <1>0, <1>8, <2>1, <2>2, <2>5 DEF RxSynSimultaneous, Event
<1>9. CASE RxSynRestart
  <2>1. sess' \in [Arcs -> Session]
    BY <1>9, MarkClosedSession DEF RxSynRestart
  <2> QED
    BY <1>9, <2>1 DEF RxSynRestart, RxState, Event
<1>10. CASE RxCreate
  <2>1. FreshArc \in Arcs /\ FreshArc # None /\ rx.from \in Peers /\ rx.conv \in Conv
    BY <1>10, FreshArcIsFree DEF RxCreate
  <2>2. sess' \in [Arcs -> Session]
    BY <1>10, <2>1, NewSessions DEF RxCreate, Collect
  <2> QED
    BY <1>0, <1>10, <2>1, <2>2 DEF RxCreate, MapUnlocked, Event
<1>11. CASE RxSynAck
  <2>1. sessions[rx.from] \in Arcs /\ rx.from \in Peers /\ rx.conv \in Conv
    BY <1>11 DEF RxSynAck, Answers
  <2>2. PICK s \in Establish(Entry(rx.from), rx.conv) :
            sess' = [sess EXCEPT ![sessions[rx.from]] = s]
    BY <1>11 DEF RxSynAck
  <2>3. s \in Session
    BY <2>1, <2>2, EstablishSession DEF Entry
  <2> QED
    BY <1>0, <1>11, <2>1, <2>2, <2>3 DEF RxSynAck, Event
<1>12. CASE RxSynAckIgnored
  BY <1>0, <1>12 DEF RxSynAckIgnored
<1>13. CASE RxReset
  BY <1>0, <1>13 DEF RxReset, RxState
<1>14. CASE RxRemove
  <2>1. sess' \in [Arcs -> Session]
    BY <1>14, NewSessions DEF RxRemove, Collect
  <2> QED
    BY <1>14, <2>1 DEF RxRemove, RxState, MapUnlocked
<1>15. CASE RxClose
  <2>1. sess' \in [Arcs -> Session]
    BY <1>15, NewSessions, MarkClosedSession DEF RxClose, Collect
  <2> QED
    BY <1>0, <1>15, <2>1 DEF RxClose, Event
<1>16. CASE RecvStop
  BY <1>16 DEF RecvStop, RxState
<1> QED
  BY <1>1, <1>2, <1>3, <1>4, <1>5, <1>6, <1>7, <1>8, <1>9, <1>10, <1>11, <1>12, <1>13, <1>14,
     <1>15, <1>16 DEF RxNext, HandlerStep

(* The update task's steps. *)

LEMMA VisitTypeOK ==
  ASSUME TypeOK, NEW p, NEW s \in Session, NEW doomed \in BOOLEAN, Visiting(p), Visit(p, s, doomed)
  PROVE  TypeOK'
<1> USE DEF TypeOK, VariablesOK, LocalsOK, Mapped
<1>1. p \in Peers /\ sessions[p] \in Arcs
  BY DEF Visiting
<1> DEFINE todo == up.todo \ {p}
           to_remove == up.to_remove \cup
               {[can |-> p, judged |-> a] : a \in {b \in {sessions[p]} : doomed}}
<1>2. todo \subseteq Mapped /\ todo \subseteq Peers
  BY DEF Visiting
<1>3. to_remove \subseteq [can : Peers, judged : Arcs]
  BY <1>1 DEF UpdateState
<1>4. up' = [pc |-> IF todo # {} THEN "scan" ELSE IF to_remove # {} THEN "prune" ELSE "tick",
             todo |-> todo, to_remove |-> to_remove]
  BY DEF Visit
<1> HIDE DEF to_remove, todo
<1>5. up' \in UpdateState /\ up'.todo = todo /\ (up'.pc # "scan" => todo = {})
  BY <1>2, <1>3, <1>4 DEF UpdateState
<1>6. sess' \in [Arcs -> Session]
  BY <1>1 DEF Visit
<1> QED
  BY <1>2, <1>5, <1>6 DEF Visit

LEMMA UpdateTypeOK == ASSUME TypeOK, UpdateNext PROVE TypeOK'
<1>1. CASE Tick
  BY <1>1 DEF TypeOK, VariablesOK, LocalsOK, Mapped, Tick, UpdateState
<1>2. CASE ScanStart
  <2> USE DEF TypeOK, VariablesOK, LocalsOK
  <2>1. Mapped \subseteq Peers /\ Mapped' = Mapped
    BY <1>2 DEF Mapped, ScanStart
  <2>2. /\ up' \in UpdateState
        /\ IF up'.pc = "scan" THEN up'.todo \subseteq Mapped ELSE up'.todo = {}
    BY <1>2, <2>1 DEF ScanStart, UpdateState
  <2> QED
    BY <1>2, <2>1, <2>2 DEF ScanStart
<1>3. CASE VisitNext
  <2>1. PICK p \in up.todo : \/ VisitClosed(p)
                             \/ \E k \in Kcp, idle \in BOOLEAN : VisitEstablished(p, k, idle)
                             \/ VisitExhausted(p)
                             \/ \E idle \in BOOLEAN : VisitRetry(p, idle)
                             \/ \E idle \in BOOLEAN : VisitWait(p, idle)
    BY <1>3 DEF VisitNext
  <2>2. Visiting(p)
    BY <2>1 DEF VisitClosed, VisitEstablished, VisitExhausted, VisitRetry, VisitWait
  <2>3. Entry(p) \in Session
    BY <2>2 DEF TypeOK, VariablesOK, LocalsOK, Mapped, Visiting, Entry
  <2>4. CASE VisitClosed(p) \/ VisitExhausted(p) \/ \E idle \in BOOLEAN : VisitWait(p, idle)
    BY <2>2, <2>3, <2>4, VisitTypeOK DEF VisitClosed, VisitExhausted, VisitWait
  <2>5. ASSUME NEW k \in Kcp, NEW idle \in BOOLEAN, VisitEstablished(p, k, idle)
        PROVE  TypeOK'
    <3>1. [Entry(p) EXCEPT !.kcp = k] \in Session
      BY <2>3, <2>5, KcpDriveSession DEF VisitEstablished
    <3> QED
      BY <2>2, <2>5, <3>1, VisitTypeOK DEF VisitEstablished
  <2>6. ASSUME NEW idle \in BOOLEAN, VisitRetry(p, idle) PROVE TypeOK'
    <3>1. [Entry(p) EXCEPT !.syn_retries = @ + 1] \in Session
      BY <2>3, <2>6, RetrySession DEF VisitRetry
    <3> QED
      BY <2>2, <2>6, <3>1, VisitTypeOK DEF VisitRetry
  <2> QED
    BY <2>1, <2>4, <2>5, <2>6
<1>4. CASE PruneNext
  <2> USE DEF TypeOK, VariablesOK, LocalsOK, Mapped
  <2>1. PICK e \in up.to_remove : Prune(e)
    BY <1>4 DEF PruneNext
  <2>2. e.can \in Peers
    BY <2>1 DEF UpdateState
  <2>3. sess' \in [Arcs -> Session]
    BY <2>1, NewSessions, MarkClosedSession DEF Prune, Collect
  <2>4. up' \in UpdateState /\ up'.pc # "scan" /\ up'.todo = {}
    BY <2>1 DEF Prune, UpdateState
  <2> QED
    BY <2>1, <2>2, <2>3, <2>4 DEF Prune, Event
<1>5. CASE UpdateStop
  BY <1>5 DEF TypeOK, VariablesOK, LocalsOK, Mapped, UpdateStop, UpdateState
<1> QED
  BY <1>1, <1>2, <1>3, <1>4, <1>5 DEF UpdateNext

LEMMA OwnerTypeOK == ASSUME TypeOK, OwnerNext PROVE TypeOK'
<1> USE DEF TypeOK, VariablesOK, LocalsOK, Mapped
<1>1. CASE Shutdown \/ ShutdownList
  BY <1>1 DEF Shutdown, ShutdownList, OwnerState
<1>2. ASSUME NEW a \in owner.peers, ShutdownClose(a) PROVE TypeOK'
  <2>1. a \in Arcs
    BY DEF OwnerState
  <2>2. sess' \in [Arcs -> Session]
    BY <1>2, <2>1, NewSessions, MarkClosedSession DEF ShutdownClose, Collect
  <2> QED
    BY <1>2, <2>2 DEF ShutdownClose, OwnerState
<1>3. CASE ShutdownJoin
  BY <1>3 DEF ShutdownJoin, OwnerState
<1>4. CASE CancelShutdown
  BY <1>4 DEF CancelShutdown, OwnerState
<1>5. CASE Drop
  BY <1>5 DEF Drop, OwnerState
<1> QED
  BY <1>1, <1>2, <1>3, <1>4, <1>5 DEF OwnerNext

LEMMA TypeStep == TypeOK /\ [Next]_vars => TypeOK'
<1> SUFFICES ASSUME TypeOK, [Next]_vars PROVE TypeOK'
  OBVIOUS
<1>1. ASSUME UNCHANGED mapVars PROVE TypeOK'
  BY <1>1 DEF TypeOK, VariablesOK, LocalsOK, Mapped, mapVars
<1>2. ASSUME NEW r \in Receivers, ReceiverNext(r) PROVE TypeOK'
  BY <1>1, <1>2 DEF ReceiverNext
<1>3. CASE Terminated \/ UNCHANGED vars
  BY <1>1, <1>3 DEF Terminated, vars
<1> QED
  BY <1>2, <1>3, CallerTypeOK, DisconnectTypeOK, RxTypeOK, UpdateTypeOK, OwnerTypeOK DEF Next

(* Every party's place and locals are what the code lets them be, in every *)
(* reachable state: no handler is past a lookup with nothing in hand, and  *)
(* no writer empties an entry that the scan of the update task will visit. *)
THEOREM TypeCorrect == Spec => []TypeOK
<1>1. Init => TypeOK
  BY InitOK DEF IInv
<1> QED
  BY <1>1, TypeStep, PTL DEF Spec

-----------------------------------------------------------------------------
(* The safety invariants.  A quiet step changes no entry of the map, sends *)
(* no event and leaves to every session that is still held its address,    *)
(* state and closed flag; the receive task neither leaves a critical place *)
(* nor enters one.                                                         *)

Quiet ==
    /\ sessions' = sessions
    /\ last_event' = last_event
    /\ Cancelled => Cancelled'
    /\ rx' = rx \/ (rx.pc \notin {"create", "close"} /\ rx'.pc \notin {"remove", "close"})
    /\ \A a \in Arcs : a \in Held' => Keeps(sess[a], sess'[a])

(* What the map or the receive task refers to is held, so it is not freed. *)
LEMMA ReachableIsHeld ==
  /\ \A p \in Peers : sessions[p] # None => sessions[p] \in Held
  /\ rx.arc # None => rx.arc \in Held
  BY DEF Held

LEMMA ReachableIsHeldNext ==
  /\ \A p \in Peers : sessions'[p] # None => sessions'[p] \in Held'
  /\ rx'.arc # None => rx'.arc \in Held'
  BY DEF Held

LEMMA QuietOK == ASSUME IInv, TypeOK', BufferedUntilEstablished', Quiet PROVE IInv'
<1> USE DEF IInv, TypeOK, VariablesOK, LocalsOK, Mapped, Entry, Quiet
<1>1. \A p \in Peers : sessions[p] # None =>
          sessions[p] \in Arcs /\ Keeps(sess[sessions[p]], sess'[sessions[p]])
  BY ReachableIsHeldNext
<1>2. NoSharedEntry'
  <2>1. rx'.pc = "remove" => Keeps(sess[rx.arc], sess'[rx.arc])
    BY NoneIsNoArc, ReachableIsHeldNext
  <2> QED
    BY <1>1, <2>1 DEF NoSharedEntry, Keeps
<1>3. ClosedOnlyWhileReplaced'
  BY <1>1 DEF ClosedOnlyWhileReplaced, Keeps
<1>4. EventsMatchMap'
  BY <1>1 DEF EventsMatchMap, Keeps
<1> QED
  BY <1>2, <1>3, <1>4

LEMMA CallerOK == ASSUME IInv, NEW c \in Callers, CallerNext(c) PROVE IInv'
<1> USE DEF IInv
<1>0. TypeOK' /\ call[c] \in CallState /\ sess \in [Arcs -> Session]
  BY CallerTypeOK DEF TypeOK, VariablesOK
<1>1. ASSUME UNCHANGED <<sessions, sess, rx, owner, last_event>> PROVE IInv'
  BY <1>0, <1>1, QuietOK DEF Quiet, Keeps, BufferedUntilEstablished, Cancelled
<1>2. ASSUME UNCHANGED <<sessions, rx, owner, last_event>>, sess' = Collect(sess) PROVE IInv'
  BY <1>0, <1>2, QuietOK, NewSessions
  DEF Quiet, Keeps, BufferedUntilEstablished, Cancelled, Collect
<1>3. CASE QueueData(c)
  <2>1. PICK s \in SendData(sess[call[c].arc]) :
            sess' = Collect([sess EXCEPT ![call[c].arc] = s])
    BY <1>3 DEF QueueData
  <2>2. call[c].arc \in Arcs /\ sess[call[c].arc] \in Session
    BY <1>3 DEF QueueData, TypeOK, VariablesOK, LocalsOK
  <2>3. Keeps(sess[call[c].arc], s) /\ (Buffered(sess[call[c].arc]) => Buffered(s))
    BY <2>1, <2>2, SendDataSession
  <2>4. BufferedUntilEstablished'
    BY <1>0, <2>1, <2>2, <2>3, NewSessions DEF BufferedUntilEstablished, Collect
  <2>5. Quiet
    BY <1>0, <1>3, <2>1, <2>2, <2>3 DEF QueueData, Quiet, Keeps, Cancelled, Collect
  <2> QED
    BY <1>0, <2>4, <2>5, QuietOK
<1>4. ASSUME NEW conv \in Conv, InitiateInsert(c, conv) PROVE IInv'
  <2> DEFINE p == call[c].peer
             new == NewOutbound(conv, p)
  <2>1. p \in Peers /\ FreshArc \in Arcs /\ FreshArc # None /\ FreshArc \notin Held
    BY <1>4, FreshArcIsFree DEF InitiateInsert, TypeOK, VariablesOK, LocalsOK
  <2>2. new.peer_addr = p /\ new.state = "SynSent" /\ ~new.closed /\ Buffered(new)
    BY <2>1, NewSessions DEF NewOutbound
  <2>3. /\ sessions[p] = None
        /\ sessions' = [sessions EXCEPT ![p] = FreshArc]
        /\ sess' = [sess EXCEPT ![FreshArc] = new]
        /\ UNCHANGED <<rx, owner, last_event>>
    BY <1>4 DEF InitiateInsert
  <2> HIDE DEF p, new
  <2> USE DEF TypeOK, VariablesOK, LocalsOK, Mapped, Entry
  <2>4. /\ \A q \in Peers : sessions[q] # FreshArc
        /\ rx.arc # FreshArc
    BY <2>1, ReachableIsHeld
  <2>5. NoSharedEntry'
    BY <2>1, <2>2, <2>3, <2>4 DEF NoSharedEntry
  <2>6. ClosedOnlyWhileReplaced'
    BY <2>1, <2>2, <2>3, <2>4 DEF ClosedOnlyWhileReplaced, Cancelled
  <2>7. EventsMatchMap'
    BY <2>1, <2>2, <2>3, <2>4 DEF EventsMatchMap
  <2>8. BufferedUntilEstablished'
    BY <2>1, <2>2, <2>3 DEF BufferedUntilEstablished
  <2> QED
    BY <1>0, <2>5, <2>6, <2>7, <2>8
<1>5. CASE InitiateFastCheck(c) \/ InitiateFound(c) \/ SendSyn(c) \/ SendAdmitted(c)
  BY <1>1, <1>5 DEF InitiateFastCheck, InitiateFound, SendSyn, SendAdmitted
<1>6. ASSUME NEW p \in Peers, Send(c, p) PROVE IInv'
  BY <1>1, <1>6 DEF Send
<1>7. CASE CancelSend(c) \/ SendRefused(c)
  BY <1>2, <1>7 DEF CancelSend, SendRefused
<1> QED
  BY <1>3, <1>4, <1>5, <1>6, <1>7 DEF CallerNext, SendStep

(* disconnect() and the update task remove an entry the same way: by       *)
(* NoSharedEntry nobody else's entry is the session they close.            *)
LEMMA RemovalOK ==
  ASSUME IInv, TypeOK', NEW p \in Peers, sessions[p] # None,
         UNCHANGED <<rx, owner>>,
         sessions' = [sessions EXCEPT ![p] = None],
         last_event' = [last_event EXCEPT ![p] = "Disconnected"],
         sess' = Collect([a \in Arcs |->
                    IF a = sessions[p] THEN MarkClosed(sess[a]) ELSE sess[a]])
  PROVE  IInv'
<1> USE DEF IInv, TypeOK, VariablesOK, LocalsOK, Mapped, Entry
<1>1. \A a \in Arcs : a \in Held' =>
          /\ sess'[a].peer_addr = sess[a].peer_addr /\ sess'[a].state = sess[a].state
          /\ a # sessions[p] => sess'[a] = sess[a]
  BY DEF Collect, MarkClosed, Session
<1>2. \A q \in Peers : sessions'[q] # None =>
          /\ q # p /\ sessions'[q] = sessions[q] /\ sessions[q] \in Arcs
          /\ sessions[q] # sessions[p] /\ sess'[sessions[q]] = sess[sessions[q]]
  BY <1>1, ReachableIsHeldNext DEF NoSharedEntry
<1>3. NoSharedEntry'
  <2>1. rx.pc = "remove" => sess'[rx.arc].peer_addr = sess[rx.arc].peer_addr
    BY <1>1, NoneIsNoArc, ReachableIsHeldNext
  <2>2. rx.pc = "close" => \A q \in Peers : sessions'[q] # rx.arc
    BY <1>2, NoneIsNoArc DEF NoSharedEntry
  <2> QED
    BY <1>2, <2>1, <2>2 DEF NoSharedEntry
<1>4. ClosedOnlyWhileReplaced'
  BY <1>2 DEF ClosedOnlyWhileReplaced, Cancelled
<1>5. EventsMatchMap'
  BY <1>2 DEF EventsMatchMap
<1>6. BufferedUntilEstablished'
  BY NewSessions, MarkClosedSession DEF BufferedUntilEstablished, Collect
<1> QED
  BY <1>3, <1>4, <1>5, <1>6

LEMMA DisconnectOK == ASSUME IInv, NEW p \in Peers, Disconnect(p) PROVE IInv'
<1>1. TypeOK'
  BY DisconnectTypeOK DEF IInv
<1>2. sess \in [Arcs -> Session]
  BY DEF IInv, TypeOK, VariablesOK
<1>3. [sess EXCEPT ![sessions[p]] = MarkClosed(@)] =
        [a \in Arcs |-> IF a = sessions[p] THEN MarkClosed(sess[a]) ELSE sess[a]]
  BY <1>2
<1> QED
  BY <1>1, <1>3, RemovalOK DEF Disconnect

LEMMA UpdateOK == ASSUME IInv, UpdateNext PROVE IInv'
<1> USE DEF IInv
<1>0. TypeOK'
  BY UpdateTypeOK
<1>1. CASE Tick \/ ScanStart \/ UpdateStop
  BY <1>0, <1>1, QuietOK
  DEF Tick, ScanStart, UpdateStop, Quiet, Keeps, BufferedUntilEstablished, Cancelled
<1>2. CASE VisitNext
  <2>1. ASSUME NEW p \in up.todo, NEW s, NEW doomed \in BOOLEAN, Visiting(p), Visit(p, s, doomed),
               Keeps(Entry(p), s), Buffered(s)
        PROVE  IInv'
    <3>1. sessions[p] \in Arcs /\ sess \in [Arcs -> Session]
      BY <2>1 DEF TypeOK, VariablesOK, LocalsOK, Mapped, Visiting
    <3>2. BufferedUntilEstablished'
      BY <2>1, <3>1 DEF BufferedUntilEstablished, Visit
    <3>3. Quiet
      BY <2>1, <3>1 DEF Quiet, Keeps, Visit, Cancelled, Entry
    <3> QED
      BY <1>0, <3>2, <3>3, QuietOK
  <2>2. PICK p \in up.todo : \/ VisitClosed(p)
                             \/ \E k \in Kcp, idle \in BOOLEAN : VisitEstablished(p, k, idle)
                             \/ VisitExhausted(p)
                             \/ \E idle \in BOOLEAN : VisitRetry(p, idle)
                             \/ \E idle \in BOOLEAN : VisitWait(p, idle)
    BY <1>2 DEF VisitNext
  <2>3. Visiting(p)
    BY <2>2 DEF VisitClosed, VisitEstablished, VisitExhausted, VisitRetry, VisitWait
  <2>4. Entry(p) \in Session /\ Buffered(Entry(p)) /\ Keeps(Entry(p), Entry(p))
    BY <2>3 DEF TypeOK, VariablesOK, LocalsOK, Mapped, Visiting, Entry,
                BufferedUntilEstablished, Keeps
  <2>5. CASE VisitClosed(p) \/ VisitExhausted(p) \/ \E idle \in BOOLEAN : VisitWait(p, idle)
    BY <2>1, <2>3, <2>4, <2>5 DEF VisitClosed, VisitExhausted, VisitWait
  <2>6. ASSUME NEW k \in Kcp, NEW idle \in BOOLEAN, VisitEstablished(p, k, idle)
        PROVE  IInv'
    <3> DEFINE t == [Entry(p) EXCEPT !.kcp = k]
    <3>1. Keeps(Entry(p), t) /\ Buffered(t)
      BY <2>4, <2>6, KcpDriveSession DEF VisitEstablished
    <3>2. Visit(p, t, k = "DeadLink" \/ idle)
      BY <2>6 DEF VisitEstablished
    <3> HIDE DEF t
    <3> QED
      BY <2>1, <2>3, <3>1, <3>2
  <2>7. ASSUME NEW idle \in BOOLEAN, VisitRetry(p, idle) PROVE IInv'
    <3> DEFINE t == [Entry(p) EXCEPT !.syn_retries = @ + 1]
    <3>1. Keeps(Entry(p), t) /\ Buffered(t)
      BY <2>4, <2>7, RetrySession DEF VisitRetry
    <3>2. Visit(p, t, idle)
      BY <2>7 DEF VisitRetry
    <3> HIDE DEF t
    <3> QED
      BY <2>1, <2>3, <3>1, <3>2
  <2> QED
    BY <2>2, <2>5, <2>6, <2>7
<1>3. CASE PruneNext
  <2>1. PICK e \in up.to_remove : Prune(e)
    BY <1>3 DEF PruneNext
  <2>2. e.can \in Peers
    BY <2>1 DEF TypeOK, VariablesOK, UpdateState
  <2>3. CASE sessions[e.can] # None
    BY <1>0, <2>1, <2>2, <2>3, RemovalOK DEF Prune
  <2>4. CASE sessions[e.can] = None
    <3> USE DEF TypeOK, VariablesOK
    <3>1. sessions' = sessions
      BY <2>1, <2>2, <2>4 DEF Prune
    <3>2. sess' = Collect(sess)
      BY <2>1, <2>4, NoneIsNoArc DEF Prune, Collect
    <3>3. BufferedUntilEstablished'
      BY <3>2, NewSessions DEF BufferedUntilEstablished, Collect
    <3>4. Quiet
      BY <2>1, <2>4, <3>1, <3>2 DEF Prune, Quiet, Keeps, Cancelled, Collect
    <3> QED
      BY <1>0, <3>3, <3>4, QuietOK
  <2> QED
    BY <2>3, <2>4
<1> QED
  BY <1>1, <1>2, <1>3 DEF UpdateNext

LEMMA OwnerOK == ASSUME IInv, OwnerNext PROVE IInv'
<1> USE DEF IInv
<1>0. TypeOK'
  BY OwnerTypeOK
<1>1. CASE Shutdown \/ ShutdownList \/ ShutdownJoin \/ CancelShutdown \/ Drop
  BY <1>0, <1>1, QuietOK
  DEF Shutdown, ShutdownList, ShutdownJoin, CancelShutdown, Drop, Quiet, Keeps,
      BufferedUntilEstablished, Cancelled, TypeOK, VariablesOK, OwnerState
<1>2. ASSUME NEW a \in owner.peers, ShutdownClose(a) PROVE IInv'
  <2> USE DEF TypeOK, VariablesOK, LocalsOK, Mapped, Entry
  <2>1. a \in Arcs /\ Cancelled'
    BY <1>2 DEF ShutdownClose, OwnerState, Cancelled
  <2>2. \A b \in Arcs : b \in Held' =>
            sess'[b].peer_addr = sess[b].peer_addr /\ sess'[b].state = sess[b].state
            /\ (sess[b].closed => sess'[b].closed)
    BY <1>2, <2>1 DEF ShutdownClose, Collect, MarkClosed, Session
  <2>3. UNCHANGED <<sessions, rx, last_event>>
    BY <1>2 DEF ShutdownClose
  <2>4. NoSharedEntry'
    <3>1. rx.pc = "remove" => sess'[rx.arc].peer_addr = sess[rx.arc].peer_addr
      BY <2>2, <2>3, NoneIsNoArc, ReachableIsHeldNext
    <3> QED
      BY <2>2, <2>3, <3>1, ReachableIsHeldNext DEF NoSharedEntry
  <2>5. ClosedOnlyWhileReplaced'
    BY <2>1 DEF ClosedOnlyWhileReplaced
  <2>6. EventsMatchMap'
    <3>1. \A p \in Peers : sessions[p] # None =>
             /\ sess'[sessions[p]].state = sess[sessions[p]].state
             /\ sess[sessions[p]].closed => sess'[sessions[p]].closed
      BY <2>2, <2>3, ReachableIsHeldNext
    <3> QED
      BY <2>3, <3>1 DEF EventsMatchMap
  <2>7. BufferedUntilEstablished'
    BY <1>2, <2>1, NewSessions, MarkClosedSession
    DEF BufferedUntilEstablished, ShutdownClose, Collect
  <2> QED
    BY <1>0, <2>4, <2>5, <2>6, <2>7
<1> QED
  BY <1>1, <1>2 DEF OwnerNext

(* A handshake completes on the mapped session: SYN_ACK or tie-break. *)
LEMMA EstablishedOK ==
  ASSUME IInv, TypeOK', NEW s, NEW p \in Peers, sessions[p] # None,
         rx.pc \in {"Syn", "SynAck"}, rx'.pc = "recv",
         UNCHANGED <<sessions, owner>>,
         last_event' = [last_event EXCEPT ![p] = "Connected"],
         sess' = [sess EXCEPT ![sessions[p]] = s],
         s.peer_addr = Entry(p).peer_addr, s.state = "Established", s.closed = Entry(p).closed,
         Buffered(s)
  PROVE  IInv'
<1> USE DEF IInv, TypeOK, VariablesOK, LocalsOK, Mapped, Entry
<1>1. sessions[p] \in Arcs /\ sess'[sessions[p]] = s
  OBVIOUS
<1>2. \A q \in Peers : (q # p /\ sessions[q] # None) =>
          sessions[q] # sessions[p] /\ sess'[sessions[q]] = sess[sessions[q]]
  BY <1>1 DEF NoSharedEntry
<1>3. NoSharedEntry'
  BY <1>1, <1>2 DEF NoSharedEntry
<1>4. ClosedOnlyWhileReplaced'
  BY <1>1, <1>2 DEF ClosedOnlyWhileReplaced, Cancelled
<1>5. EventsMatchMap'
  BY <1>1, <1>2 DEF EventsMatchMap
<1>6. BufferedUntilEstablished'
  BY <1>1 DEF BufferedUntilEstablished
<1> QED
  BY <1>3, <1>4, <1>5, <1>6

LEMMA RxOK == ASSUME IInv, RxNext PROVE IInv'
<1> USE DEF IInv
<1>0. TypeOK' /\ NoPacket.pc = "recv" /\ sess \in [Arcs -> Session]
  BY RxTypeOK DEF NoPacket, TypeOK, VariablesOK
<1>1. ASSUME UNCHANGED <<sessions, sess, owner, last_event>>,
             rx.pc \notin {"create", "close"}, rx'.pc \notin {"remove", "close"}
      PROVE  IInv'
  BY <1>0, <1>1, QuietOK DEF Quiet, Keeps, BufferedUntilEstablished, Cancelled
<1>2. ASSUME UNCHANGED <<sessions, owner, last_event>>, sess' = Collect(sess),
             rx.pc \notin {"create", "close"}, rx'.pc \notin {"remove", "close"}
      PROVE  IInv'
  BY <1>0, <1>2, QuietOK, NewSessions
  DEF Quiet, Keeps, BufferedUntilEstablished, Cancelled, Collect
<1>3. ASSUME NEW typ \in PacketType, NEW p \in Peers, NEW conv \in Conv, RecvFrom(typ, p, conv)
      PROVE  IInv'
  BY <1>1, <1>3 DEF RecvFrom, PacketType
<1>4. CASE RxKcpData \/ RxSynUnknown \/ RxSynSame \/ RxSynAckIgnored \/ RecvStop
  <2>1. rx \in RxState
    BY DEF TypeOK, VariablesOK
  <2> QED
    BY <1>0, <1>1, <1>4, <2>1
    DEF RxKcpData, RxSynUnknown, RxSynSame, RxSynAckIgnored, RecvStop, RxState
<1>5. CASE RxInputRefused \/ RxNotify
  BY <1>0, <1>2, <1>5 DEF RxInputRefused, RxNotify
<1>6. ASSUME NEW n \in 0..RcvWnd, RxInput(n) PROVE IInv'
  <2>1. rx.arc \in Arcs /\ sess[rx.arc] \in Session /\ rx \in RxState
    BY <1>6 DEF RxInput, TypeOK, VariablesOK, LocalsOK
  <2>2. PICK k \in KcpInput(sess[rx.arc].kcp) :
            sess' = Collect([sess EXCEPT ![rx.arc].kcp = k])
    BY <1>6 DEF RxInput
  <2> DEFINE t == [sess[rx.arc] EXCEPT !.kcp = k]
  <2>3. Keeps(sess[rx.arc], t) /\ (Buffered(sess[rx.arc]) => Buffered(t))
    BY <2>1, <2>2, KcpInputSession
  <2>4. sess' = Collect([sess EXCEPT ![rx.arc] = t])
    BY <2>2
  <2> HIDE DEF t
  <2>5. BufferedUntilEstablished'
    BY <1>0, <2>1, <2>3, <2>4, NewSessions DEF BufferedUntilEstablished, Collect
  <2>6. rx'.pc \in {"recv", "notify"}
    BY <1>0, <1>6, <2>1 DEF RxInput, RxState
  <2>7. Quiet
    BY <1>0, <1>6, <2>1, <2>3, <2>4, <2>6 DEF RxInput, Quiet, Keeps, Cancelled, Collect
  <2> QED
    BY <1>0, <2>5, <2>7, QuietOK
<1>7. CASE RxSynSimultaneous
  <2>1. sessions[rx.from] \in Arcs /\ rx.from \in Peers /\ rx.conv \in Conv
        /\ sessions[rx.from] # None /\ Entry(rx.from) \in Session
    BY <1>7 DEF RxSynSimultaneous, TypeOK, VariablesOK, LocalsOK, Entry
  <2>2. PICK s \in Establish(Entry(rx.from),
                             TieBreak(Entry(rx.from), rx.conv, rx.from \in Higher)) :
            sess' = [sess EXCEPT ![sessions[rx.from]] = s]
    BY <1>7 DEF RxSynSimultaneous
  <2>3. TieBreak(Entry(rx.from), rx.conv, rx.from \in Higher) \in Conv \cup {None}
    BY <2>1 DEF TieBreak, Session
  <2>4. s.peer_addr = Entry(rx.from).peer_addr /\ s.state = "Established"
        /\ s.closed = Entry(rx.from).closed /\ Buffered(s)
    BY <2>1, <2>2, <2>3, EstablishSession
  <2> QED
    BY <1>0, <1>7, <2>1, <2>2, <2>4, EstablishedOK DEF RxSynSimultaneous
<1>8. CASE RxSynAck
  <2>1. sessions[rx.from] \in Arcs /\ rx.from \in Peers /\ rx.conv \in Conv
        /\ sessions[rx.from] # None /\ Entry(rx.from) \in Session
    BY <1>8 DEF RxSynAck, Answers, TypeOK, VariablesOK, LocalsOK, Entry
  <2>2. PICK s \in Establish(Entry(rx.from), rx.conv) :
            sess' = [sess EXCEPT ![sessions[rx.from]] = s]
    BY <1>8 DEF RxSynAck
  <2>3. s.peer_addr = Entry(rx.from).peer_addr /\ s.state = "Established"
        /\ s.closed = Entry(rx.from).closed /\ Buffered(s)
    BY <2>1, <2>2, EstablishSession
  <2> QED
    BY <1>0, <1>8, <2>1, <2>2, <2>3, EstablishedOK DEF RxSynAck
<1>9. CASE RxSynRestart
  <2> USE DEF TypeOK, VariablesOK, LocalsOK, Mapped, Entry
  <2> DEFINE p == rx.from
  <2>1. p \in Peers /\ sessions[p] \in Arcs /\ sessions[p] # None
    BY <1>9 DEF RxSynRestart
  <2>2. sess'[sessions[p]] = MarkClosed(sess[sessions[p]])
    BY <1>9, <2>1 DEF RxSynRestart
  <2>3. \A q \in Peers : (q # p /\ sessions[q] # None) =>
            sessions[q] # sessions[p] /\ sess'[sessions[q]] = sess[sessions[q]]
    BY <1>9, <2>1 DEF NoSharedEntry, RxSynRestart
  <2>4. /\ rx'.pc = "create" /\ rx'.from = p
        /\ rx.pc \notin {"create", "remove", "close"}
        /\ UNCHANGED <<sessions, owner>>
        /\ last_event' = [last_event EXCEPT ![p] = "PeerRestarted"]
    BY <1>9 DEF RxSynRestart, RxState
  <2>5. /\ sess'[sessions[p]].peer_addr = sess[sessions[p]].peer_addr
        /\ sess'[sessions[p]].closed
    BY <2>1, <2>2 DEF MarkClosed, Session
  <2> HIDE DEF p
  <2>6. NoSharedEntry'
    BY <2>1, <2>3, <2>4, <2>5 DEF NoSharedEntry
  <2>7. ClosedOnlyWhileReplaced'
    BY <2>1, <2>3, <2>4 DEF ClosedOnlyWhileReplaced, Cancelled
  <2>8. EventsMatchMap'
    BY <2>1, <2>3, <2>4, <2>5 DEF EventsMatchMap
  <2>9. BufferedUntilEstablished'
    BY <1>9, <2>1, <2>2, MarkClosedSession DEF BufferedUntilEstablished, RxSynRestart
  <2> QED
    BY <1>0, <2>6, <2>7, <2>8, <2>9
<1>10. CASE RxCreate
  <2> USE DEF TypeOK, VariablesOK, LocalsOK, Mapped, Entry
  <2> DEFINE p == rx.from
             new == NewInbound(rx.conv, p)
  <2>1. p \in Peers /\ rx.conv \in Conv
        /\ FreshArc \in Arcs /\ FreshArc # None /\ FreshArc \notin Held
    BY <1>10, FreshArcIsFree DEF RxCreate
  <2>2. new.peer_addr = p /\ new.state = "Established" /\ ~new.closed /\ Buffered(new)
    BY <2>1, NewSessions DEF NewInbound
  <2>3. /\ sessions' = [sessions EXCEPT ![p] = FreshArc]
        /\ sess' = Collect([sess EXCEPT ![FreshArc] = new])
        /\ last_event' = [last_event EXCEPT ![p] = "Connected"]
        /\ rx.pc = "create" /\ rx'.pc = "recv" /\ owner' = owner
    BY <1>0, <1>10 DEF RxCreate
  <2> HIDE DEF p, new
  <2>4. sessions'[p] = FreshArc /\ sess'[FreshArc] = new
    BY <2>1, <2>3, ReachableIsHeldNext DEF Collect
  <2>5. \A q \in Peers : (q # p /\ sessions[q] # None) =>
            sessions'[q] = sessions[q] /\ sess'[sessions[q]] = sess[sessions[q]]
    BY <2>1, <2>3, ReachableIsHeld, ReachableIsHeldNext DEF Collect
  <2>6. \A q \in Peers : (q # p /\ sessions[q] = None) => sessions'[q] = None
    BY <2>1, <2>3
  <2>7. NoSharedEntry'
    <3>1. ASSUME NEW q \in Peers, sessions'[q] # None PROVE sess'[sessions'[q]].peer_addr = q
      <4>1. CASE q = p
        BY <2>2, <2>4, <4>1
      <4>2. CASE q # p
        <5>1. sessions[q] # None /\ sess[sessions[q]].peer_addr = q
          BY <2>6, <3>1, <4>2 DEF NoSharedEntry
        <5> QED
          BY <2>5, <4>2, <5>1
      <4> QED
        BY <4>1, <4>2
    <3> QED
      BY <2>3, <3>1 DEF NoSharedEntry
  <2>8. ClosedOnlyWhileReplaced'
    BY <2>1, <2>2, <2>3, <2>4, <2>5, <2>6 DEF ClosedOnlyWhileReplaced, Cancelled, p
  <2>9. EventsMatchMap'
    <3>1. last_event'[p] = "Connected" /\ \A q \in Peers : q # p => last_event'[q] = last_event[q]
      BY <2>1, <2>3
    <3>2. \A q \in Peers : q # p =>
             /\ (sessions[q] # None /\ sess[sessions[q]].state = "Established"
                    /\ ~sess[sessions[q]].closed) => last_event[q] = "Connected"
             /\ last_event[q] = "Connected" =>
                    sessions[q] # None /\ sess[sessions[q]].state = "Established"
      BY <2>3 DEF EventsMatchMap, p
    <3> QED
      BY <2>1, <2>2, <2>4, <2>5, <2>6, <3>1, <3>2 DEF EventsMatchMap
  <2>10. BufferedUntilEstablished'
    BY <2>1, <2>2, <2>3, NewSessions DEF BufferedUntilEstablished, Collect
  <2> QED
    BY <1>0, <2>7, <2>8, <2>9, <2>10
<1>11. CASE RxReset
  <2>1. CASE rx' = NoPacket
    BY <1>0, <1>1, <1>11, <2>1 DEF RxReset
  <2>2. CASE rx' # NoPacket
    <3> USE DEF TypeOK, VariablesOK, LocalsOK, Mapped, Entry
    <3>1. /\ rx.from \in Peers /\ sessions[rx.from] # None
          /\ rx' = [rx EXCEPT !.pc = "remove", !.arc = sessions[rx.from]]
          /\ UNCHANGED <<sessions, sess, owner, last_event>>
          /\ rx.pc = "Reset"
      BY <1>11, <2>2 DEF RxReset
    <3>2. rx'.pc = "remove" /\ rx'.arc = sessions[rx.from] /\ rx'.from = rx.from
      BY <3>1 DEF RxState
    <3>3. NoSharedEntry'
      BY <3>1, <3>2 DEF NoSharedEntry
    <3>4. ClosedOnlyWhileReplaced' /\ EventsMatchMap' /\ BufferedUntilEstablished'
      BY <3>1 DEF ClosedOnlyWhileReplaced, EventsMatchMap, BufferedUntilEstablished, Cancelled
    <3> QED
      BY <1>0, <3>3, <3>4
  <2> QED
    BY <2>1, <2>2
<1>12. CASE RxRemove
  <2> USE DEF TypeOK, VariablesOK, LocalsOK, Mapped, Entry
  <2> DEFINE p == rx.from
  <2>1. p \in Peers /\ rx.arc \in Arcs /\ sess[rx.arc].peer_addr = p
    BY <1>12 DEF RxRemove, NoSharedEntry
  <2>2. /\ sessions' = [sessions EXCEPT ![p] = None]
        /\ UNCHANGED <<owner, last_event>> /\ sess' = Collect(sess)
        /\ rx.pc = "remove" /\ rx'.pc = "close" /\ rx'.from = p /\ rx'.arc = rx.arc
    BY <1>12 DEF RxRemove, RxState
  <2> HIDE DEF p
  <2>3. \A q \in Peers : sessions'[q] # None =>
            /\ q # p /\ sessions'[q] = sessions[q] /\ sessions[q] \in Arcs
            /\ sess'[sessions[q]] = sess[sessions[q]]
    BY <2>1, <2>2, ReachableIsHeldNext DEF Collect
  <2>4. \A q \in Peers : (q # p /\ sessions[q] # None) => sessions'[q] = sessions[q]
    BY <2>1, <2>2
  <2>5. \A q \in Peers : sessions'[q] # rx.arc
    BY <2>1, <2>3, NoneIsNoArc DEF NoSharedEntry
  <2>6. sessions'[p] = None
    BY <2>1, <2>2
  <2>7. NoSharedEntry'
    BY <2>2, <2>3, <2>5, <2>6 DEF NoSharedEntry
  <2>8. ClosedOnlyWhileReplaced'
    BY <2>2, <2>3 DEF ClosedOnlyWhileReplaced, Cancelled
  <2>9. EventsMatchMap'
    BY <2>2, <2>3, <2>4 DEF EventsMatchMap
  <2>10. BufferedUntilEstablished'
    BY <2>2, NewSessions DEF BufferedUntilEstablished, Collect
  <2> QED
    BY <1>0, <2>7, <2>8, <2>9, <2>10
<1>13. CASE RxClose
  <2> USE DEF TypeOK, VariablesOK, LocalsOK, Mapped, Entry
  <2> DEFINE p == rx.from
  <2>1. p \in Peers /\ rx.arc \in Arcs /\ (\A q \in Peers : sessions[q] # rx.arc)
        /\ (sessions[p] # None => sess[sessions[p]].state = "SynSent")
    BY <1>13 DEF RxClose, NoSharedEntry
  <2>2. /\ UNCHANGED <<sessions, owner>>
        /\ last_event' = [last_event EXCEPT ![p] = "Disconnected"]
        /\ rx.pc = "close" /\ rx'.pc = "recv"
        /\ sess' = Collect([sess EXCEPT ![rx.arc] = MarkClosed(@)])
    BY <1>0, <1>13 DEF RxClose
  <2>3. \A q \in Peers : sessions[q] # None => sess'[sessions[q]] = sess[sessions[q]]
    BY <2>1, <2>2, ReachableIsHeldNext DEF Collect
  <2>4. NoSharedEntry'
    BY <2>2, <2>3 DEF NoSharedEntry
  <2>5. ClosedOnlyWhileReplaced'
    BY <2>2, <2>3 DEF ClosedOnlyWhileReplaced, Cancelled
  <2>6. EventsMatchMap'
    <3>1. last_event'[p] = "Disconnected"
          /\ \A q \in Peers : q # p => last_event'[q] = last_event[q]
      BY <2>1, <2>2
    <3>2. \A q \in Peers : q # p =>
             /\ (sessions[q] # None /\ sess[sessions[q]].state = "Established"
                    /\ ~sess[sessions[q]].closed) => last_event[q] = "Connected"
             /\ last_event[q] = "Connected" =>
                    sessions[q] # None /\ sess[sessions[q]].state = "Established"
      BY DEF EventsMatchMap
    <3> HIDE DEF p
    <3>3. ASSUME NEW q \in Peers, q \in Mapped', Entry(q)'.state = "Established", ~Entry(q)'.closed
          PROVE  last_event'[q] = "Connected"
      <4>1. /\ sessions[q] # None /\ sess[sessions[q]].state = "Established"
            /\ ~sess[sessions[q]].closed
        BY <2>2, <2>3, <3>3
      <4>2. q # p
        BY <2>1, <4>1
      <4> QED
        BY <3>1, <3>2, <4>1, <4>2
    <3>4. ASSUME NEW q \in Peers, last_event'[q] = "Connected"
          PROVE  q \in Mapped' /\ Entry(q)'.state = "Established"
      <4>1. q # p
        BY <3>1, <3>4
      <4>2. sessions[q] # None /\ sess[sessions[q]].state = "Established"
        BY <3>1, <3>2, <3>4, <4>1
      <4> QED
        BY <2>2, <2>3, <4>2
    <3> QED
      BY <3>3, <3>4 DEF EventsMatchMap
  <2>7. BufferedUntilEstablished'
    BY <2>1, <2>2, NewSessions, MarkClosedSession DEF BufferedUntilEstablished, Collect
  <2> QED
    BY <1>0, <2>4, <2>5, <2>6, <2>7
<1> QED
  BY <1>3, <1>4, <1>5, <1>6, <1>7, <1>8, <1>9, <1>10, <1>11, <1>12, <1>13 DEF RxNext, HandlerStep

LEMMA InvariantStep == IInv /\ [Next]_vars => IInv'
<1> SUFFICES ASSUME IInv, [Next]_vars PROVE IInv'
  OBVIOUS
<1>1. ASSUME UNCHANGED mapVars PROVE IInv'
  BY <1>1 DEF IInv, TypeOK, VariablesOK, LocalsOK, NoSharedEntry, ClosedOnlyWhileReplaced,
              EventsMatchMap, BufferedUntilEstablished, Mapped, Entry, Cancelled, mapVars
<1>2. ASSUME NEW r \in Receivers, ReceiverNext(r) PROVE IInv'
  BY <1>1, <1>2 DEF ReceiverNext
<1>3. CASE Terminated \/ UNCHANGED vars
  BY <1>1, <1>3 DEF Terminated, vars
<1> QED
  BY <1>2, <1>3, CallerOK, DisconnectOK, RxOK, UpdateOK, OwnerOK DEF Next

(* No two parties ever work on an entry that one of them believes gone:    *)
(* a closed session in the map of a live peer is being replaced, so that   *)
(* no send() is swallowed for ever.                                        *)
THEOREM NoBlackHole == Spec => []ClosedOnlyWhileReplaced
<1>1. IInv => ClosedOnlyWhileReplaced
  BY DEF IInv
<1> QED
  BY <1>1, InitOK, InvariantStep, PTL DEF Spec

(* The latest event about a peer agrees with its entry of the map. *)
THEOREM EventsAgree == Spec => []EventsMatchMap
<1>1. IInv => EventsMatchMap
  BY DEF IInv
<1> QED
  BY <1>1, InitOK, InvariantStep, PTL DEF Spec

(* No session is entered twice, and the one a RESET handler closes has     *)
(* left the map.                                                           *)
THEOREM EntriesAreDisjoint == Spec => []NoSharedEntry
<1>1. IInv => NoSharedEntry
  BY DEF IInv
<1> QED
  BY <1>1, InitOK, InvariantStep, PTL DEF Spec

(* Data queued during a handshake stays off the wire until it completes. *)
THEOREM HandshakeBuffers == Spec => []BufferedUntilEstablished
<1>1. IInv => BufferedUntilEstablished
  BY DEF IInv
<1> QED
  BY <1>1, InitOK, InvariantStep, PTL DEF Spec

-----------------------------------------------------------------------------
(* The data queue inside the peer: what DataQueueProofs proves of the      *)
(* queue with a receive task that may push and notify at any time holds    *)
(* with the receive task of KcpPeer.                                       *)

QP == INSTANCE DataQueueProofs

(* The two instances of the queue are one. *)
LEMMA SameQueue == [DQ!QueueNext]_queueVars => [QP!QueueNext]_(QP!queueVars)
<1>1. \A p, n : DQ!Push(p, n) => QP!Push(p, n)
  BY DEF DQ!Push, QP!Push
<1>2. DQ!NotifyOne => QP!NotifyOne
  BY DEF DQ!NotifyOne, QP!NotifyOne, DQ!NotifyWith, QP!NotifyWith
<1>3. \A r : DQ!RecvCall(r) => QP!RecvCall(r)
  BY DEF DQ!RecvCall, QP!RecvCall
<1>4. \A r : DQ!RecvPop(r) => QP!RecvPop(r)
  BY DEF DQ!RecvPop, QP!RecvPop
<1>5. \A r : DQ!RecvPoll(r) => QP!RecvPoll(r)
  BY DEF DQ!RecvPoll, QP!RecvPoll
<1>6. \A r : DQ!RecvWake(r) => QP!RecvWake(r)
  BY DEF DQ!RecvWake, QP!RecvWake
<1>7. \A r : DQ!RecvCancel(r) => QP!RecvCancel(r)
  BY DEF DQ!RecvCancel, QP!RecvCancel, DQ!NotifyWith, QP!NotifyWith, DQ!RemoveAt, QP!RemoveAt
<1>8. UNCHANGED queueVars => UNCHANGED QP!queueVars
  BY DEF queueVars, QP!queueVars
<1> QED
  BY <1>1, <1>2, <1>3, <1>4, <1>5, <1>6, <1>7, <1>8
  DEF DQ!QueueNext, QP!QueueNext, DQ!RecvStep, QP!RecvStep

-----------------------------------------------------------------------------
(* The notification is due exactly while the receive task stands before it. *)
NotifyIsDue == notify_due <=> rx.pc = "notify"

LEMMA RxKeepsQueue ==
  ASSUME TypeOK, NotifyIsDue, RxNext
  PROVE  [DQ!QueueNext]_queueVars /\ NotifyIsDue'
<1> USE DEF NotifyIsDue, queueVars
<1>1. ASSUME NEW n \in 0..RcvWnd, RxInput(n) PROVE [DQ!QueueNext]_queueVars /\ NotifyIsDue'
  <2>1. CASE n = 0
    BY <1>1, <2>1 DEF RxInput, NoPacket
  <2>2. CASE n # 0
    <3>1. rx \in RxState /\ rx.from \in Peers /\ n \in 1..RcvWnd
      BY <1>1, <2>2 DEF RxInput, TypeOK, VariablesOK, LocalsOK
    <3>2. DQ!Push(rx.from, n) /\ rx' = [rx EXCEPT !.pc = "notify"]
      BY <1>1, <2>2 DEF RxInput
    <3>3. notify_due' = TRUE /\ rx'.pc = "notify"
      BY <3>1, <3>2 DEF DQ!Push, RxState
    <3> QED
      BY <3>1, <3>2, <3>3 DEF DQ!QueueNext
  <2> QED
    BY <2>1, <2>2
<1>2. CASE RxNotify
  BY <1>2 DEF RxNotify, DQ!NotifyOne, DQ!QueueNext, NoPacket
<1>3. ASSUME UNCHANGED queueVars, rx.pc # "notify", rx'.pc # "notify"
      PROVE  [DQ!QueueNext]_queueVars /\ NotifyIsDue'
  BY <1>3
<1>4. rx \in RxState
  BY DEF TypeOK, VariablesOK
<1>5. ASSUME NEW typ \in PacketType, NEW p \in Peers, NEW conv \in Conv, RecvFrom(typ, p, conv)
      PROVE  UNCHANGED queueVars /\ rx.pc # "notify" /\ rx'.pc # "notify"
  BY <1>5 DEF RecvFrom, PacketType
<1>6. ASSUME \/ RxKcpData \/ RxInputRefused \/ RxSynUnknown \/ RxSynSame \/ RxSynSimultaneous
             \/ RxSynRestart \/ RxSynAck \/ RxSynAckIgnored \/ RxReset \/ RxClose
             \/ RxCreate \/ RxRemove \/ RecvStop
      PROVE  UNCHANGED queueVars /\ rx.pc # "notify" /\ rx'.pc # "notify"
  <2>1. CASE RxKcpData
    BY <1>4, <2>1 DEF RxKcpData, NoPacket, RxState
  <2>2. CASE RxInputRefused
    BY <1>4, <2>2 DEF RxInputRefused, NoPacket, RxState
  <2>3. CASE RxSynUnknown
    BY <1>4, <2>3 DEF RxSynUnknown, NoPacket, RxState
  <2>4. CASE RxSynSame
    BY <1>4, <2>4 DEF RxSynSame, NoPacket, RxState
  <2>5. CASE RxSynSimultaneous
    BY <1>4, <2>5 DEF RxSynSimultaneous, NoPacket, RxState
  <2>6. CASE RxSynRestart
    BY <1>4, <2>6 DEF RxSynRestart, NoPacket, RxState
  <2>7. CASE RxSynAck
    BY <1>4, <2>7 DEF RxSynAck, NoPacket, RxState
  <2>8. CASE RxSynAckIgnored
    BY <1>4, <2>8 DEF RxSynAckIgnored, NoPacket, RxState
  <2>9. CASE RxReset
    BY <1>4, <2>9 DEF RxReset, NoPacket, RxState
  <2>10. CASE RxClose
    BY <1>4, <2>10 DEF RxClose, NoPacket, RxState
  <2>11. CASE RxCreate
    BY <1>4, <2>11 DEF RxCreate, NoPacket, RxState
  <2>12. CASE RxRemove
    BY <1>4, <2>12 DEF RxRemove, NoPacket, RxState
  <2>13. CASE RecvStop
    BY <1>4, <2>13 DEF RecvStop, NoPacket, RxState
  <2> QED
    BY <1>6, <2>1, <2>2, <2>3, <2>4, <2>5, <2>6, <2>7, <2>8, <2>9, <2>10, <2>11, <2>12, <2>13
<1> QED
  BY <1>1, <1>2, <1>3, <1>5, <1>6 DEF RxNext, HandlerStep

(* Every step of the peer is a step of the queue or leaves it alone. *)
LEMMA PeerKeepsQueue ==
  ASSUME TypeOK, NotifyIsDue, [Next]_vars
  PROVE  [DQ!QueueNext]_queueVars /\ NotifyIsDue'
<1>1. ASSUME UNCHANGED <<queueVars, rx>> PROVE [DQ!QueueNext]_queueVars /\ NotifyIsDue'
  BY <1>1 DEF NotifyIsDue, queueVars
<1>2. ASSUME NEW c \in Callers, CallerNext(c) PROVE UNCHANGED <<queueVars, rx>>
  BY <1>2 DEF CallerNext, SendStep, Send, InitiateFastCheck, InitiateFound, InitiateInsert,
              SendSyn, SendRefused, SendAdmitted, QueueData, CancelSend
<1>3. ASSUME NEW p \in Peers, Disconnect(p) PROVE UNCHANGED <<queueVars, rx>>
  BY <1>3 DEF Disconnect
<1>4. ASSUME NEW r \in Receivers, ReceiverNext(r)
      PROVE  [DQ!QueueNext]_queueVars /\ NotifyIsDue'
  <2>1. UNCHANGED <<rx, notify_due>>
    BY <1>4 DEF ReceiverNext, mapVars, DQ!RecvCall, DQ!RecvStep, DQ!RecvPop, DQ!RecvPoll,
                DQ!RecvWake, DQ!RecvCancel
  <2> QED
    BY <1>4, <2>1 DEF ReceiverNext, DQ!QueueNext, NotifyIsDue
<1>5. CASE UpdateNext
  <2>1. UNCHANGED <<queueVars, rx>>
    BY <1>5 DEF UpdateNext, Tick, ScanStart, VisitNext, VisitClosed, VisitEstablished,
                VisitExhausted, VisitRetry, VisitWait, Visit, PruneNext, Prune, UpdateStop
  <2> QED
    BY <1>1, <2>1
<1>6. CASE OwnerNext
  <2>1. UNCHANGED <<queueVars, rx>>
    BY <1>6 DEF OwnerNext, Shutdown, ShutdownList, ShutdownClose, ShutdownJoin, CancelShutdown, Drop
  <2> QED
    BY <1>1, <2>1
<1>7. CASE Terminated \/ UNCHANGED vars
  <2>1. UNCHANGED <<queueVars, rx>>
    BY <1>7 DEF Terminated, vars, mapVars
  <2> QED
    BY <1>1, <2>1
<1> QED
  BY <1>1, <1>2, <1>3, <1>4, <1>5, <1>6, <1>7, RxKeepsQueue DEF Next

-----------------------------------------------------------------------------

(* The queue's invariant, in the peer. *)
QueueInv == QP!QueueTypeOK /\ QP!SoleReceiverMissesNothing /\ NotifyIsDue

LEMMA QueueInvInit == Init => QueueInv
<1> SUFFICES ASSUME Init PROVE QueueInv
  OBVIOUS
<1>1. QP!QueueInit
  BY DEF Init, DQ!QueueInit, QP!QueueInit
<1>2. QP!SoleReceiverMissesNothing
  BY <1>1 DEF QP!QueueInit, QP!SoleReceiverMissesNothing
<1>3. NotifyIsDue
  BY <1>1 DEF Init, QP!QueueInit, NotifyIsDue, NoPacket
<1> QED
  BY <1>1, <1>2, <1>3, QueueBounds, QP!QueueTypeInit DEF QueueInv

LEMMA QueueInvStep == TypeOK /\ QueueInv /\ [Next]_vars => QueueInv'
  BY SameQueue, PeerKeepsQueue, QueueBounds, QP!QueueTypeStep, QP!SoleReceiverStep DEF QueueInv

(* transport.rs:630-646, 343-361: the peer as a whole, with its callers,   *)
(* timers and owner, uses the queue as DataQueue says, so a sole recv() is *)
(* never asleep beside data, also when the session the data came from is   *)
(* removed, replaced or closed between the drain and the notification.     *)
THEOREM PeerWakesReceiver == Spec => []SoleReceiverIsAwake
<1>1. QueueInv => SoleReceiverIsAwake
  BY DEF QueueInv, QP!SoleReceiverMissesNothing, NotifyIsDue, SoleReceiverIsAwake
<1> QED
  BY <1>1, QueueInvInit, QueueInvStep, TypeCorrect, PTL DEF Spec

=============================================================================
