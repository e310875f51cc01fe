------------------------------- MODULE KcpPeer -------------------------------
(***************************************************************************)
(* One KcpPeer (src/transport.rs): the session map and the four parties    *)
(* that share it: the receive task, the update task, the tasks that call   *)
(* send() and disconnect(), and the owner that shuts the peer down.        *)
(*                                                                         *)
(* A step is what one party does under one hold of a lock, or between two  *)
(* awaits.  The update task holds the map's read lock over a whole scan,   *)
(* so a writer of the map waits while up.pc = "scan".  Every step that     *)
(* ends a hold of an Arc<Session> frees the session when it was the last.  *)
(* The network is the environment: any packet, well formed, may arrive     *)
(* from any peer at any time, which includes lost, duplicated and late     *)
(* ones.  What this peer sends is not kept.                                *)
(***************************************************************************)
EXTENDS Session, Sequences

CONSTANTS
    Arcs,       \* session allocations: the bound on those alive at once
    Callers,    \* tasks that call send()
    Higher,     \* peers whose address is greater than the local one
    Receivers, RcvWnd, MaxPending   \* of the data queue

ASSUME NoneIsNoArc == None \notin Arcs
ASSUME HigherArePeers == Higher \subseteq Peers
ASSUME QueueBounds == RcvWnd \in Nat \ {0} /\ MaxPending \in Nat

VARIABLES
    sessions,    \* the map: canonical address -> Arc<Session>
    sess,        \* what each Arc points to
    rx,          \* the receive task: its place in handle_incoming and its locals
    up,          \* the update task: its place in the loop and its locals
    call,        \* each caller: its place in send() and its locals
    owner,       \* who may call shutdown() or drop the peer
    last_event,  \* the latest Event sent about each peer
    pending_data, notify_due, permit, waiters, recv   \* of the data queue

mapVars == <<sessions, sess, rx, up, call, owner, last_event>>
queueVars == <<pending_data, notify_due, permit, waiters, recv>>
vars == <<mapVars, queueVars>>

DQ == INSTANCE DataQueue

-----------------------------------------------------------------------------
(* Memory. *)

(* The Arcs somebody holds.  A session that a scan condemned is kept among *)
(* them until it is pruned only so that a new one is never mistaken for    *)
(* it: the code's list holds the address alone.                            *)
Held ==
    ({sessions[p] : p \in Peers} \cup {rx.arc} \cup {call[c].arc : c \in Callers}
        \cup owner.peers \cup {e.judged : e \in up.to_remove}) \ {None}

FreeArcs == Arcs \ Held

FreshArc == CHOOSE a \in FreeArcs : TRUE

(* Whatever lost its last holder in this step is freed. *)
Collect(new) == [a \in Arcs |-> IF a \in Held' THEN new[a] ELSE Freed]

Entry(p) == sess[sessions[p]]

(* The token is cancelled when the owner gives the peer up, not before. *)
Cancelled == owner.pc # "live"

MapUnlocked == up.pc # "scan"

IdleCall == [pc |-> "idle", peer |-> None, arc |-> None]
NoPacket == [pc |-> "recv", from |-> None, conv |-> None, arc |-> None]

-----------------------------------------------------------------------------
(* send(), on behalf of caller c. *)

(* The lookup under the read lock. *)
Send(c, p) ==
    /\ ~Cancelled
    /\ call[c].pc = "idle"
    /\ call' = [call EXCEPT ![c] =
                  [pc |-> IF sessions[p] = None THEN "initiate" ELSE "send",
                   peer |-> p, arc |-> sessions[p]]]
    /\ UNCHANGED <<sessions, sess, rx, up, owner, last_event, queueVars>>

(* initiate_session: the fast check under the read lock. *)
InitiateFastCheck(c) ==
    /\ call[c].pc = "initiate"
    /\ LET found == sessions[call[c].peer]
       IN  call' = [call EXCEPT ![c] =
                      [@ EXCEPT !.pc = IF found = None THEN "insert" ELSE "send", !.arc = found]]
    /\ UNCHANGED <<sessions, sess, rx, up, owner, last_event, queueVars>>

(* initiate_session: the double check and the insertion, under the write   *)
(* lock, of a session with a random conversation.                          *)
InitiateFound(c) ==
    /\ call[c].pc = "insert"
    /\ MapUnlocked
    /\ sessions[call[c].peer] # None
    /\ call' = [call EXCEPT ![c] = [@ EXCEPT !.pc = "send", !.arc = sessions[call[c].peer]]]
    /\ UNCHANGED <<sessions, sess, rx, up, owner, last_event, queueVars>>

InitiateInsertBlindly(c, conv) ==
    /\ call[c].pc = "insert"
    /\ MapUnlocked
    /\ FreeArcs # {}
    /\ call' = [call EXCEPT ![c] = [@ EXCEPT !.pc = "syn", !.arc = FreshArc]]
    /\ sessions' = [sessions EXCEPT ![call[c].peer] = FreshArc]
    /\ UNCHANGED <<rx, up, owner, last_event, queueVars>>
    /\ sess' = Collect([sess EXCEPT ![FreshArc] = NewOutbound(conv, call[c].peer)])

InitiateInsert(c, conv) ==
    /\ call[c].pc = "insert"
    /\ MapUnlocked
    /\ sessions[call[c].peer] = None
    /\ FreeArcs # {}
    /\ call' = [call EXCEPT ![c] = [@ EXCEPT !.pc = "syn", !.arc = FreshArc]]
    /\ sessions' = [sessions EXCEPT ![call[c].peer] = FreshArc]
    /\ sess' = [sess EXCEPT ![FreshArc] = NewOutbound(conv, call[c].peer)]
    /\ UNCHANGED <<rx, up, owner, last_event, queueVars>>

(* The SYN is awaited, and only here can the future be dropped. *)
SendSyn(c) ==
    /\ call[c].pc = "syn"
    /\ call' = [call EXCEPT ![c].pc = "send"]
    /\ UNCHANGED <<sessions, sess, rx, up, owner, last_event, queueVars>>

CancelSend(c) ==
    /\ call[c].pc = "syn"
    /\ call' = [call EXCEPT ![c] = IdleCall]
    /\ UNCHANGED <<sessions, rx, up, owner, last_event, queueVars>>
    /\ sess' = Collect(sess)

(* send_data: the closed flag is read before the mutex is taken. *)
SendRefused(c) ==
    /\ call[c].pc = "send"
    /\ sess[call[c].arc].closed
    /\ call' = [call EXCEPT ![c] = IdleCall]
    /\ UNCHANGED <<sessions, rx, up, owner, last_event, queueVars>>
    /\ sess' = Collect(sess)

SendAdmitted(c) ==
    /\ call[c].pc = "send"
    /\ ~sess[call[c].arc].closed
    /\ call' = [call EXCEPT ![c].pc = "queue"]
    /\ UNCHANGED <<sessions, sess, rx, up, owner, last_event, queueVars>>

QueueData(c) ==
    /\ call[c].pc = "queue"
    /\ call' = [call EXCEPT ![c] = IdleCall]
    /\ UNCHANGED <<sessions, rx, up, owner, last_event, queueVars>>
    /\ \E s \in SendData(sess[call[c].arc]) :
          sess' = Collect([sess EXCEPT ![call[c].arc] = s])

DisconnectUnlocked(p) ==
    /\ ~Cancelled
    /\ sessions[p] # None
    /\ sessions' = [sessions EXCEPT ![p] = None]
    /\ last_event' = [last_event EXCEPT ![p] = "Disconnected"]
    /\ UNCHANGED <<rx, up, call, owner, queueVars>>
    /\ sess' = Collect([sess EXCEPT ![sessions[p]] = MarkClosed(@)])

(* disconnect(): the guard of the write lock lives to the end of the body. *)
Disconnect(p) ==
    /\ ~Cancelled
    /\ MapUnlocked
    /\ sessions[p] # None
    /\ sessions' = [sessions EXCEPT ![p] = None]
    /\ last_event' = [last_event EXCEPT ![p] = "Disconnected"]
    /\ UNCHANGED <<rx, up, call, owner, queueVars>>
    /\ sess' = Collect([sess EXCEPT ![sessions[p]] = MarkClosed(@)])

-----------------------------------------------------------------------------
(* The receive task: handle_incoming, one well-formed packet at a time.    *)

PacketType == {"KcpData", "Syn", "SynAck", "Reset"}

(* recv_from completes; the handler that follows ignores the token. *)
RecvFrom(typ, p, conv) ==
    /\ ~Cancelled
    /\ rx.pc = "recv"
    /\ rx' = [pc |-> typ, from |-> p, conv |-> conv, arc |-> None]
    /\ UNCHANGED <<sessions, sess, up, call, owner, last_event, queueVars>>

(* KcpData: the lookup.  Data for no session is answered with a RESET. *)
RxKcpData ==
    /\ rx.pc = "KcpData"
    /\ rx' = IF sessions[rx.from] = None THEN NoPacket
             ELSE [rx EXCEPT !.pc = "input", !.arc = sessions[rx.from]]
    /\ UNCHANGED <<sessions, sess, up, call, owner, last_event, queueVars>>

(* kcp.input refuses a segment of another conversation, or a broken one    *)
(* (what precedes the broken one may count: RxInput(0)).                   *)
RxInputRefused ==
    /\ rx.pc = "input"
    /\ rx' = NoPacket
    /\ UNCHANGED <<sessions, up, call, owner, last_event, queueVars>>
    /\ sess' = Collect(sess)

(* Or accepts it; the session is drained, n messages go to pending_data.   *)
RxInput(n) ==
    /\ rx.pc = "input"
    /\ sess[rx.arc].conv_id = rx.conv
    /\ IF n = 0 THEN rx' = NoPacket /\ UNCHANGED queueVars
                ELSE rx' = [rx EXCEPT !.pc = "notify"] /\ DQ!Push(rx.from, n)
    /\ UNCHANGED <<sessions, up, call, owner, last_event>>
    /\ \E k \in KcpInput(sess[rx.arc].kcp) :
          sess' = Collect([sess EXCEPT ![rx.arc].kcp = k])

RxNotifyIfMapped ==
    /\ rx.pc = "notify"
    /\ rx' = NoPacket
    /\ IF rx.arc = sessions[rx.from] THEN DQ!NotifyOne
                                     ELSE UNCHANGED queueVars
    /\ UNCHANGED <<sessions, up, call, owner, last_event>>
    /\ sess' = Collect(sess)

RxNotify ==
    /\ rx.pc = "notify"
    /\ rx' = NoPacket
    /\ DQ!NotifyOne
    /\ UNCHANGED <<sessions, up, call, owner, last_event>>
    /\ sess' = Collect(sess)

(* Syn: what to do is decided, and done to an existing session, under the  *)
(* read lock and the session mutex.                                        *)
RxSynUnknown ==
    /\ rx.pc = "Syn"
    /\ sessions[rx.from] = None
    /\ rx' = [rx EXCEPT !.pc = "create"]
    /\ UNCHANGED <<sessions, sess, up, call, owner, last_event, queueVars>>

(* A repeated SYN is ignored, or acknowledged again. *)
RxSynSame ==
    /\ rx.pc = "Syn"
    /\ sessions[rx.from] # None
    /\ Entry(rx.from).conv_id = rx.conv
    /\ rx' = NoPacket
    /\ UNCHANGED <<sessions, sess, up, call, owner, last_event, queueVars>>

(* A simultaneous handshake: the tie-break chooses the conversation. *)
RxSynSimultaneous ==
    /\ rx.pc = "Syn"
    /\ sessions[rx.from] # None
    /\ Entry(rx.from).conv_id # rx.conv
    /\ Entry(rx.from).state = "SynSent"
    /\ rx' = NoPacket
    /\ \E s \in Establish(Entry(rx.from),
                           TieBreak(Entry(rx.from), rx.conv, rx.from \in Higher)) :
          sess' = [sess EXCEPT ![sessions[rx.from]] = s]
    /\ last_event' = [last_event EXCEPT ![rx.from] = "Connected"]
    /\ UNCHANGED <<sessions, up, call, owner, queueVars>>

(* Another conversation than the established one: the peer has restarted. *)
RxSynRestartForgotten ==
    /\ rx.pc = "Syn"
    /\ sessions[rx.from] # None
    /\ Entry(rx.from).conv_id # rx.conv
    /\ Entry(rx.from).state = "Established"
    /\ rx' = NoPacket
    /\ sess' = [sess EXCEPT ![sessions[rx.from]] = MarkClosed(@)]
    /\ last_event' = [last_event EXCEPT ![rx.from] = "PeerRestarted"]
    /\ UNCHANGED <<sessions, up, call, owner, queueVars>>

RxSynRestart ==
    /\ rx.pc = "Syn"
    /\ sessions[rx.from] # None
    /\ Entry(rx.from).conv_id # rx.conv
    /\ Entry(rx.from).state = "Established"
    /\ rx' = [rx EXCEPT !.pc = "create"]
    /\ sess' = [sess EXCEPT ![sessions[rx.from]] = MarkClosed(@)]
    /\ last_event' = [last_event EXCEPT ![rx.from] = "PeerRestarted"]
    /\ UNCHANGED <<sessions, up, call, owner, queueVars>>

(* CreateNew: after the SYN_ACK is awaited the new session replaces        *)
(* whatever the map holds by then.                                         *)
RxCreate ==
    /\ rx.pc = "create"
    /\ MapUnlocked
    /\ FreeArcs # {}
    /\ rx' = NoPacket
    /\ sessions' = [sessions EXCEPT ![rx.from] = FreshArc]
    /\ last_event' = [last_event EXCEPT ![rx.from] = "Connected"]
    /\ UNCHANGED <<up, call, owner, queueVars>>
    /\ sess' = Collect([sess EXCEPT ![FreshArc] = NewInbound(rx.conv, rx.from)])

(* SynAck: only a handshake in progress with this conversation completes. *)
Answers(p, conv) ==
    sessions[p] # None /\ Entry(p).state = "SynSent" /\ Entry(p).conv_id = conv

RxSynAck ==
    /\ rx.pc = "SynAck"
    /\ Answers(rx.from, rx.conv)
    /\ rx' = NoPacket
    /\ \E s \in Establish(Entry(rx.from), rx.conv) :
          sess' = [sess EXCEPT ![sessions[rx.from]] = s]
    /\ last_event' = [last_event EXCEPT ![rx.from] = "Connected"]
    /\ UNCHANGED <<sessions, up, call, owner, queueVars>>

RxSynAckIgnored ==
    /\ rx.pc = "SynAck"
    /\ ~Answers(rx.from, rx.conv)
    /\ rx' = NoPacket
    /\ UNCHANGED <<sessions, sess, up, call, owner, last_event, queueVars>>

(* Reset: the conversation is compared under the mutex, the entry removed  *)
(* under the write lock, the session closed under neither.                 *)
RxReset ==
    /\ rx.pc = "Reset"
    /\ rx' = IF sessions[rx.from] # None /\ Entry(rx.from).conv_id = rx.conv
             THEN [rx EXCEPT !.pc = "remove", !.arc = sessions[rx.from]]
             ELSE NoPacket
    /\ UNCHANGED <<sessions, sess, up, call, owner, last_event, queueVars>>

RxRemoveSkipped ==
    /\ rx.pc = "remove"
    /\ rx' = [rx EXCEPT !.pc = "close"]
    /\ UNCHANGED <<sessions, sess, up, call, owner, last_event, queueVars>>

RxRemove ==
    /\ rx.pc = "remove"
    /\ MapUnlocked
    /\ rx' = [rx EXCEPT !.pc = "close"]
    /\ sessions' = [sessions EXCEPT ![rx.from] = None]
    /\ UNCHANGED <<up, call, owner, last_event, queueVars>>
    /\ sess' = Collect(sess)

RxCloseUnlessRemapped ==
    /\ rx.pc = "close"
    /\ rx' = NoPacket
    /\ last_event' = IF sessions[rx.from] # None THEN last_event
                     ELSE [last_event EXCEPT ![rx.from] = "Disconnected"]
    /\ UNCHANGED <<sessions, up, call, owner, queueVars>>
    /\ sess' = Collect([sess EXCEPT ![rx.arc] = MarkClosed(@)])

RxClose ==
    /\ rx.pc = "close"
    /\ rx' = NoPacket
    /\ last_event' = [last_event EXCEPT ![rx.from] = "Disconnected"]
    /\ UNCHANGED <<sessions, up, call, owner, queueVars>>
    /\ sess' = Collect([sess EXCEPT ![rx.arc] = MarkClosed(@)])

RecvStop ==
    /\ Cancelled
    /\ rx.pc = "recv"
    /\ rx' = [rx EXCEPT !.pc = "stopped"]
    /\ UNCHANGED <<sessions, sess, up, call, owner, last_event, queueVars>>

-----------------------------------------------------------------------------
(* The update task. *)

Mapped == {p \in Peers : sessions[p] # None}

TickRegardless ==
    /\ up.pc = "tick"
    /\ up' = [up EXCEPT !.pc = "ticked"]
    /\ UNCHANGED <<sessions, sess, rx, call, owner, last_event, queueVars>>

(* The interval ticks; what follows ignores the token. *)
Tick ==
    /\ ~Cancelled
    /\ up.pc = "tick"
    /\ up' = [up EXCEPT !.pc = "ticked"]
    /\ UNCHANGED <<sessions, sess, rx, call, owner, last_event, queueVars>>

(* With no session there is nothing to do.  Otherwise the map is           *)
(* read-locked and every entry visited.                                    *)
ScanStart ==
    /\ up.pc = "ticked"
    /\ up' = [up EXCEPT !.pc = IF Mapped = {} THEN "tick" ELSE "scan", !.todo = Mapped]
    /\ UNCHANGED <<sessions, sess, rx, call, owner, last_event, queueVars>>

Visiting(p) == up.pc = "scan" /\ p \in up.todo

(* The visit of one session takes its mutex several times.  In between     *)
(* only the receive task and shutdown() can change what the visit reads    *)
(* (state, closed), and then the same end is reached with that change      *)
(* before or after the visit, so a visit is one step.  s: the session      *)
(* after it; doomed: its address goes on the list.                         *)
Visit(p, s, doomed) ==
    /\ LET todo == up.todo \ {p}
           to_remove == up.to_remove \cup
               {[can |-> p, judged |-> a] : a \in {b \in {sessions[p]} : doomed}}
       IN  up' = [pc |-> IF todo # {} THEN "scan"
                         ELSE IF to_remove # {} THEN "prune" ELSE "tick",
                  todo |-> todo, to_remove |-> to_remove]
    /\ sess' = [sess EXCEPT ![sessions[p]] = s]
    /\ UNCHANGED <<sessions, rx, call, owner, last_event, queueVars>>

VisitClosed(p) ==
    /\ Visiting(p)
    /\ Entry(p).closed
    /\ Visit(p, Entry(p), FALSE)

(* update() drives KCP; the list gets a dead link and an idle session. *)
VisitEstablishedUndriven(p, k, idle) ==
    /\ Visiting(p)
    /\ ~Entry(p).closed
    /\ Entry(p).state = "Established"
    /\ k = Entry(p).kcp
    /\ Visit(p, Entry(p), k = "DeadLink" \/ idle)

VisitEstablished(p, k, idle) ==
    /\ Visiting(p)
    /\ ~Entry(p).closed
    /\ Entry(p).state = "Established"
    /\ k \in KcpDrive(Entry(p).kcp)
    /\ Visit(p, [Entry(p) EXCEPT !.kcp = k], k = "DeadLink" \/ idle)

(* maybe_retry_syn: the retries are exhausted, the next one is due, or not *)
(* yet due.                                                                *)
VisitExhausted(p) ==
    /\ Visiting(p)
    /\ ~Entry(p).closed
    /\ Entry(p).state = "SynSent"
    /\ Entry(p).syn_retries >= SynMaxRetries
    /\ Visit(p, Entry(p), TRUE)

VisitRetryUncounted(p, idle) ==
    /\ Visiting(p)
    /\ ~Entry(p).closed
    /\ Entry(p).state = "SynSent"
    /\ Entry(p).syn_retries < SynMaxRetries
    /\ Visit(p, Entry(p), idle)

VisitRetry(p, idle) ==
    /\ Visiting(p)
    /\ ~Entry(p).closed
    /\ Entry(p).state = "SynSent"
    /\ Entry(p).syn_retries < SynMaxRetries
    /\ Visit(p, [Entry(p) EXCEPT !.syn_retries = @ + 1], idle)

VisitWait(p, idle) ==
    /\ Visiting(p)
    /\ ~Entry(p).closed
    /\ Entry(p).state = "SynSent"
    /\ Entry(p).syn_retries < SynMaxRetries
    /\ Visit(p, Entry(p), idle)

(* One address of the list: whatever the map holds there now is removed,   *)
(* reset, closed and reported, under the write lock.                       *)
Prune(e) ==
    /\ up.pc = "prune"
    /\ e \in up.to_remove
    /\ LET to_remove == up.to_remove \ {e}
       IN  up' = [up EXCEPT !.to_remove = to_remove,
                            !.pc = IF to_remove # {} THEN "prune" ELSE "tick"]
    /\ sessions' = [sessions EXCEPT ![e.can] = None]
    /\ last_event' = IF sessions[e.can] = None THEN last_event
                     ELSE [last_event EXCEPT ![e.can] = "Disconnected"]
    /\ UNCHANGED <<rx, call, owner, queueVars>>
    /\ sess' = Collect([a \in Arcs |->
                   IF a = sessions[e.can] THEN MarkClosed(sess[a]) ELSE sess[a]])

UpdateStop ==
    /\ Cancelled
    /\ up.pc = "tick"
    /\ up' = [up EXCEPT !.pc = "stopped"]
    /\ UNCHANGED <<sessions, sess, rx, call, owner, last_event, queueVars>>

-----------------------------------------------------------------------------
(* The owner.  shutdown() takes the KcpPeer by value and Drop runs when    *)
(* nobody borrows it: no send() and no recv() is then in progress.         *)

NobodyBorrows ==
    /\ \A c \in Callers : call[c].pc = "idle"
    /\ \A r \in Receivers : recv[r] = "idle"

(* The token is cancelled, and the sessions of the map are collected. *)
Shutdown ==
    /\ ~Cancelled
    /\ NobodyBorrows
    /\ owner' = [owner EXCEPT !.pc = "cancelled"]
    /\ UNCHANGED <<sessions, sess, rx, up, call, last_event, queueVars>>

ShutdownList ==
    /\ owner.pc = "cancelled"
    /\ owner' = [pc |-> "closing", peers |-> {sessions[p] : p \in Mapped}]
    /\ UNCHANGED <<sessions, sess, rx, up, call, last_event, queueVars>>

(* Each is closed and sent a RESET; the map keeps it. *)
ShutdownClose(a) ==
    /\ owner.pc = "closing"
    /\ a \in owner.peers
    /\ owner' = [owner EXCEPT !.peers = @ \ {a}]
    /\ UNCHANGED <<sessions, rx, up, call, last_event, queueVars>>
    /\ sess' = Collect([sess EXCEPT ![a] = MarkClosed(@)])

ShutdownJoin ==
    /\ owner.pc = "closing"
    /\ owner.peers = {}
    /\ rx.pc = "stopped"
    /\ up.pc = "stopped"
    /\ owner' = [owner EXCEPT !.pc = "gone"]
    /\ UNCHANGED <<sessions, sess, rx, up, call, last_event, queueVars>>

(* The shutdown future is dropped while it awaits the tasks. *)
CancelShutdown ==
    /\ owner.pc = "closing"
    /\ owner.peers = {}
    /\ owner' = [owner EXCEPT !.pc = "dropped"]
    /\ UNCHANGED <<sessions, sess, rx, up, call, last_event, queueVars>>

Drop ==
    /\ ~Cancelled
    /\ NobodyBorrows
    /\ owner' = [owner EXCEPT !.pc = "dropped"]
    /\ UNCHANGED <<sessions, sess, rx, up, call, last_event, queueVars>>

-----------------------------------------------------------------------------

(* bind_with: an empty map, and both tasks spawned. *)
Init ==
    /\ sessions = [p \in Peers |-> None]
    /\ sess = [a \in Arcs |-> Freed]
    /\ rx = NoPacket
    /\ up = [pc |-> "tick", todo |-> {}, to_remove |-> {}]
    /\ call = [c \in Callers |-> IdleCall]
    /\ owner = [pc |-> "live", peers |-> {}]
    /\ last_event = [p \in Peers |-> "none"]
    /\ DQ!QueueInit

SendStep(c) ==
    \/ InitiateFastCheck(c) \/ InitiateFound(c)
    \/ \E conv \in Conv : InitiateInsert(c, conv)
    \/ SendSyn(c) \/ SendRefused(c) \/ SendAdmitted(c) \/ QueueData(c)

CallerNext(c) ==
    \/ \E p \in Peers : Send(c, p)
    \/ SendStep(c)
    \/ CancelSend(c)

(* recv(), which needs the KcpPeer too. *)
ReceiverNext(r) ==
    /\ \/ ~Cancelled /\ DQ!RecvCall(r)
       \/ DQ!RecvStep(r)
       \/ DQ!RecvCancel(r)
    /\ UNCHANGED mapVars

(* The steps of a handler that wait for no lock but a session's. *)
HandlerStep ==
    \/ RxKcpData \/ RxInputRefused \/ \E n \in 0..RcvWnd : RxInput(n)
    \/ RxNotify
    \/ RxSynUnknown \/ RxSynSame \/ RxSynSimultaneous \/ RxSynRestart
    \/ RxSynAck \/ RxSynAckIgnored
    \/ RxReset \/ RxClose

RxNext ==
    \/ \E typ \in PacketType, p \in Peers, conv \in Conv : RecvFrom(typ, p, conv)
    \/ HandlerStep \/ RxCreate \/ RxRemove
    \/ RecvStop

VisitNext ==
    \E p \in up.todo :
        \/ VisitClosed(p)
        \/ \E k \in Kcp, idle \in BOOLEAN : VisitEstablished(p, k, idle)
        \/ VisitExhausted(p)
        \/ \E idle \in BOOLEAN : VisitRetry(p, idle)
        \/ \E idle \in BOOLEAN : VisitWait(p, idle)

PruneNext == \E e \in up.to_remove : Prune(e)

UpdateNext == Tick \/ ScanStart \/ VisitNext \/ PruneNext \/ UpdateStop

OwnerNext ==
    \/ Shutdown \/ ShutdownList
    \/ \E a \in owner.peers : ShutdownClose(a)
    \/ ShutdownJoin
    \/ CancelShutdown
    \/ Drop

(* Nothing is left to run; any other state without a step is a deadlock. *)
Terminated ==
    /\ owner.pc \in {"gone", "dropped"}
    /\ rx.pc = "stopped"
    /\ up.pc = "stopped"
    /\ UNCHANGED vars

Next ==
    \/ \E c \in Callers : CallerNext(c)
    \/ \E p \in Peers : Disconnect(p)
    \/ \E r \in Receivers : ReceiverNext(r)
    \/ RxNext
    \/ UpdateNext
    \/ OwnerNext
    \/ Terminated

Spec == Init /\ [][Next]_vars

(* A spawned task runs on, and so does a polled future.  A writer that     *)
(* waits for the map gets it in the end (std::sync::RwLock holds new       *)
(* readers back), although scans recur.  As time passes a SYN retry falls  *)
(* due, and the socket does not fail for ever: a session that is driven    *)
(* again and again is in the end driven with success.  kcp keeps a message *)
(* that the window has no room for until an acknowledgement or the dead    *)
(* link; that wait is Handshake's.  No packet needs to arrive and nobody   *)
(* needs to call anything.                                                 *)
Fairness ==
    /\ WF_vars(HandlerStep) /\ WF_vars(RecvStop)
    /\ SF_vars(RxCreate) /\ SF_vars(RxRemove)
    /\ WF_vars(Tick) /\ WF_vars(ScanStart) /\ WF_vars(VisitNext) /\ WF_vars(PruneNext) /\ WF_vars(UpdateStop)
    /\ \A p \in Peers : SF_vars(\E idle \in BOOLEAN : VisitRetry(p, idle))
    /\ \A p \in Peers :
          SF_vars(\E k \in Kcp \ {"Queued"}, idle \in BOOLEAN : VisitEstablished(p, k, idle))
    /\ \A r \in Receivers : WF_vars(DQ!RecvStep(r) /\ UNCHANGED mapVars)
    /\ WF_vars(ShutdownList) /\ WF_vars(\E a \in owner.peers : ShutdownClose(a))
    /\ WF_vars(ShutdownJoin)

FairSpec == Spec /\ Fairness

-----------------------------------------------------------------------------

Event == {"none", "Connected", "Disconnected", "PeerRestarted"}

(* The places and the locals of each party. *)
RxState ==
    [pc : PacketType \cup {"recv", "input", "notify", "create", "remove", "close", "stopped"},
     from : Peers \cup {None}, conv : Conv \cup {None}, arc : Arcs \cup {None}]

UpdateState ==
    [pc : {"tick", "ticked", "scan", "prune", "stopped"}, todo : SUBSET Peers,
     to_remove : SUBSET [can : Peers, judged : Arcs]]

CallState ==
    [pc : {"idle", "initiate", "insert", "syn", "send", "queue"},
     peer : Peers \cup {None}, arc : Arcs \cup {None}]

OwnerState == [pc : {"live", "cancelled", "closing", "gone", "dropped"}, peers : SUBSET Arcs]

VariablesOK ==
    /\ sessions \in [Peers -> Arcs \cup {None}]
    /\ sess \in [Arcs -> Session]
    /\ rx \in RxState
    /\ up \in UpdateState
    /\ call \in [Callers -> CallState]
    /\ owner \in OwnerState
    /\ last_event \in [Peers -> Event]

(* Whoever is past a lookup holds what it looked up, and a scan, which     *)
(* keeps every writer of the map waiting, has only mapped peers to visit.  *)
LocalsOK ==
    /\ rx.pc \notin {"recv", "stopped"} => rx.from \in Peers /\ rx.conv \in Conv
    /\ rx.pc \in {"input", "notify", "remove", "close"} => rx.arc \in Arcs
    /\ \A c \in Callers :
          /\ call[c].pc # "idle" => call[c].peer \in Peers
          /\ call[c].pc \in {"syn", "send", "queue"} => call[c].arc \in Arcs
    /\ IF up.pc = "scan" THEN up.todo \subseteq Mapped ELSE up.todo = {}

TypeOK == VariablesOK /\ LocalsOK

(* transport.rs:553-555, 725-728: the update task skips a closed session,  *)
(* so one left in the map would swallow every send() to its peer for ever. *)
(* While the peer is in use a closed session stays there only until the    *)
(* receive task has replaced it.                                           *)
ClosedOnlyWhileReplaced ==
    \A p \in Mapped :
        Entry(p).closed => Cancelled \/ (rx.pc = "create" /\ rx.from = p)

(* transport.rs:723-753, 772-777, 587-598, 405-416, 799-801: events and    *)
(* map tell the same story.  The latest event about a live established     *)
(* session is its Connected, and Connected stays the latest only as long   *)
(* as an established session is there or its removal by a RESET is about   *)
(* to be reported.  Inbound, this contradicts two docs: transport.rs:43-44 *)
(* has Connected fire "before the session is inserted into the peer map",  *)
(* and README.md:147-151 draws it at the first data.  The code inserts     *)
(* (752) and fires (753) under one hold of the lock, when the SYN is       *)
(* handled.                                                                *)
EventsMatchMap ==
    \A p \in Peers :
        /\ (p \in Mapped /\ Entry(p).state = "Established" /\ ~Entry(p).closed)
              => last_event[p] = "Connected"
        /\ last_event[p] = "Connected"
              => \/ p \in Mapped /\ Entry(p).state = "Established"
                 \/ rx.pc = "close" /\ rx.from = p

(* session.rs:230-245, transport.rs:96-98: nothing queued during the       *)
(* handshake reaches the wire before it completes.                         *)
BufferedUntilEstablished == \A a \in Arcs : Buffered(sess[a])

(* transport.rs:587-598, 792-801: no session is entered under two          *)
(* addresses, and the session that a RESET handler is about to close has   *)
(* left the map, with at most a new handshake in its place.                *)
NoSharedEntry ==
    /\ \A p \in Mapped : Entry(p).peer_addr = p
    /\ rx.pc = "remove" => sess[rx.arc].peer_addr = rx.from
    /\ rx.pc = "close" =>
          /\ \A p \in Peers : sessions[p] # rx.arc
          /\ rx.from \in Mapped => Entry(rx.from).state = "SynSent"

(* The inductive invariant. *)
IInv ==
    /\ TypeOK
    /\ NoSharedEntry
    /\ ClosedOnlyWhileReplaced
    /\ EventsMatchMap
    /\ BufferedUntilEstablished

(* transport.rs:550-598, session.rs:286-327: a handshake does not hang: it *)
(* completes, or the session leaves the map, or the peer is given up.      *)
HandshakeResolves ==
    \A p \in Peers :
        (p \in Mapped /\ Entry(p).state = "SynSent")
            ~> (p \notin Mapped \/ Entry(p).state # "SynSent" \/ Cancelled)

(* session.rs:230-263, transport.rs:557: what send() queued, whether or    *)
(* not the handshake was over and the flush failed, is driven out by the   *)
(* update task, or its session is gone.                                    *)
QueuedDataIsResolved ==
    \A p \in Peers :
        (p \in Mapped /\ Entry(p).kcp = "Queued")
            ~> (p \notin Mapped \/ Entry(p).kcp # "Queued" \/ Cancelled)

(* transport.rs:64 "Always followed by Connected for the new session",     *)
(* whatever disconnect(), the update task or shutdown() do in between.     *)
RestartIsFollowedByConnected ==
    \A p \in Peers : last_event[p] = "PeerRestarted" ~> last_event[p] = "Connected"

(* transport.rs:121-123, 428-433: once the peer is given up, by shutdown(),*)
(* by a shutdown() that is itself cancelled, or by Drop, both tasks exit.  *)
TasksExit == Cancelled ~> (rx.pc = "stopped" /\ up.pc = "stopped")

(* transport.rs:630-646, 343-361: data that the receive task drained from  *)
(* KCP reaches a waiting recv(), even if the session it came from is       *)
(* removed between the drain and the notification.                         *)
SleeperIsWoken == DQ!SleeperIsWoken

(* transport.rs:630-646, 343-361: the notification follows every drain, so *)
(* outside that place in the receive task a sole recv() is never asleep,   *)
(* nor about to fall asleep without a permit, while there is data for it.  *)
SoleReceiverIsAwake ==
    \A r \in Receivers :
        (Receivers = {r} /\ pending_data # <<>> /\ rx.pc # "notify") =>
            /\ recv[r] # "waiting"
            /\ recv[r] = "select" => permit

(* What a subscriber can take a session for. *)
Link(p) ==
    CASE p \notin Mapped -> "Down"
      [] p \in Mapped /\ Entry(p).state = "SynSent" -> "Handshaking"
      [] p \in Mapped /\ Entry(p).state = "Established" ->
            IF rx.pc = "create" /\ rx.from = p THEN "Restarting" ELSE "Up"

PL == INSTANCE PeerLink
        WITH link <- [p \in Peers |-> Link(p)],
             told <- last_event,
             due <- [p \in Peers |-> rx.pc = "close" /\ rx.from = p]

(* transport.rs:25-66: however the tasks interleave, the events about a    *)
(* peer come in an order, and with sessions behind them, that PeerLink     *)
(* allows.  Not in that of lines 43-44, see EventsMatchMap.                *)
EventOrdering == PL!Spec

-----------------------------------------------------------------------------
(* What the documentation and the tests say and the code does not do. *)

(* tests/protocol.rs:183: a session is "not removed by RESET with wrong    *)
(* conv_id".  The receive task compares the conversation of one session    *)
(* and removes whichever session is in the map afterwards.                 *)
ResetRemovesOnlyItsConversation ==
    [][(rx.pc = "remove" /\ rx'.pc = "close" /\ rx.from \in Mapped)
          => Entry(rx.from).conv_id = rx.conv]_vars

(* README:135: the update task "prunes sessions that exceed                *)
(* session_timeout, are dead [...] or have exhausted SYN retries".  It     *)
(* lists addresses, so it also removes what has taken their place.         *)
PruneRemovesWhatItJudged ==
    [][\A e \in up.to_remove \ up'.to_remove :
          sessions[e.can] \in {None, e.judged}]_vars

(* transport.rs:238-243: data queued during SynSent may be dropped, and    *)
(* "to detect this, monitor events() for Disconnected".  An inbound        *)
(* session that replaces the entry drops it and reports Connected.         *)
LossOfQueuedDataIsReported ==
    [][\A p \in Mapped :
          (Entry(p).state = "SynSent" /\ Entry(p).kcp = "Queued" /\ sessions'[p] # sessions[p])
             => last_event'[p] = "Disconnected" \/ rx'.pc = "close"]_vars

=============================================================================
