------------------------------ MODULE DataQueue ------------------------------
(***************************************************************************)
(* The queue between the receive task and KcpPeer::recv() (src/transport.rs *)
(* handle_incoming and recv): pending_data, a Mutex<VecDeque<DataMessage>>, *)
(* and data_notify, a tokio Notify.                                        *)
(*                                                                         *)
(* recv() borrows the KcpPeer, and shutdown() and Drop need it back, so the *)
(* shutdown token is never cancelled while a recv() is running: its two     *)
(* ShuttingDown exits cannot be taken and have no action here.             *)
(***************************************************************************)
EXTENDS Naturals, Sequences, SequencesExt

CONSTANTS
    Peers,       \* remote addresses: of a DataMessage only its peer is kept
    Receivers,   \* tasks that may call recv() on the shared KcpPeer
    RcvWnd,      \* messages one drain of a KCP receive window can yield
    MaxPending   \* bound on the queue, which the code does not bound

ASSUME RcvWndPos == RcvWnd \in Nat \ {0}
ASSUME MaxPendingNat == MaxPending \in Nat

VARIABLES
    pending_data,  \* messages drained out of KCP and not yet returned
    notify_due,    \* the receive task has pushed and not yet notified
    permit,        \* the permit a Notify stores when nobody waits
    waiters,       \* receivers enrolled in the Notify, oldest first
    recv           \* where each receiver stands in recv()

queueVars == <<pending_data, notify_due, permit, waiters, recv>>

-----------------------------------------------------------------------------
(* tokio::sync::Notify::notify_one: the oldest waiter is woken, or one     *)
(* permit is kept for the next notified().                                 *)
NotifyWith(w, rc) ==
    IF w = <<>>
    THEN /\ permit' = TRUE
         /\ waiters' = w
         /\ recv' = rc
    ELSE /\ waiters' = Tail(w)
         /\ recv' = [rc EXCEPT ![Head(w)] = "notified"]
         /\ UNCHANGED permit

(* The receive task drained a session: a batch goes in under the lock ...  *)
Push(p, n) ==
    /\ ~notify_due
    /\ Len(pending_data) + n <= MaxPending
    /\ pending_data' = pending_data \o [i \in 1..n |-> p]
    /\ notify_due' = TRUE
    /\ UNCHANGED <<permit, waiters, recv>>

(* ... and one notification follows, whatever the size of the batch. *)
NotifyOneIfWaiting ==
    /\ notify_due
    /\ notify_due' = FALSE
    /\ IF waiters = <<>> THEN UNCHANGED <<permit, waiters, recv>>
                         ELSE NotifyWith(waiters, recv)
    /\ UNCHANGED pending_data

NotifyOne ==
    /\ notify_due
    /\ notify_due' = FALSE
    /\ NotifyWith(waiters, recv)
    /\ UNCHANGED pending_data

-----------------------------------------------------------------------------
(* recv(): the loop pops, or awaits the Notify and pops again. *)

RecvCall(r) ==
    /\ recv[r] = "idle"
    /\ recv' = [recv EXCEPT ![r] = "pop"]
    /\ UNCHANGED <<pending_data, notify_due, permit, waiters>>

RecvPop(r) ==
    /\ recv[r] = "pop"
    /\ IF pending_data # <<>>
       THEN /\ pending_data' = Tail(pending_data)
            /\ recv' = [recv EXCEPT ![r] = "idle"]
       ELSE /\ recv' = [recv EXCEPT ![r] = "select"]
            /\ UNCHANGED pending_data
    /\ UNCHANGED <<notify_due, permit, waiters>>

RecvPoll(r) ==
    /\ recv[r] = "select"
    /\ permit' = FALSE
    /\ IF permit
       THEN /\ recv' = [recv EXCEPT ![r] = "pop"]
            /\ UNCHANGED waiters
       ELSE /\ recv' = [recv EXCEPT ![r] = "waiting"]
            /\ waiters' = Append(waiters, r)
    /\ UNCHANGED <<pending_data, notify_due>>

RecvWake(r) ==
    /\ recv[r] = "notified"
    /\ recv' = [recv EXCEPT ![r] = "pop"]
    /\ UNCHANGED <<pending_data, notify_due, permit, waiters>>

RecvCancelStaysEnrolled(r) ==
    /\ recv[r] \in {"waiting", "notified"}
    /\ recv' = [recv EXCEPT ![r] = "idle"]
    /\ UNCHANGED <<pending_data, notify_due, permit, waiters>>

(* The future is dropped at its await.  A Notified that was already woken  *)
(* hands its notification on.                                              *)
RecvCancel(r) ==
    /\ UNCHANGED <<pending_data, notify_due>>
    /\ \/ /\ recv[r] = "waiting"
          /\ recv' = [recv EXCEPT ![r] = "idle"]
          /\ \E i \in DOMAIN waiters :
                waiters[i] = r /\ waiters' = RemoveAt(waiters, i)
          /\ UNCHANGED permit
       \/ /\ recv[r] = "notified"
          /\ NotifyWith(waiters, [recv EXCEPT ![r] = "idle"])

-----------------------------------------------------------------------------

QueueInit ==
    /\ pending_data = <<>>
    /\ notify_due = FALSE
    /\ permit = FALSE
    /\ waiters = <<>>
    /\ recv = [r \in Receivers |-> "idle"]

RecvStep(r) == RecvPop(r) \/ RecvPoll(r) \/ RecvWake(r)

QueueNext ==
    \/ \E p \in Peers, n \in 1..RcvWnd : Push(p, n)
    \/ NotifyOne
    \/ \E r \in Receivers : RecvCall(r) \/ RecvStep(r) \/ RecvCancel(r)

(* The receive task finishes what it began, and so does a polled future.   *)
(* Data need not come, and nobody has to call recv() or cancel it.         *)
QueueFairness ==
    /\ WF_queueVars(NotifyOne)
    /\ \A r \in Receivers : WF_queueVars(RecvStep(r))

QueueSpec == QueueInit /\ [][QueueNext]_queueVars /\ QueueFairness

-----------------------------------------------------------------------------

(* A receiver asleep in the Notify is one of its enrolled waiters, once,   *)
(* and the other way round: a cancelled recv() leaves no entry behind that *)
(* could swallow a notification.                                           *)
QueueTypeOK ==
    /\ pending_data \in Seq(Peers)
    /\ notify_due \in BOOLEAN
    /\ permit \in BOOLEAN
    /\ waiters \in Seq(Receivers)
    /\ recv \in [Receivers -> {"idle", "pop", "select", "waiting", "notified"}]
    /\ \A r \in Receivers : recv[r] = "waiting" <=> r \in ToSet(waiters)
    /\ IsInjective(waiters)

(* transport.rs recv: with one receiver no notification is lost.  While it *)
(* sleeps there is nothing to pop, or the receive task is about to notify; *)
(* while it is on its way to sleep a message has left a permit.            *)
SoleReceiverMissesNothing ==
    \A r \in Receivers :
        (Receivers = {r} /\ pending_data # <<>> /\ ~notify_due) =>
            /\ recv[r] # "waiting"
            /\ recv[r] = "select" => permit

(* README, DataMessage: "recv() pops from this queue, waking via Notify    *)
(* when new data is available": data is never left with a receiver asleep. *)
SleeperIsWoken ==
    \A r \in Receivers :
        (recv[r] = "waiting" /\ pending_data # <<>>)
            ~> (recv[r] # "waiting" \/ pending_data = <<>>)

=============================================================================
