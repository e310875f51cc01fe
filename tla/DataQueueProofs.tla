--------------------------- MODULE DataQueueProofs ---------------------------
(***************************************************************************)
(* Proofs about DataQueue, for any peers, any number of receivers and any  *)
(* window: the Notify and recv() never disagree on who sleeps, and a sole  *)
(* receiver misses no wakeup.                                              *)
(***************************************************************************)
EXTENDS DataQueue, SequenceTheorems, TLAPS

-----------------------------------------------------------------------------
(* Sequences without repetition, as the list of waiters is. *)

(* The oldest waiter leaves. *)
LEMMA TailOfInjective ==
  ASSUME NEW S, NEW w \in Seq(S), IsInjective(w), w # <<>>
  PROVE  /\ Head(w) \in S /\ Tail(w) \in Seq(S)
         /\ IsInjective(Tail(w))
         /\ ToSet(Tail(w)) = ToSet(w) \ {Head(w)}
<1>1. /\ Head(w) \in S /\ Tail(w) \in Seq(S) /\ Len(Tail(w)) = Len(w) - 1
      /\ \A i \in 1..Len(Tail(w)) : Tail(w)[i] = w[i + 1]
  BY HeadTailProperties
<1>2. Len(w) \in Nat \ {0} /\ DOMAIN w = 1..Len(w) /\ DOMAIN Tail(w) = 1..(Len(w) - 1)
  BY <1>1, EmptySeq, LenProperties
<1>3. Head(w) = w[1]
  OBVIOUS
<1>4. IsInjective(Tail(w))
  BY <1>1, <1>2 DEF IsInjective
<1>5. ASSUME NEW x \in ToSet(Tail(w)) PROVE x \in ToSet(w) \ {Head(w)}
  <2>1. PICK i \in 1..(Len(w) - 1) : x = Tail(w)[i]
    BY <1>2 DEF ToSet
  <2>2. x = w[i + 1] /\ i + 1 \in DOMAIN w /\ 1 \in DOMAIN w /\ i + 1 # 1
    BY <1>1, <1>2, <2>1
  <2> QED
    BY <1>3, <2>2 DEF ToSet, IsInjective
<1>6. ASSUME NEW x \in ToSet(w) \ {Head(w)} PROVE x \in ToSet(Tail(w))
  <2>1. PICK i \in DOMAIN w : x = w[i]
    BY DEF ToSet
  <2>2. i - 1 \in 1..(Len(w) - 1) /\ (i - 1) + 1 = i
    BY <1>2, <1>3, <2>1
  <2>3. x = Tail(w)[i - 1]
    BY <1>1, <2>1, <2>2
  <2> QED
    BY <1>2, <2>2, <2>3 DEF ToSet
<1> QED
  BY <1>1, <1>4, <1>5, <1>6

(* A waiter enrols. *)
LEMMA AppendToInjective ==
  ASSUME NEW S, NEW w \in Seq(S), IsInjective(w), NEW e \in S, e \notin ToSet(w)
  PROVE  /\ Append(w, e) \in Seq(S)
         /\ IsInjective(Append(w, e))
         /\ ToSet(Append(w, e)) = ToSet(w) \cup {e}
<1> DEFINE a == Append(w, e)
<1>1. /\ a \in Seq(S) /\ Len(a) = Len(w) + 1
      /\ \A i \in 1..Len(w) : a[i] = w[i]
      /\ a[Len(w) + 1] = e
  BY AppendProperties
<1> HIDE DEF a
<1>2. Len(w) \in Nat /\ DOMAIN w = 1..Len(w) /\ DOMAIN a = 1..(Len(w) + 1)
  BY <1>1, LenProperties
<1>3. IsInjective(a)
  <2> SUFFICES ASSUME NEW i \in DOMAIN a, NEW j \in DOMAIN a, a[i] = a[j] PROVE i = j
    BY DEF IsInjective
  <2>1. CASE i \in 1..Len(w) /\ j \in 1..Len(w)
    BY <1>1, <1>2, <2>1 DEF IsInjective
  <2>2. CASE i = Len(w) + 1 /\ j \in 1..Len(w)
    BY <1>1, <1>2, <2>2 DEF ToSet
  <2>3. CASE i \in 1..Len(w) /\ j = Len(w) + 1
    BY <1>1, <1>2, <2>3 DEF ToSet
  <2> QED
    BY <1>2, <2>1, <2>2, <2>3
<1>4. ToSet(a) = ToSet(w) \cup {e}
  BY <1>1, <1>2 DEF ToSet
<1> QED
  BY <1>1, <1>3, <1>4 DEF a

(* A waiter gives up. *)
LEMMA RemoveFromInjective ==
  ASSUME NEW S, NEW w \in Seq(S), IsInjective(w), NEW i \in DOMAIN w
  PROVE  /\ RemoveAt(w, i) \in Seq(S)
         /\ IsInjective(RemoveAt(w, i))
         /\ ToSet(RemoveAt(w, i)) = ToSet(w) \ {w[i]}
<1> DEFINE n == Len(w)
           a == SubSeq(w, 1, i - 1)
           b == SubSeq(w, i + 1, n)
           c == RemoveAt(w, i)
<1>1. n \in Nat /\ DOMAIN w = 1..n /\ \A k \in 1..n : w[k] \in S
  BY LenProperties, ElementOfSeq
<1>2. a \in Seq(S) /\ Len(a) = i - 1 /\ \A k \in 1..(i - 1) : a[k] = w[k]
  BY <1>1, SubSeqProperties
<1>3. b \in Seq(S) /\ Len(b) = n - i /\ \A k \in 1..(n - i) : b[k] = w[i + k]
  BY <1>1, SubSeqProperties
<1>4. c = a \o b
  BY DEF RemoveAt
<1> HIDE DEF a, b, c, n
<1>5. /\ c \in Seq(S) /\ Len(c) = n - 1
      /\ \A k \in 1..(n - 1) : c[k] = IF k < i THEN w[k] ELSE w[k + 1]
  <2>1. c \in Seq(S) /\ Len(c) = n - 1
    <3>1. c \in Seq(S) /\ Len(c) = Len(a) + Len(b)
      BY <1>2, <1>3, <1>4, ConcatProperties
    <3> QED
      BY <1>1, <1>2, <1>3, <3>1
  <2>2. ASSUME NEW k \in 1..(n - 1) PROVE c[k] = IF k < i THEN w[k] ELSE w[k + 1]
    <3>1. c[k] = IF k <= Len(a) THEN a[k] ELSE b[k - Len(a)]
      BY <1>1, <1>2, <1>3, <1>4, ConcatProperties
    <3> QED
      BY <1>1, <1>2, <1>3, <3>1
  <2> QED
    BY <2>1, <2>2
<1>6. DOMAIN c = 1..(n - 1)
  BY <1>5, LenProperties
<1>7. IsInjective(c)
  <2> SUFFICES ASSUME NEW j \in 1..(n - 1), NEW k \in 1..(n - 1), c[j] = c[k] PROVE j = k
    BY <1>6 DEF IsInjective
  <2> DEFINE at(m) == IF m < i THEN m ELSE m + 1
  <2>1. at(j) \in DOMAIN w /\ at(k) \in DOMAIN w /\ w[at(j)] = w[at(k)]
    BY <1>1, <1>5
  <2>2. at(j) = at(k)
    BY <2>1 DEF IsInjective
  <2> QED
    BY <1>1, <2>2
<1>8. ASSUME NEW x \in ToSet(c) PROVE x \in ToSet(w) \ {w[i]}
  <2>1. PICK k \in 1..(n - 1) : x = c[k]
    BY <1>6 DEF ToSet
  <2> DEFINE at == IF k < i THEN k ELSE k + 1
  <2>2. at \in DOMAIN w /\ at # i /\ x = w[at]
    BY <1>1, <1>5, <2>1
  <2> QED
    BY <2>2 DEF ToSet, IsInjective
<1>9. ASSUME NEW x \in ToSet(w) \ {w[i]} PROVE x \in ToSet(c)
  <2>1. PICK k \in 1..n : x = w[k] /\ k # i
    BY <1>1 DEF ToSet
  <2>2. CASE k < i
    <3>1. k \in 1..(n - 1) /\ x = c[k]
      BY <1>1, <1>5, <2>1, <2>2
    <3> QED
      BY <1>6, <3>1 DEF ToSet
  <2>3. CASE k > i
    <3>1. k - 1 \in 1..(n - 1) /\ x = c[k - 1]
      BY <1>1, <1>5, <2>1, <2>3
    <3> QED
      BY <1>6, <3>1 DEF ToSet
  <2> QED
    BY <1>1, <2>1, <2>2, <2>3
<1> QED
  BY <1>5, <1>7, <1>8, <1>9 DEF c

-----------------------------------------------------------------------------
(* Types, and who is enrolled. *)

Places == {"idle", "pop", "select", "waiting", "notified"}

(* notify_one, and a woken recv() that is dropped and hands on what it got: *)
(* rc is recv before, in which the waiters w are those that sleep.         *)
LEMMA NotifyKeepsTypes ==
  ASSUME waiters \in Seq(Receivers), IsInjective(waiters), permit \in BOOLEAN,
         NEW rc \in [Receivers -> Places],
         \A r \in Receivers : rc[r] = "waiting" <=> r \in ToSet(waiters),
         NotifyWith(waiters, rc)
  PROVE  /\ permit' \in BOOLEAN /\ waiters' \in Seq(Receivers) /\ IsInjective(waiters')
         /\ recv' \in [Receivers -> Places]
         /\ \A r \in Receivers : recv'[r] = "waiting" <=> r \in ToSet(waiters')
<1>1. CASE waiters = <<>>
  BY <1>1 DEF NotifyWith
<1>2. CASE waiters # <<>>
  <2>1. /\ waiters' = Tail(waiters)
        /\ recv' = [rc EXCEPT ![Head(waiters)] = "notified"]
        /\ permit' = permit
    BY <1>2 DEF NotifyWith
  <2>2. /\ Head(waiters) \in Receivers /\ Tail(waiters) \in Seq(Receivers)
        /\ IsInjective(Tail(waiters))
        /\ ToSet(Tail(waiters)) = ToSet(waiters) \ {Head(waiters)}
    BY <1>2, TailOfInjective
  <2> QED
    BY <2>1, <2>2 DEF Places
<1> QED
  BY <1>1, <1>2

LEMMA QueueTypeInit == QueueInit => QueueTypeOK
<1> SUFFICES ASSUME QueueInit PROVE QueueTypeOK
  OBVIOUS
<1>1. <<>> \in Seq(Peers) /\ <<>> \in Seq(Receivers) /\ DOMAIN <<>> = {}
  OBVIOUS
<1> QED
  BY <1>1 DEF QueueInit, QueueTypeOK, ToSet, IsInjective

(* A batch of one peer's messages, at the end of the queue. *)
LEMMA PushType ==
  ASSUME QueueTypeOK, NEW p \in Peers, NEW n \in 1..RcvWnd, Push(p, n)
  PROVE  QueueTypeOK' /\ pending_data' # <<>>
<1> DEFINE batch == [i \in 1..n |-> p]
<1>1. batch \in Seq(Peers) /\ Len(batch) = n
  BY RcvWndPos
<1>2. pending_data' = pending_data \o batch
  BY DEF Push
<1> HIDE DEF batch
<1>3. pending_data' \in Seq(Peers) /\ Len(pending_data') = Len(pending_data) + n
  BY <1>1, <1>2, ConcatProperties DEF QueueTypeOK
<1>4. Len(pending_data') # 0
  BY <1>3, RcvWndPos, LenProperties DEF QueueTypeOK
<1> QED
  BY <1>3, <1>4, EmptySeq DEF QueueTypeOK, Push

LEMMA QueueTypeStep == QueueTypeOK /\ [QueueNext]_queueVars => QueueTypeOK'
<1> SUFFICES ASSUME QueueTypeOK, [QueueNext]_queueVars PROVE QueueTypeOK'
  OBVIOUS
<1> recv \in [Receivers -> Places]
  BY DEF QueueTypeOK, Places
<1>1. ASSUME NEW p \in Peers, NEW n \in 1..RcvWnd, Push(p, n) PROVE QueueTypeOK'
  BY <1>1, PushType
<1>2. CASE NotifyOne
  <2>1. NotifyWith(waiters, recv) /\ notify_due' = FALSE /\ pending_data' = pending_data
    BY <1>2 DEF NotifyOne
  <2> QED
    BY <2>1, NotifyKeepsTypes DEF QueueTypeOK, Places
<1>3. ASSUME NEW r \in Receivers, RecvCall(r) PROVE QueueTypeOK'
  BY <1>3 DEF RecvCall, QueueTypeOK
<1>4. ASSUME NEW r \in Receivers, RecvPop(r) PROVE QueueTypeOK'
  <2>1. CASE pending_data # <<>>
    <3>1. Tail(pending_data) \in Seq(Peers)
      BY <2>1, HeadTailProperties DEF QueueTypeOK
    <3> QED
      BY <1>4, <2>1, <3>1 DEF RecvPop, QueueTypeOK
  <2>2. CASE pending_data = <<>>
    BY <1>4, <2>2 DEF RecvPop, QueueTypeOK
  <2> QED
    BY <2>1, <2>2
<1>5. ASSUME NEW r \in Receivers, RecvPoll(r) PROVE QueueTypeOK'
  <2>1. CASE permit
    BY <1>5, <2>1 DEF RecvPoll, QueueTypeOK
  <2>2. CASE ~permit
    <3>1. r \notin ToSet(waiters)
      BY <1>5 DEF RecvPoll, QueueTypeOK
    <3>2. /\ Append(waiters, r) \in Seq(Receivers) /\ IsInjective(Append(waiters, r))
          /\ ToSet(Append(waiters, r)) = ToSet(waiters) \cup {r}
      BY <3>1, AppendToInjective DEF QueueTypeOK
    <3> QED
      BY <1>5, <2>2, <3>2 DEF RecvPoll, QueueTypeOK
  <2> QED
    BY <2>1, <2>2
<1>6. ASSUME NEW r \in Receivers, RecvWake(r) PROVE QueueTypeOK'
  BY <1>6 DEF RecvWake, QueueTypeOK
<1>7. ASSUME NEW r \in Receivers, RecvCancel(r) PROVE QueueTypeOK'
  <2>0. notify_due' = notify_due /\ pending_data' = pending_data
    BY <1>7 DEF RecvCancel
  <2>1. ASSUME recv[r] = "waiting", recv' = [recv EXCEPT ![r] = "idle"],
               NEW i \in DOMAIN waiters, waiters[i] = r, waiters' = RemoveAt(waiters, i),
               permit' = permit
        PROVE  QueueTypeOK'
    <3>1. /\ RemoveAt(waiters, i) \in Seq(Receivers) /\ IsInjective(RemoveAt(waiters, i))
          /\ ToSet(RemoveAt(waiters, i)) = ToSet(waiters) \ {r}
      BY <2>1, RemoveFromInjective DEF QueueTypeOK
    <3> QED
      BY <2>0, <2>1, <3>1 DEF QueueTypeOK
  <2>2. CASE recv[r] = "notified" /\ NotifyWith(waiters, [recv EXCEPT ![r] = "idle"])
    <3> DEFINE rc == [recv EXCEPT ![r] = "idle"]
    <3>1. /\ rc \in [Receivers -> Places]
          /\ \A q \in Receivers : rc[q] = "waiting" <=> q \in ToSet(waiters)
      BY <2>2 DEF QueueTypeOK, Places
    <3>2. NotifyWith(waiters, rc)
      BY <2>2
    <3> HIDE DEF rc
    <3> QED
      BY <2>0, <3>1, <3>2, NotifyKeepsTypes DEF QueueTypeOK, Places
  <2> QED
    BY <1>7, <2>1, <2>2 DEF RecvCancel
<1>8. CASE UNCHANGED queueVars
  BY <1>8 DEF queueVars, QueueTypeOK
<1> QED
  BY <1>1, <1>2, <1>3, <1>4, <1>5, <1>6, <1>7, <1>8 DEF QueueNext, RecvStep

(* transport.rs:343-361 recv, 635-646 handle_incoming: the receivers the   *)
(* Notify has enrolled are at every moment exactly those asleep, once      *)
(* each, for any number of receivers, however they are cancelled.          *)
THEOREM WaitersAreEnrolled == QueueSpec => []QueueTypeOK
<1> QED
  BY QueueTypeInit, QueueTypeStep, PTL DEF QueueSpec

-----------------------------------------------------------------------------
(* The wakeups of a sole receiver. *)

LEMMA SoleReceiverStep ==
  QueueTypeOK /\ SoleReceiverMissesNothing /\ [QueueNext]_queueVars
      => SoleReceiverMissesNothing'
<1> SUFFICES ASSUME QueueTypeOK, SoleReceiverMissesNothing, [QueueNext]_queueVars,
                    NEW r \in Receivers, Receivers = {r}, pending_data' # <<>>, ~notify_due'
             PROVE  recv'[r] # "waiting" /\ (recv'[r] = "select" => permit')
  BY DEF SoleReceiverMissesNothing
<1> USE DEF QueueTypeOK
(* Until this step the receiver was awake, or there was nothing to pop. *)
<1>0. (pending_data # <<>> /\ ~notify_due) => recv[r] # "waiting" /\ (recv[r] = "select" => permit)
  BY DEF SoleReceiverMissesNothing
<1>1. ASSUME NEW p \in Peers, NEW n \in 1..RcvWnd, Push(p, n) PROVE FALSE
  BY <1>1 DEF Push
<1>2. CASE NotifyOne
  <2>1. CASE waiters = <<>>
    <3>1. r \notin ToSet(waiters)
      BY <2>1 DEF ToSet
    <3> QED
      BY <1>2, <2>1, <3>1 DEF NotifyOne, NotifyWith
  <2>2. CASE waiters # <<>>
    <3>1. Head(waiters) = r
      BY <2>2, HeadTailProperties
    <3> QED
      BY <1>2, <2>2, <3>1 DEF NotifyOne, NotifyWith
  <2> QED
    BY <2>1, <2>2
<1>3. CASE RecvCall(r)
  BY <1>3 DEF RecvCall
<1>4. CASE RecvPop(r)
  BY <1>4 DEF RecvPop
<1>5. CASE RecvPoll(r)
  BY <1>0, <1>5 DEF RecvPoll
<1>6. CASE RecvWake(r)
  BY <1>6 DEF RecvWake
<1>7. CASE RecvCancel(r)
  <2>1. CASE recv[r] = "waiting" /\ recv' = [recv EXCEPT ![r] = "idle"]
    BY <2>1
  <2>2. CASE recv[r] = "notified" /\ NotifyWith(waiters, [recv EXCEPT ![r] = "idle"])
    <3>1. r \notin ToSet(waiters)
      BY <2>2
    <3>2. waiters = <<>>
      BY <3>1, HeadTailProperties, LenProperties, EmptySeq DEF ToSet
    <3> QED
      BY <2>2, <3>2 DEF NotifyWith
  <2> QED
    BY <1>7, <2>1, <2>2 DEF RecvCancel
<1>8. CASE UNCHANGED queueVars
  BY <1>0, <1>8 DEF queueVars
<1> QED
  BY <1>1, <1>2, <1>3, <1>4, <1>5, <1>6, <1>7, <1>8 DEF QueueNext, RecvStep

(* transport.rs:645: one notification per batch is enough for one          *)
(* receiver.  It never sleeps next to data that was announced, whatever    *)
(* the order of push, notification, poll and cancellation, and whatever    *)
(* the size of the batches.                                                *)
THEOREM SoleReceiverIsSafe == QueueSpec => []SoleReceiverMissesNothing
<1>1. QueueInit => SoleReceiverMissesNothing
  BY DEF QueueInit, SoleReceiverMissesNothing
<1> QED
  BY <1>1, WaitersAreEnrolled, SoleReceiverStep, PTL DEF QueueSpec

=============================================================================
