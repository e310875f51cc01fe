---------------------------- MODULE SynTimerProofs ---------------------------
(***************************************************************************)
(* Proofs about SynTimer, for any intervals, timeout, number of retries,   *)
(* lateness and clock jumps.                                               *)
(***************************************************************************)
EXTENDS SynTimer, Induction

-----------------------------------------------------------------------------
(* The shift is what its definition says: a recursive function is a        *)
(* choice, and here is what it chooses from.                               *)

IsShift(g, n) ==
    g \in [0..n -> Nat] /\ g[0] = 1 /\ \A i \in 1..n : g[i] = 2 * g[i - 1]

LEMMA ShiftExists == \A n \in Nat : \E g : IsShift(g, n)
<1> DEFINE T == {n \in Nat : \E g : IsShift(g, n)}
<1>1. 0 \in T
  <2>1. IsShift([i \in 0..0 |-> 1], 0)
    BY DEF IsShift
  <2> QED
    BY <2>1
<1>2. ASSUME NEW n \in Nat, n \in T PROVE n + 1 \in T
  <2>1. PICK g : IsShift(g, n)
    BY <1>2
  <2> DEFINE h == [i \in 0..(n + 1) |-> IF i = n + 1 THEN 2 * g[n] ELSE g[i]]
  <2>2. g[n] \in Nat
    BY <2>1 DEF IsShift
  <2>3. h \in [0..(n + 1) -> Nat]
    BY <2>1, <2>2 DEF IsShift
  <2>4. h[0] = 1
    BY <2>1 DEF IsShift
  <2>5. ASSUME NEW i \in 1..(n + 1) PROVE h[i] = 2 * h[i - 1]
    BY <2>1 DEF IsShift
  <2> HIDE DEF h
  <2>6. IsShift(h, n + 1)
    BY <2>3, <2>4, <2>5 DEF IsShift
  <2> QED
    BY <2>6
<1> HIDE DEF T
<1>3. Nat \subseteq T
  BY <1>1, <1>2, SetInduction
<1> QED
  BY <1>3 DEF T

LEMMA ShiftUnique ==
  ASSUME NEW n \in Nat, NEW m \in Nat, n <= m, NEW g, NEW h, IsShift(g, n), IsShift(h, m)
  PROVE  \A i \in 0..n : g[i] = h[i]
<1> DEFINE T == {i \in Nat : i <= n => g[i] = h[i]}
<1>1. 0 \in T
  BY DEF IsShift
<1>2. ASSUME NEW i \in Nat, i \in T PROVE i + 1 \in T
  <2> SUFFICES ASSUME i + 1 <= n PROVE g[i + 1] = h[i + 1]
    OBVIOUS
  <2>1. g[i] = h[i]
    BY <1>2
  <2>2. i + 1 \in 1..n /\ i + 1 \in 1..m /\ (i + 1) - 1 = i
    OBVIOUS
  <2> QED
    BY <2>1, <2>2 DEF IsShift
<1> HIDE DEF T
<1>3. Nat \subseteq T
  BY <1>1, <1>2, SetInduction
<1> QED
  BY <1>3 DEF T

(* session.rs:311: shifting by one more doubles, and never gives zero. *)
LEMMA ShiftDoubles ==
  /\ Shift[0] = 1
  /\ \A n \in Nat : Shift[n] \in Nat \ {0} /\ Shift[n + 1] = 2 * Shift[n]
<1> DEFINE G(n) == CHOOSE g : IsShift(g, n)
           f == [n \in Nat |-> G(n)[n]]
<1>1. \A n \in Nat : IsShift(G(n), n)
  BY ShiftExists
<1> HIDE DEF G
<1>2. ASSUME NEW n \in Nat PROVE f[n] = IF n = 0 THEN 1 ELSE 2 * f[n - 1]
  <2>1. CASE n = 0
    BY <1>1, <2>1 DEF IsShift
  <2>2. CASE n # 0
    <3>1. n - 1 \in Nat /\ n - 1 <= n /\ n - 1 \in 0..(n - 1)
      BY <2>2
    <3>2. G(n)[n - 1] = G(n - 1)[n - 1]
      BY <1>1, <3>1, ShiftUnique
    <3>3. G(n)[n] = 2 * G(n)[n - 1]
      BY <1>1, <2>2 DEF IsShift
    <3> QED
      BY <2>2, <3>1, <3>2, <3>3
  <2> QED
    BY <2>1, <2>2
<1>3. f = [n \in Nat |-> f[n]]
  OBVIOUS
<1> HIDE DEF f
<1>4. f = [n \in Nat |-> IF n = 0 THEN 1 ELSE 2 * f[n - 1]]
  BY <1>2, <1>3
<1>5. Shift = [n \in Nat |-> IF n = 0 THEN 1 ELSE 2 * Shift[n - 1]]
  <2>1. \E g : g = [n \in Nat |-> IF n = 0 THEN 1 ELSE 2 * g[n - 1]]
    BY <1>4
  <2> QED
    BY <2>1, Zenon DEF Shift
<1>6. Shift[0] = 1
  BY <1>5
<1>7. \A n \in Nat : Shift[n + 1] = 2 * Shift[n]
  BY <1>5
<1> DEFINE T == {n \in Nat : Shift[n] \in Nat \ {0}}
<1>8. 0 \in T
  BY <1>6
<1>9. \A n \in Nat : n \in T => n + 1 \in T
  BY <1>7
<1> HIDE DEF T
<1>10. Nat \subseteq T
  BY <1>8, <1>9, SetInduction
<1> QED
  BY <1>6, <1>7, <1>10 DEF T

-----------------------------------------------------------------------------
(* The schedule. *)

(* What the first k retries wait for together, and with a visit of the     *)
(* update task for each.                                                   *)
Before(k) == SynRetryInterval * (Shift[k] - 1)
Deadline(k) == Before(k) + k * Latency

LEMMA LatencyNat == Latency \in Nat /\ Latency = TickInterval + MaxLate + MaxLate
  BY Durations DEF Latency

LEMMA BackoffFacts ==
  ASSUME NEW k \in Nat
  PROVE  /\ Backoff(k) \in Nat \ {0} /\ Before(k) \in Nat
         /\ Before(0) = 0 /\ Before(k + 1) = Before(k) + Backoff(k)
<1>1. Shift[k] \in Nat \ {0} /\ Shift[k + 1] = 2 * Shift[k] /\ Shift[0] = 1
  BY ShiftDoubles
<1>2. SynRetryInterval \in Nat \ {0}
  BY Durations
<1> DEFINE s == Shift[k]
           i == SynRetryInterval
<1>3. s \in Nat \ {0} /\ i \in Nat \ {0}
  BY <1>1, <1>2
<1>4. Backoff(k) = i * s /\ Before(k) = i * (s - 1) /\ Before(k + 1) = i * (2 * s - 1)
  BY <1>1 DEF Backoff, Before
<1>5. Before(0) = 0
  BY <1>1, <1>2 DEF Before
<1> HIDE DEF s, i
<1>6. i * s \in Nat \ {0} /\ i * (s - 1) \in Nat /\ i * (2 * s - 1) = i * (s - 1) + i * s
  BY <1>3
<1> QED
  BY <1>4, <1>5, <1>6

LEMMA DeadlineFacts ==
  ASSUME NEW k \in Nat
  PROVE  /\ Deadline(k) \in Nat /\ Deadline(0) = 0
         /\ Deadline(k + 1) = Deadline(k) + Backoff(k) + Latency
<1>1. /\ Backoff(k) \in Nat /\ Before(k) \in Nat /\ Before(0) = 0
      /\ Before(k + 1) = Before(k) + Backoff(k) /\ Latency \in Nat
  BY BackoffFacts, LatencyNat
<1> HIDE DEF Before, Backoff, Latency
<1>2. k * Latency \in Nat /\ 0 * Latency = 0 /\ (k + 1) * Latency = k * Latency + Latency
  BY <1>1
<1> QED
  BY <1>1, <1>2 DEF Deadline

LEMMA DeadlineGrows == \A k, m \in Nat : k <= m => Deadline(k) <= Deadline(m)
<1> DEFINE T == {m \in Nat : \A k \in Nat : k <= m => Deadline(k) <= Deadline(m)}
<1>1. \A k \in Nat : /\ Deadline(k) \in Nat
                     /\ Backoff(k) \in Nat /\ Latency \in Nat
                     /\ Deadline(k + 1) = Deadline(k) + Backoff(k) + Latency
  BY DeadlineFacts, BackoffFacts, LatencyNat
<1>2. 0 \in T
  BY <1>1
<1>3. ASSUME NEW m \in Nat, m \in T PROVE m + 1 \in T
  <2> SUFFICES ASSUME NEW k \in Nat, k <= m + 1 PROVE Deadline(k) <= Deadline(m + 1)
    OBVIOUS
  <2>1. CASE k = m + 1
    BY <1>1, <2>1
  <2>2. CASE k <= m
    <3>1. Deadline(k) <= Deadline(m)
      BY <1>3, <2>2
    <3> QED
      BY <1>1, <3>1
  <2> QED
    BY <2>1, <2>2
<1> HIDE DEF T
<1>4. Nat \subseteq T
  BY <1>2, <1>3, SetInduction
<1> QED
  BY <1>4 DEF T

-----------------------------------------------------------------------------
(* The inductive invariant. *)

(* A reading of the wall clock taken at true time t, whatever the clock    *)
(* has been set since.                                                     *)
Stored(r, t) == t + 1000 - history.back <= r /\ r <= t + 1000 + history.fwd

ClockInv == wall = 1000 + now + history.fwd - history.back

(* The update task is never later than its scheduler allows, and carries   *)
(* a reading of the clock from the tick to the end of the visit.           *)
Visiting == up.pc \in {"visit", "retry"}

TaskInv ==
    /\ next_tick <= now + TickInterval
    /\ (up.pc = "wait" /\ (session # None \/ history.born = None))
          => now <= next_tick + MaxLate
    /\ up.pc # "wait" => up.since <= now /\ now <= up.since + MaxLate
    /\ Visiting => /\ up.since < next_tick /\ next_tick <= up.since + TickInterval
                   /\ Stored(up.now_epoch, up.since)

(* The times the session stores are the times things happened. *)
StampInv ==
    session # None =>
        /\ history.born \in Nat
        /\ history.born <= now /\ history.heard <= now /\ history.syn <= now
        /\ Stored(session.last_rx, history.heard)
        /\ Stored(session.syn_sent_at, history.syn)
        /\ session.unsent => now <= history.born + MaxLate

(* A retry that is about to be sent was due by the time of the last SYN,   *)
(* or that was the first one, sent since.                                  *)
RetryInv ==
    up.pc = "retry" =>
        \/ up.now_epoch - session.syn_sent_at >= Backoff(session.syn_retries)
        \/ ~session.unsent /\ history.syn >= up.since

SynSent == session # None /\ session.state = "SynSent"

Age == now - history.born

(* From below: k retries have had their time, and the time since the last  *)
(* SYN comes on top.                                                       *)
EarlyInv ==
    SynSent =>
        /\ Age + Set >= Before(session.syn_retries)
        /\ Age + Set >= Before(session.syn_retries) + wall - session.syn_sent_at
        /\ up.pc = "visit" =>
              /\ Age + Set >= Before(session.syn_retries) + up.now_epoch - wall
              /\ (up.now_epoch - session.syn_sent_at >= Backoff(session.syn_retries))
                    => Age + Set >= Before(session.syn_retries + 1)
        /\ up.pc = "retry" => Age + Set >= Before(session.syn_retries + 1)

(* From above: a session that is silent too long is seen to be. *)
SilenceInv ==
    session # None =>
        LET limit == history.heard + SessionTimeout + history.back + TickInterval
        IN  /\ up.pc = "wait" => next_tick <= limit
            /\ Visiting =>
                  /\ up.since <= limit + MaxLate
                  /\ \/ history.heard >= up.since
                     \/ up.now_epoch - session.last_rx + history.back
                            >= up.since - history.heard
            /\ up.pc = "prune" => up.since <= limit + MaxLate + MaxLate

(* By when the retry that has syn_retries before it is due. *)
DueBy ==
    history.born + Deadline(session.syn_retries) + MaxLate + history.back
      + (IF session.syn_retries < SynMaxRetries THEN Backoff(session.syn_retries) ELSE 0)

(* From above: the retries are made when they are due. *)
LateInv ==
    SynSent =>
        /\ session.syn_sent_at <=
              history.born + Deadline(session.syn_retries) + MaxLate + 1000 + history.fwd
        /\ up.pc = "wait" => next_tick <= DueBy + TickInterval
        /\ Visiting => up.since <= DueBy + TickInterval + MaxLate
        /\ (/\ up.pc = "visit" /\ session.syn_retries < SynMaxRetries
            /\ up.now_epoch - session.syn_sent_at < Backoff(session.syn_retries))
              => up.since <= DueBy
        /\ up.pc = "prune" => up.since <= DueBy + Latency

Inv ==
    /\ TypeOK /\ ClockInv /\ TaskInv /\ StampInv /\ RetryInv
    /\ EarlyInv /\ SilenceInv /\ LateInv

-----------------------------------------------------------------------------
(* The steps. *)

LEMMA TickIsNext ==
  ASSUME NEW n \in Nat, NEW t \in Nat, n >= t
  PROVE  LET r == n + TickInterval - ((n - t) % TickInterval)
         IN  r \in Nat /\ n < r /\ r <= n + TickInterval
<1>1. TickInterval \in Nat \ {0} /\ n - t \in Nat
  BY Durations
<1>2. (n - t) % TickInterval \in 0..(TickInterval - 1)
  BY <1>1
<1> QED
  BY <1>1, <1>2

LEMMA InitInv == Init => Inv
  BY Durations, NoneIsOther
     DEF Init, Inv, TypeOK, Histories, ClockInv, TaskInv, StampInv, RetryInv, EarlyInv,
         SilenceInv, LateInv, Visiting,
         SynSent, Waiting

LEMMA TypeStep == TypeOK /\ [Next]_vars => TypeOK'
<1> SUFFICES ASSUME TypeOK, [Next]_vars PROVE TypeOK'
  OBVIOUS
<1> USE Durations DEF TypeOK
<1>0. ASSUME session' \in Sessions PROVE session' # None
  BY <1>0, NoneIsOther
<1>1. CASE NewOutbound
  <2>1. session' \in Sessions
    BY <1>1 DEF NewOutbound, Sessions
  <2>2. history' \in Histories
    <3>1. now \in Nat
      OBVIOUS
    <3> QED
      BY <1>1, <3>1, Zenon DEF NewOutbound, Histories
  <2> QED
    BY <1>0, <1>1, <2>1, <2>2 DEF NewOutbound
<1>2. ASSUME NEW ok \in BOOLEAN, SendSyn(ok) PROVE TypeOK'
  <2>1. session' \in Sessions
    BY <1>2 DEF SendSyn, Sessions
  <2>2. history' \in Histories
    BY <1>2 DEF SendSyn, Histories
  <2> QED
    BY <1>0, <1>2, <2>1, <2>2 DEF SendSyn
<1>3. CASE RxAlive
  <2>1. session' \in Sessions
    BY <1>3 DEF RxAlive, Sessions
  <2>2. history' \in Histories
    <3>1. history.arrivals + 1 \in Nat /\ now \in Nat
      BY DEF Histories
    <3> QED
      BY <1>3, <3>1, Zenon DEF RxAlive, Histories
  <2> QED
    BY <1>0, <1>3, <2>1, <2>2 DEF RxAlive
<1>4. CASE RxSynAck
  <2>1. session' \in Sessions
    BY <1>4 DEF RxSynAck, Sessions
  <2>2. history' \in Histories
    BY <1>4 DEF RxSynAck, Histories
  <2> QED
    BY <1>0, <1>4, <2>1, <2>2 DEF RxSynAck
<1>5. ASSUME NEW others \in BOOLEAN, Tick(others) PROVE TypeOK'
  <2>1. next_tick' \in Nat
    BY <1>5, TickIsNext DEF Tick
  <2> QED
    BY <1>5, <2>1 DEF Tick
<1>6. CASE VisitRetry
  <2>1. session' \in Sessions
    <3>1. session \in Sessions /\ session.syn_retries + 1 \in 0..SynMaxRetries
      BY <1>6 DEF VisitRetry, Sessions
    <3>2. session' = [session EXCEPT !.syn_retries = session.syn_retries + 1, !.syn_sent_at = wall]
      BY <1>6 DEF VisitRetry, CheckIdle
    <3> QED
      BY <3>1, <3>2 DEF Sessions
  <2>2. history' \in Histories
    BY <1>6 DEF VisitRetry, Histories
  <2> QED
    BY <1>0, <1>6, <2>1, <2>2 DEF VisitRetry, CheckIdle, Condemn, Waiting
<1>7. CASE VisitExhausted
  BY <1>7 DEF VisitExhausted, Condemn
<1>8. CASE VisitOther
  BY <1>8 DEF VisitOther, CheckIdle, Condemn, Waiting
<1>14. CASE VisitDeadLink
  BY <1>14 DEF VisitDeadLink, Condemn
<1>15. CASE VisitDue
  BY <1>15 DEF VisitDue
<1>9. CASE VisitOthersOnly
  BY <1>9 DEF VisitOthersOnly, Waiting
<1>10. CASE Prune
  BY <1>10 DEF Prune, Waiting
<1>11. CASE Advance
  BY <1>11 DEF Advance
<1>12. ASSUME NEW d \in {JumpBy, -JumpBy}, Jump(d) PROVE TypeOK'
  <2>1. d \in Int /\ SaturatingSub(d, 0) \in Nat /\ SaturatingSub(0, d) \in Nat
    BY DEF SaturatingSub
  <2>2. history' \in Histories
    <3>1. /\ history.jumps + 1 \in Nat
          /\ history.fwd + SaturatingSub(d, 0) \in Nat
          /\ history.back + SaturatingSub(0, d) \in Nat
      BY <2>1 DEF Histories
    <3> QED
      BY <1>12, <3>1, Zenon DEF Jump, Histories
  <2> QED
    BY <1>12, <2>1, <2>2 DEF Jump
<1>13. CASE Over \/ UNCHANGED vars
  BY <1>13 DEF Over, vars
<1> QED
  BY <1>1, <1>2, <1>3, <1>4, <1>5, <1>6, <1>7, <1>8, <1>9, <1>10, <1>11, <1>12, <1>13,
     <1>14, <1>15 DEF Next

(* The types the arithmetic needs. *)
LEMMA Fields ==
  ASSUME TypeOK
  PROVE  /\ now \in Nat /\ wall \in Int /\ next_tick \in Nat
         /\ up.pc \in {"wait", "visit", "retry", "prune"} /\ up.now_epoch \in Int /\ up.since \in Nat
         /\ history.born \in Nat \cup {None} /\ history.heard \in Nat /\ history.syn \in Nat
         /\ history.fwd \in Nat /\ history.back \in Nat
         /\ session # None =>
               /\ session.state \in {"SynSent", "Established"} /\ session.unsent \in BOOLEAN
               /\ session.last_rx \in Int /\ session.syn_sent_at \in Int
               /\ session.syn_retries \in Nat /\ session.syn_retries <= SynMaxRetries
               /\ Backoff(session.syn_retries) \in Nat \ {0}
               /\ Before(session.syn_retries) \in Nat
               /\ Before(session.syn_retries + 1)
                     = Before(session.syn_retries) + Backoff(session.syn_retries)
               /\ Deadline(session.syn_retries) \in Nat
               /\ Deadline(session.syn_retries + 1)
                     = Deadline(session.syn_retries) + Backoff(session.syn_retries) + Latency
<1>1. history \in Histories /\ (session # None => session \in Sessions)
  BY DEF TypeOK
<1>2. /\ history.born \in Nat \cup {None} /\ history.heard \in Nat /\ history.syn \in Nat
      /\ history.fwd \in Nat /\ history.back \in Nat
  BY <1>1 DEF Histories
<1>3. session # None =>
        /\ session.state \in {"SynSent", "Established"} /\ session.unsent \in BOOLEAN
        /\ session.last_rx \in Int /\ session.syn_sent_at \in Int
        /\ session.syn_retries \in Nat /\ session.syn_retries <= SynMaxRetries
  BY <1>1, Durations DEF Sessions
<1>4. /\ now \in Nat /\ wall \in Int /\ next_tick \in Nat
      /\ up.pc \in {"wait", "visit", "retry", "prune"} /\ up.now_epoch \in Int /\ up.since \in Nat
  BY Durations DEF TypeOK
<1> QED
  BY <1>2, <1>3, <1>4, BackoffFacts, DeadlineFacts

(* What the invariant says besides the types. *)
Timing ==
    /\ ClockInv /\ TaskInv /\ StampInv /\ RetryInv
    /\ EarlyInv /\ SilenceInv /\ LateInv

LEMMA NewOutboundStep ==
  ASSUME Inv, TypeOK', NewOutbound PROVE Timing'
<1>1. TypeOK /\ Timing
  BY DEF Inv, Timing
<1>2. /\ session = None /\ history.born = None
      /\ session'.state = "SynSent" /\ session'.last_rx = wall /\ session'.syn_sent_at = wall
      /\ session'.syn_retries = 0 /\ session'.unsent = TRUE
      /\ UNCHANGED <<now, wall, next_tick, up>>
  BY DEF NewOutbound
<1>3. /\ history'.born = now /\ history'.heard = now /\ history'.syn = now
      /\ history'.fwd = history.fwd /\ history'.back = history.back
  BY <1>1 DEF NewOutbound, TypeOK, Histories
<1>4. up.pc \notin {"retry", "prune"}
  BY <1>1, <1>2 DEF TypeOK
<1>5. /\ Before(0) = 0 /\ Deadline(0) = 0 /\ Backoff(0) \in Nat \ {0} /\ Before(1) = Backoff(0)
      /\ 0 + 1 = 1
  BY BackoffFacts, DeadlineFacts
<1> USE Durations, Fields DEF Timing
<1>6. ClockInv'
  BY <1>1, <1>2, <1>3, <1>4, <1>5 DEF ClockInv
<1>7. TaskInv'
  BY <1>1, <1>2, <1>3, <1>4, <1>5 DEF Visiting, TaskInv, Stored
<1>8. StampInv'
  BY <1>1, <1>2, <1>3, <1>4, <1>5 DEF StampInv, Stored, ClockInv
<1>9. EarlyInv'
  <2>1. up'.pc # "retry"
    BY <1>2, <1>4
  <2>2. Age' = 0 /\ Set' = Set /\ Set \in Nat /\ wall' = session'.syn_sent_at
    BY <1>1, <1>2, <1>3 DEF Age, Set
  <2>3. up.pc = "visit" => up.now_epoch - wall <= Set
    BY <1>1 DEF TaskInv, Visiting, Stored, ClockInv, Set
  <2> HIDE DEF Set, Age
  <2> QED
    BY <1>1, <1>2, <1>5, <2>1, <2>2, <2>3 DEF EarlyInv
<1>10. SilenceInv'
  BY <1>1, <1>2, <1>3, <1>4, <1>5 DEF Visiting, SilenceInv, TaskInv
<1>11. LateInv'
  BY <1>1, <1>2, <1>3, <1>4, <1>5 DEF Visiting, LateInv, StampInv, SynSent, DueBy, ClockInv, TaskInv, Stored
<1>12. RetryInv'
  BY <1>1, <1>2, <1>3, <1>4, <1>5 DEF RetryInv, TypeOK
<1> QED
  BY <1>6, <1>7, <1>8, <1>9, <1>10, <1>11, <1>12

LEMMA SendSynStep ==
  ASSUME Inv, TypeOK', NEW ok \in BOOLEAN, SendSyn(ok) PROVE Timing'
<1>1. TypeOK /\ Timing
  BY DEF Inv, Timing
<1>2. /\ session # None /\ session.unsent /\ session'.unsent = FALSE
      /\ session'.state = session.state /\ session'.last_rx = session.last_rx
      /\ session'.syn_sent_at = IF ok THEN wall ELSE session.syn_sent_at
      /\ session'.syn_retries = session.syn_retries
      /\ UNCHANGED <<now, wall, next_tick, up>>
  BY <1>1 DEF SendSyn, TypeOK, Sessions
<1>3. /\ history'.born = history.born /\ history'.heard = history.heard
      /\ history'.syn = IF ok THEN now ELSE history.syn
      /\ history'.fwd = history.fwd /\ history'.back = history.back
  BY <1>1 DEF SendSyn, TypeOK, Histories
<1> USE Durations, Fields DEF Timing
<1>4. ClockInv'
  BY <1>1, <1>2, <1>3 DEF ClockInv
<1>5. TaskInv'
  BY <1>1, <1>2, <1>3 DEF Visiting, TaskInv, Stored
<1>6. StampInv'
  BY <1>1, <1>2, <1>3 DEF StampInv, Stored, ClockInv
<1>7. EarlyInv'
  BY <1>1, <1>2, <1>3 DEF EarlyInv, StampInv, SynSent, Age, Set
<1>8. SilenceInv'
  BY <1>1, <1>2, <1>3 DEF Visiting, SilenceInv
<1>9. LateInv'
  BY <1>1, <1>2, <1>3 DEF Visiting, LateInv, StampInv, SynSent, DueBy, ClockInv, TaskInv
<1>10. RetryInv'
  BY <1>1, <1>2, <1>3 DEF RetryInv, TaskInv
<1> QED
  BY <1>4, <1>5, <1>6, <1>7, <1>8, <1>9, <1>10

LEMMA RxAliveStep ==
  ASSUME Inv, TypeOK', RxAlive PROVE Timing'
<1>1. TypeOK /\ Timing
  BY DEF Inv, Timing
<1>2. /\ session # None /\ session'.unsent = session.unsent
      /\ session'.state = session.state /\ session'.last_rx = wall
      /\ session'.syn_sent_at = session.syn_sent_at
      /\ session'.syn_retries = session.syn_retries
      /\ UNCHANGED <<now, wall, next_tick, up>>
  BY <1>1 DEF RxAlive, TypeOK, Sessions
<1>3. /\ history'.born = history.born /\ history'.heard = now /\ history'.syn = history.syn
      /\ history'.fwd = history.fwd /\ history'.back = history.back
  BY <1>1 DEF RxAlive, TypeOK, Histories
<1> USE Durations, Fields DEF Timing
<1>4. ClockInv'
  BY <1>1, <1>2, <1>3 DEF ClockInv
<1>5. TaskInv'
  BY <1>1, <1>2, <1>3 DEF Visiting, TaskInv, Stored
<1>6. StampInv'
  BY <1>1, <1>2, <1>3 DEF StampInv, Stored, ClockInv
<1>7. EarlyInv'
  BY <1>1, <1>2, <1>3 DEF EarlyInv, StampInv, SynSent, Age, Set
<1>8. SilenceInv'
  BY <1>1, <1>2, <1>3 DEF Visiting, SilenceInv, TaskInv
<1>9. LateInv'
  BY <1>1, <1>2, <1>3 DEF Visiting, LateInv, StampInv, SynSent, DueBy
<1>10. RetryInv'
  BY <1>1, <1>2, <1>3 DEF RetryInv
<1> QED
  BY <1>4, <1>5, <1>6, <1>7, <1>8, <1>9, <1>10

LEMMA RxSynAckStep ==
  ASSUME Inv, TypeOK', RxSynAck PROVE Timing'
<1>1. TypeOK /\ Timing
  BY DEF Inv, Timing
<1>2. /\ session # None /\ session'.unsent = session.unsent
      /\ session'.state = "Established" /\ session'.last_rx = wall
      /\ session'.syn_sent_at = session.syn_sent_at
      /\ session'.syn_retries = session.syn_retries
      /\ UNCHANGED <<now, wall, next_tick, up>>
  BY <1>1 DEF RxSynAck, TypeOK, Sessions
<1>3. /\ history'.born = history.born /\ history'.heard = now /\ history'.syn = history.syn
      /\ history'.fwd = history.fwd /\ history'.back = history.back
  BY <1>1 DEF RxSynAck, TypeOK, Histories
<1> USE Durations, Fields DEF Timing
<1>4. ClockInv'
  BY <1>1, <1>2, <1>3 DEF ClockInv
<1>5. TaskInv'
  BY <1>1, <1>2, <1>3 DEF Visiting, TaskInv, Stored
<1>6. StampInv'
  BY <1>1, <1>2, <1>3 DEF StampInv, Stored, ClockInv
<1>7. EarlyInv'
  BY <1>1, <1>2, <1>3 DEF EarlyInv, StampInv, SynSent, Age, Set
<1>8. SilenceInv'
  BY <1>1, <1>2, <1>3 DEF Visiting, SilenceInv, TaskInv
<1>9. LateInv'
  BY <1>1, <1>2, <1>3 DEF Visiting, LateInv, StampInv, SynSent, DueBy
<1>10. RetryInv'
  BY <1>1, <1>2, <1>3 DEF RetryInv
<1> QED
  BY <1>4, <1>5, <1>6, <1>7, <1>8, <1>9, <1>10

LEMMA TickStep ==
  ASSUME Inv, TypeOK', NEW others \in BOOLEAN, Tick(others) PROVE Timing'
<1>1. TypeOK /\ Timing
  BY DEF Inv, Timing
<1>2. now < next_tick' /\ next_tick' <= now + TickInterval /\ next_tick' \in Nat
  BY <1>1, Fields, TickIsNext DEF Tick
<1>3. /\ up.pc = "wait" /\ now >= next_tick
      /\ \/ session = None /\ up' = up
         \/ up'.pc = "visit" /\ up'.now_epoch = wall /\ up'.since = now
      /\ UNCHANGED <<now, wall, session, history>>
  BY DEF Tick
<1> USE Durations, Fields DEF Timing
<1>4. ClockInv'
  BY <1>1, <1>2, <1>3 DEF ClockInv
<1>5. TaskInv'
  BY <1>1, <1>2, <1>3 DEF Visiting, TaskInv, Stored, ClockInv
<1>6. StampInv'
  BY <1>1, <1>2, <1>3 DEF StampInv, Stored
<1>7. EarlyInv'
  BY <1>1, <1>2, <1>3 DEF EarlyInv, StampInv, SynSent, Age, Set
<1>8. SilenceInv'
  BY <1>1, <1>2, <1>3 DEF Visiting, SilenceInv, ClockInv, TaskInv, StampInv, Stored
<1>9. LateInv'
  BY <1>1, <1>2, <1>3 DEF Visiting, LateInv, StampInv, SynSent, DueBy, ClockInv, TaskInv, Stored
<1>10. RetryInv'
  <2>1. up'.pc # "retry"
    BY <1>3
  <2> QED
    BY <2>1 DEF RetryInv
<1> QED
  BY <1>4, <1>5, <1>6, <1>7, <1>8, <1>9, <1>10

LEMMA VisitDueStep ==
  ASSUME Inv, TypeOK', VisitDue PROVE Timing'
<1>1. TypeOK /\ Timing
  BY DEF Inv, Timing
<1>2. /\ up.pc = "visit" /\ session # None /\ session.state = "SynSent"
      /\ UNCHANGED <<now, wall, next_tick, session, history>>
  BY DEF VisitDue
<1>3. /\ up'.pc = "retry" /\ up'.since = up.since /\ up'.now_epoch = up.now_epoch
  BY <1>1 DEF VisitDue, TypeOK
<1>4. up.now_epoch - session.syn_sent_at >= Backoff(session.syn_retries)
  BY <1>1, <1>2, Fields DEF VisitDue, Due, SaturatingSub
<1> USE Durations, Fields DEF Timing
<1>5. ClockInv'
  BY <1>1, <1>2, <1>3 DEF ClockInv
<1>6. TaskInv'
  BY <1>1, <1>2, <1>3 DEF TaskInv, Visiting, Stored
<1>7. StampInv'
  BY <1>1, <1>2, <1>3 DEF StampInv, Stored
<1>8. RetryInv'
  BY <1>1, <1>2, <1>3, <1>4 DEF RetryInv
<1>9. EarlyInv'
  BY <1>1, <1>2, <1>3, <1>4 DEF EarlyInv, StampInv, SynSent, Age, Set
<1>10. SilenceInv'
  BY <1>1, <1>2, <1>3 DEF SilenceInv, Visiting
<1>11. LateInv'
  BY <1>1, <1>2, <1>3 DEF LateInv, Visiting, StampInv, SynSent, DueBy
<1> QED
  BY <1>5, <1>6, <1>7, <1>8, <1>9, <1>10, <1>11

LEMMA VisitRetryStep ==
  ASSUME Inv, TypeOK', VisitRetry PROVE Timing'
<1>1. TypeOK /\ Timing
  BY DEF Inv, Timing
<1>2. /\ up.pc = "retry" /\ session # None /\ session.syn_retries < SynMaxRetries
      /\ UNCHANGED <<now, wall, next_tick>>
  BY <1>1 DEF VisitRetry, TypeOK
<1>3. /\ session'.unsent = session.unsent /\ session'.state = session.state
      /\ session'.last_rx = session.last_rx /\ session'.syn_sent_at = wall
      /\ session'.syn_retries = session.syn_retries + 1
  BY <1>1 DEF VisitRetry, CheckIdle, TypeOK, Sessions
<1>4. /\ \/ up'.pc = "prune" /\ up'.since = now
         \/ up'.pc = "wait" /\ up.now_epoch - session.last_rx <= SessionTimeout
  BY <1>1, <1>2, <1>3, Fields, Durations
     DEF VisitRetry, CheckIdle, Idle, SaturatingSub, Condemn, Waiting
<1>6. /\ history'.born = history.born /\ history'.heard = history.heard /\ history'.syn = now
      /\ history'.fwd = history.fwd /\ history'.back = history.back
  BY <1>1 DEF VisitRetry, TypeOK, Histories
<1>7. Backoff(session.syn_retries + 1) \in Nat /\ Latency = TickInterval + MaxLate + MaxLate
  BY <1>1, <1>2, Fields, BackoffFacts, LatencyNat
<1> USE Durations, Fields DEF Timing
<1>8. ClockInv'
  BY <1>1, <1>2, <1>3, <1>4, <1>6, <1>7 DEF ClockInv
<1>9. TaskInv'
  BY <1>1, <1>2, <1>3, <1>4, <1>6, <1>7 DEF Visiting, TaskInv, Stored
<1>10. StampInv'
  BY <1>1, <1>2, <1>3, <1>4, <1>6, <1>7 DEF StampInv, Stored, ClockInv
<1>11. EarlyInv'
  BY <1>1, <1>2, <1>3, <1>4, <1>6, <1>7 DEF EarlyInv, StampInv, SynSent, Age, Set
<1>12. SilenceInv'
  BY <1>1, <1>2, <1>3, <1>4, <1>6, <1>7 DEF Visiting, SilenceInv, TaskInv
<1>13. LateInv'
  BY <1>1, <1>2, <1>3, <1>4, <1>6, <1>7 DEF Visiting, LateInv, StampInv, SynSent, DueBy, ClockInv, TaskInv
<1>14. RetryInv'
  BY <1>1, <1>2, <1>3, <1>4, <1>6, <1>7 DEF RetryInv
<1> QED
  BY <1>8, <1>9, <1>10, <1>11, <1>12, <1>13, <1>14

LEMMA CondemnStep ==
  ASSUME Inv, TypeOK', VisitExhausted \/ VisitDeadLink PROVE Timing'
<1>1. TypeOK /\ Timing
  BY DEF Inv, Timing
<1>2. /\ up.pc = "visit" /\ session # None
      /\ up'.pc = "prune" /\ up'.since = now
      /\ UNCHANGED <<now, wall, next_tick, session, history>>
  BY DEF VisitExhausted, VisitDeadLink, Condemn
<1>3. Latency = TickInterval + MaxLate + MaxLate
  BY LatencyNat
<1> USE Durations, Fields DEF Timing
<1>4. ClockInv'
  BY <1>1, <1>2, <1>3 DEF ClockInv
<1>5. TaskInv'
  BY <1>1, <1>2, <1>3 DEF Visiting, TaskInv, Stored
<1>6. StampInv'
  BY <1>1, <1>2, <1>3 DEF StampInv, Stored
<1>7. EarlyInv'
  BY <1>1, <1>2, <1>3 DEF EarlyInv, StampInv, SynSent, Age, Set
<1>8. SilenceInv'
  BY <1>1, <1>2, <1>3 DEF Visiting, SilenceInv, TaskInv
<1>9. LateInv'
  BY <1>1, <1>2, <1>3 DEF Visiting, LateInv, StampInv, SynSent, DueBy, TaskInv
<1>10. RetryInv'
  BY <1>1, <1>2, <1>3 DEF RetryInv
<1> QED
  BY <1>4, <1>5, <1>6, <1>7, <1>8, <1>9, <1>10

LEMMA VisitOtherStep ==
  ASSUME Inv, TypeOK', VisitOther PROVE Timing'
<1>1. TypeOK /\ Timing
  BY DEF Inv, Timing
<1>2. /\ up.pc = "visit" /\ session # None /\ UNCHANGED <<now, wall, next_tick, session, history>>
  BY DEF VisitOther, CheckIdle
<1>3. /\ \/ up'.pc = "prune" /\ up'.since = now
         \/ up'.pc = "wait" /\ up.now_epoch - session.last_rx <= SessionTimeout
  BY <1>1, <1>2, Fields, Durations
     DEF VisitOther, CheckIdle, Idle, SaturatingSub, Condemn, Waiting
<1>4. session.state = "SynSent" =>
        /\ session.syn_retries < SynMaxRetries
        /\ up.now_epoch - session.syn_sent_at < Backoff(session.syn_retries)
  BY <1>1, <1>2, Fields DEF VisitOther, Due, SaturatingSub
<1>5. Latency = TickInterval + MaxLate + MaxLate
  BY LatencyNat
<1> USE Durations, Fields DEF Timing
<1>6. ClockInv'
  BY <1>1, <1>2, <1>3, <1>4, <1>5 DEF ClockInv
<1>7. TaskInv'
  BY <1>1, <1>2, <1>3, <1>4, <1>5 DEF Visiting, TaskInv, Stored
<1>8. StampInv'
  BY <1>1, <1>2, <1>3, <1>4, <1>5 DEF StampInv, Stored
<1>9. EarlyInv'
  BY <1>1, <1>2, <1>3, <1>4, <1>5 DEF EarlyInv, StampInv, SynSent, Age, Set
<1>10. SilenceInv'
  BY <1>1, <1>2, <1>3, <1>4, <1>5 DEF Visiting, SilenceInv, TaskInv
<1>11. LateInv'
  BY <1>1, <1>2, <1>3, <1>4, <1>5 DEF Visiting, LateInv, StampInv, SynSent, DueBy, TaskInv
<1>12. RetryInv'
  BY <1>1, <1>2, <1>3, <1>4, <1>5 DEF RetryInv
<1> QED
  BY <1>6, <1>7, <1>8, <1>9, <1>10, <1>11, <1>12

LEMMA NoSessionStep ==
  ASSUME Inv, TypeOK', VisitOthersOnly \/ Prune PROVE Timing'
<1>1. TypeOK /\ Timing
  BY DEF Inv, Timing
<1>2. /\ session' = None /\ up'.pc = "wait" /\ up.pc # "wait"
      /\ UNCHANGED <<now, wall, next_tick, history>>
  BY DEF VisitOthersOnly, Prune, Waiting
<1>3. up.pc = "visit" \/ history.born # None
  BY <1>1, NoneIsOther DEF VisitOthersOnly, Prune, TypeOK, Timing, StampInv
<1> USE Durations, Fields DEF Timing
<1>4. ClockInv'
  BY <1>1, <1>2, <1>3 DEF ClockInv
<1>5. TaskInv'
  BY <1>1, <1>2, <1>3 DEF Visiting, TaskInv, Stored
<1>6. StampInv'
  BY <1>1, <1>2, <1>3 DEF StampInv, Stored
<1>7. EarlyInv'
  BY <1>1, <1>2, <1>3 DEF EarlyInv, StampInv, SynSent, Age, Set
<1>8. SilenceInv'
  BY <1>1, <1>2, <1>3 DEF Visiting, SilenceInv
<1>9. LateInv'
  BY <1>1, <1>2, <1>3 DEF Visiting, LateInv, StampInv, SynSent, DueBy
<1>10. RetryInv'
  BY <1>1, <1>2, <1>3 DEF RetryInv
<1> QED
  BY <1>4, <1>5, <1>6, <1>7, <1>8, <1>9, <1>10

LEMMA AdvanceStep ==
  ASSUME Inv, TypeOK', Advance PROVE Timing'
<1>1. TypeOK /\ Timing
  BY DEF Inv, Timing
<1>2. /\ up.pc = "wait" => now < next_tick + MaxLate
      /\ up.pc # "wait" => now < up.since + MaxLate
      /\ (session # None /\ session.unsent) => now < history.born + MaxLate
      /\ now' = now + 1 /\ wall' = wall + 1
      /\ UNCHANGED <<next_tick, up, session, history>>
  BY DEF Advance
<1> USE Durations, Fields DEF Timing
<1>3. ClockInv'
  BY <1>1, <1>2 DEF ClockInv
<1>4. TaskInv'
  BY <1>1, <1>2 DEF Visiting, TaskInv, Stored
<1>5. StampInv'
  BY <1>1, <1>2 DEF StampInv, Stored
<1>6. EarlyInv'
  BY <1>1, <1>2 DEF EarlyInv, StampInv, SynSent, Age, Set
<1>7. SilenceInv'
  BY <1>1, <1>2 DEF Visiting, SilenceInv
<1>8. LateInv'
  BY <1>1, <1>2 DEF Visiting, LateInv, StampInv, SynSent, DueBy
<1>9. RetryInv'
  BY <1>1, <1>2 DEF RetryInv
<1> QED
  BY <1>3, <1>4, <1>5, <1>6, <1>7, <1>8, <1>9

LEMMA JumpStep ==
  ASSUME Inv, TypeOK', NEW d \in {JumpBy, -JumpBy}, Jump(d) PROVE Timing'
<1>1. TypeOK /\ Timing
  BY DEF Inv, Timing
<1>2. PICK f \in Nat, b \in Nat :
        /\ wall' = wall + f - b
        /\ history'.fwd = history.fwd + f /\ history'.back = history.back + b
  <2>1. SaturatingSub(d, 0) \in Nat /\ SaturatingSub(0, d) \in Nat
        /\ d = SaturatingSub(d, 0) - SaturatingSub(0, d)
    BY Durations DEF SaturatingSub
  <2>2. history'.fwd = history.fwd + SaturatingSub(d, 0)
        /\ history'.back = history.back + SaturatingSub(0, d)
    BY <1>1 DEF Jump, TypeOK, Histories
  <2> QED
    BY <1>1, <2>1, <2>2, Fields DEF Jump
<1>3. /\ history'.born = history.born /\ history'.heard = history.heard
      /\ history'.syn = history.syn /\ UNCHANGED <<now, next_tick, up, session>>
  BY <1>1 DEF Jump, TypeOK, Histories
<1>4. Latency \in Nat
  BY LatencyNat
<1> USE Durations, Fields DEF Timing
<1>5. ClockInv'
  BY <1>1, <1>2, <1>3, <1>4 DEF ClockInv
<1>6. TaskInv'
  BY <1>1, <1>2, <1>3, <1>4 DEF Visiting, TaskInv, Stored
<1>7. StampInv'
  BY <1>1, <1>2, <1>3, <1>4 DEF StampInv, Stored
<1>8. EarlyInv'
  BY <1>1, <1>2, <1>3, <1>4 DEF EarlyInv, StampInv, SynSent, Age, Set
<1>9. SilenceInv'
  BY <1>1, <1>2, <1>3, <1>4 DEF Visiting, SilenceInv
<1>10. LateInv'
  BY <1>1, <1>2, <1>3, <1>4 DEF Visiting, LateInv, StampInv, SynSent, DueBy
<1>11. RetryInv'
  BY <1>1, <1>2, <1>3, <1>4 DEF RetryInv
<1> QED
  BY <1>5, <1>6, <1>7, <1>8, <1>9, <1>10, <1>11

LEMMA StutterStep ==
  ASSUME Inv, TypeOK', UNCHANGED vars PROVE Timing'
<1>1. TypeOK /\ Timing
  BY DEF Inv, Timing
<1>2. UNCHANGED vars
  OBVIOUS
<1> USE Durations, Fields DEF Timing
<1>3. ClockInv'
  BY <1>1, <1>2 DEF ClockInv, vars
<1>4. TaskInv'
  BY <1>1, <1>2 DEF Visiting, TaskInv, Stored, vars
<1>5. StampInv'
  BY <1>1, <1>2 DEF StampInv, Stored, vars
<1>6. EarlyInv'
  BY <1>1, <1>2 DEF EarlyInv, StampInv, SynSent, Age, Set, vars
<1>7. SilenceInv'
  BY <1>1, <1>2 DEF Visiting, SilenceInv, vars
<1>8. LateInv'
  BY <1>1, <1>2 DEF Visiting, LateInv, StampInv, SynSent, DueBy, vars
<1>9. RetryInv'
  BY <1>1, <1>2 DEF RetryInv, vars
<1> QED
  BY <1>3, <1>4, <1>5, <1>6, <1>7, <1>8, <1>9

LEMMA InvStep == Inv /\ [Next]_vars => Inv'
<1> SUFFICES ASSUME Inv, [Next]_vars PROVE Inv'
  OBVIOUS
<1>1. TypeOK'
  BY TypeStep DEF Inv
<1>2. Timing'
  BY <1>1, NewOutboundStep, SendSynStep, RxAliveStep, RxSynAckStep, TickStep, VisitDueStep,
     VisitRetryStep, CondemnStep, VisitOtherStep, NoSessionStep, AdvanceStep, JumpStep, StutterStep
     DEF Next, Over
<1> QED
  BY <1>1, <1>2 DEF Inv, Timing

LEMMA Invariance == Spec => []Inv
  BY InitInv, InvStep, PTL DEF Spec

-----------------------------------------------------------------------------
(* The theorems. *)

(* The types of the clocks, the update task and the session: the fields at *)
(* session.rs:110-118, the locals at transport.rs:546-588; no count passes *)
(* syn_max_retries.                                                        *)
THEOREM TimersTyped == Spec => []TypeOK
<1>1. Inv => TypeOK
  BY DEF Inv
<1> QED
  BY <1>1, Invariance, PTL

(* transport.rs:577-588: a session that is silent longer than              *)
(* session_timeout is gone after the next visit of the update task.        *)
THEOREM SilenceNoticed == Spec => []SilenceIsNoticed
<1>1. Inv => SilenceIsNoticed
  BY Durations, Fields, LatencyNat
     DEF Inv, TaskInv, Visiting, StampInv, SilenceInv, SilenceIsNoticed
<1> QED
  BY <1>1, Invariance, PTL

(* session.rs:299-327: an unanswered handshake ends with its retries, each *)
(* at most one visit late.                                                 *)
THEOREM HandshakeIsOver == Spec => []HandshakeEnds
<1>1. Inv => HandshakeEnds
  <2> SUFFICES ASSUME Inv, SynSent
               PROVE  Age <= Schedule + (SynMaxRetries + 1) * Latency + 2 * MaxLate + history.back
    BY DEF HandshakeEnds, SynSent, Age
  <2> USE Durations
  <2> DEFINE k == session.syn_retries
             last == history.born + Deadline(SynMaxRetries) + MaxLate + history.back
  <2>1. TypeOK /\ TaskInv /\ StampInv /\ LateInv /\ session # None
    BY DEF Inv, SynSent
  <2>2. k \in Nat /\ k <= SynMaxRetries /\ history.born \in Nat
    BY <2>1, Fields DEF StampInv
  <2>3. DueBy <= last /\ DueBy \in Int /\ last \in Int
    <3>1. /\ Deadline(k) \in Nat /\ Backoff(k) \in Nat /\ Latency \in Nat
          /\ Deadline(k + 1) = Deadline(k) + Backoff(k) + Latency
          /\ Deadline(SynMaxRetries) \in Nat
      BY <2>2, DeadlineFacts, BackoffFacts, LatencyNat
    <3>2. k < SynMaxRetries => Deadline(k + 1) <= Deadline(SynMaxRetries)
      BY <2>2, DeadlineGrows
    <3>3. k = SynMaxRetries \/ k < SynMaxRetries
      BY <2>2
    <3> QED
      BY <2>1, <2>2, <3>1, <3>2, <3>3, Fields DEF DueBy
  <2>4. now <= DueBy + Latency + MaxLate
    BY <2>1, <2>3, Fields, LatencyNat DEF TaskInv, Visiting, LateInv
  <2>5. /\ Deadline(SynMaxRetries) = Schedule + SynMaxRetries * Latency
        /\ Deadline(SynMaxRetries) \in Nat
    BY DeadlineFacts DEF Deadline, Before, Schedule
  <2>6. /\ Schedule \in Nat /\ Latency \in Nat /\ SynMaxRetries * Latency \in Nat
        /\ (SynMaxRetries + 1) * Latency = SynMaxRetries * Latency + Latency
    <3>1. Schedule \in Nat /\ Latency \in Nat
      BY BackoffFacts, LatencyNat DEF Before, Schedule
    <3> HIDE DEF Latency, Schedule
    <3> QED
      BY <3>1
  <2> HIDE DEF k
  <2> QED
    BY <2>1, <2>2, <2>3, <2>4, <2>5, <2>6, Fields DEF Age
<1> QED
  BY <1>1, Invariance, PTL

(* The steps that condemn. *)
Condemns == VisitRetry \/ VisitOther \/ VisitExhausted \/ VisitDeadLink

LEMMA CondemnedBy ==
  ASSUME TypeOK, [Next]_vars, up.pc \in {"visit", "retry"}, up'.pc = "prune"
  PROVE  Condemns
<1>1. ~UNCHANGED up /\ up' # Waiting
  BY DEF Waiting
<1>2. (\A others \in BOOLEAN : ~Tick(others)) /\ ~VisitDue
  BY DEF Tick, VisitDue, TypeOK
<1>3. ~NewOutbound /\ (\A ok \in BOOLEAN : ~SendSyn(ok)) /\ ~RxAlive /\ ~RxSynAck
  BY <1>1, Zenon DEF NewOutbound, SendSyn, RxAlive, RxSynAck
<1>4. /\ ~VisitOthersOnly /\ ~Prune /\ ~Advance /\ ~Over /\ ~UNCHANGED vars
      /\ \A d \in {JumpBy, -JumpBy} : ~Jump(d)
  BY <1>1, Zenon DEF VisitOthersOnly, Prune, Advance, Jump, Over, vars
<1> QED
  BY <1>2, <1>3, <1>4, Zenon DEF Next, Condemns

(* A visit that condemns as idle has seen the silence. *)
LEMMA CondemnedAsIdle ==
  ASSUME Inv, [Next]_vars, Condemned("idle")
  PROVE  session # None /\ up.now_epoch - session.last_rx > SessionTimeout
<1>1. TypeOK
  BY DEF Inv
<1>2. ASSUME NEW s, session # None, s.last_rx = session.last_rx, CheckIdle(s)
      PROVE  up.now_epoch - session.last_rx > SessionTimeout
  <2>1. Idle(s)
    BY <1>2 DEF CheckIdle, Condemned, Waiting
  <2> QED
    BY <1>1, <1>2, <2>1, Fields, Durations DEF Idle, SaturatingSub
<1>3. CASE VisitRetry
  <2> DEFINE s == [session EXCEPT !.syn_retries = @ + 1, !.syn_sent_at = wall]
  <2>1. session # None /\ s.last_rx = session.last_rx /\ CheckIdle(s)
    BY <1>1, <1>3 DEF VisitRetry, TypeOK, Sessions
  <2> QED
    BY <1>2, <2>1
<1>4. CASE VisitOther
  <2>1. session # None /\ CheckIdle(session)
    BY <1>4 DEF VisitOther
  <2> QED
    BY <1>2, <2>1
<1>5. CASE VisitExhausted \/ VisitDeadLink
  BY <1>5 DEF VisitExhausted, VisitDeadLink, Condemn, Condemned
<1>6. Condemns
  BY <1>1, CondemnedBy DEF Condemned
<1> QED
  BY <1>3, <1>4, <1>5, <1>6 DEF Condemns

(* One that condemns for want of an answer has seen the retries exhausted. *)
LEMMA CondemnedUnanswered ==
  ASSUME Inv, [Next]_vars, Condemned("syn")
  PROVE  SynSent /\ session.syn_retries >= SynMaxRetries
<1>1. CASE VisitRetry \/ VisitOther
  BY <1>1 DEF VisitRetry, VisitOther, CheckIdle, Condemn, Waiting, Condemned
<1>2. CASE VisitDeadLink
  BY <1>2 DEF VisitDeadLink, Condemn, Condemned
<1>3. CASE VisitExhausted
  BY <1>3 DEF VisitExhausted, SynSent
<1> QED
  BY <1>1, <1>2, <1>3, CondemnedBy DEF Inv, Condemned, Condemns

(* session.rs:309-327: between a SYN and the next the backoff passes, or   *)
(* the first SYN was the one and went out during the visit.                *)
THEOREM RetriesAreSpaced == Spec => RetrySpacing
<1> DEFINE Spaced ==
      (session # None /\ session' # None /\ session'.syn_retries > session.syn_retries)
         => \/ now - history.syn + Set >= Backoff(session.syn_retries)
            \/ ~session.unsent /\ history.syn >= up.since
<1>1. Inv /\ [Next]_vars => [Spaced]_vars
  <2> SUFFICES ASSUME Inv, Next, session # None, session' # None,
                      session'.syn_retries > session.syn_retries
               PROVE  \/ now - history.syn + Set >= Backoff(session.syn_retries)
                      \/ ~session.unsent /\ history.syn >= up.since
    OBVIOUS
  <2>1. TypeOK /\ TaskInv /\ StampInv /\ RetryInv
    BY DEF Inv
  <2>2. VisitRetry
    <3>1. session \in Sessions /\ session.syn_retries \in Int
      BY <2>1, Durations DEF TypeOK, Sessions
    <3>2. session'.syn_retries # session.syn_retries
      BY <3>1
    <3>3. ~UNCHANGED session
      BY <3>2
    <3>4. (\A ok \in BOOLEAN : ~SendSyn(ok)) /\ ~RxAlive /\ ~RxSynAck
      <4>1. ASSUME NEW ok \in BOOLEAN, SendSyn(ok) PROVE FALSE
        BY <3>1, <3>2, <4>1, Zenon DEF SendSyn, Sessions
      <4>2. ASSUME RxAlive PROVE FALSE
        BY <3>1, <3>2, <4>2 DEF RxAlive, Sessions
      <4>3. ASSUME RxSynAck PROVE FALSE
        BY <3>1, <3>2, <4>3 DEF RxSynAck, Sessions
      <4> QED
        BY <4>1, <4>2, <4>3
    <3>5. /\ ~NewOutbound /\ (\A others \in BOOLEAN : ~Tick(others))
          /\ ~VisitDeadLink /\ ~VisitDue /\ ~VisitExhausted /\ ~VisitOther /\ ~VisitOthersOnly /\ ~Prune /\ ~Advance /\ ~Over
          /\ \A d \in {JumpBy, -JumpBy} : ~Jump(d)
      BY <3>3, Zenon DEF NewOutbound, Tick, VisitDeadLink, VisitDue, VisitExhausted, VisitOther, CheckIdle,
         VisitOthersOnly, Prune, Advance, Jump, Over, vars
    <3> QED
      BY <3>4, <3>5, Zenon DEF Next
  <2>3. up.pc = "retry"
    BY <2>2 DEF VisitRetry
  <2> QED
    BY <2>1, <2>3, Fields DEF RetryInv, TaskInv, Visiting, StampInv, Stored, Set
<1> QED
  BY <1>1, Invariance, PTL DEF Spec, RetrySpacing

(* transport.rs:577-584: only real silence condemns a session as idle. *)
THEOREM OnlySilenceEnds == Spec => SilenceIsReal
<1> DEFINE Real == Condemned("idle") => now - history.heard + Set > SessionTimeout
<1>1. Inv /\ [Next]_vars => [Real]_vars
  <2> SUFFICES ASSUME Inv, [Next]_vars, Condemned("idle") PROVE Real
    OBVIOUS
  <2>1. session # None /\ up.now_epoch - session.last_rx > SessionTimeout /\ Visiting
    BY CondemnedAsIdle DEF Condemned, Visiting
  <2> QED
    BY <2>1, Fields, Durations DEF Inv, TaskInv, Visiting, StampInv, Stored, Set
<1> QED
  BY <1>1, Invariance, PTL DEF Spec, SilenceIsReal

(* session.rs:303-306: a handshake is not given up before its schedule is  *)
(* over.                                                                   *)
THEOREM HandshakeHasItsTime == Spec => HandshakeGetsItsTime
<1> DEFINE Served == Condemned("syn") => now - history.born + Set >= Schedule
<1>1. Inv /\ [Next]_vars => [Served]_vars
  <2> SUFFICES ASSUME Inv, [Next]_vars, Condemned("syn") PROVE Served
    OBVIOUS
  <2>1. SynSent /\ session.syn_retries >= SynMaxRetries
    BY CondemnedUnanswered
  <2>2. session.syn_retries = SynMaxRetries
    BY <2>1, Fields, Durations DEF Inv, SynSent
  <2>3. Before(session.syn_retries) = Schedule
    BY <2>2 DEF Before, Schedule
  <2> QED
    BY <2>1, <2>3 DEF Inv, EarlyInv, Age
<1> QED
  BY <1>1, Invariance, PTL DEF Spec, HandshakeGetsItsTime

=============================================================================
