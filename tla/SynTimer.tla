------------------------------ MODULE SynTimer -------------------------------
(***************************************************************************)
(* Time: the SYN retries and the idle timeout of one outbound session, as  *)
(* the update task drives them (src/session.rs, src/transport.rs).         *)
(*                                                                         *)
(* The code measures every age as a difference of wall-clock readings, but *)
(* the interval of the update task runs on the monotonic clock.  Here now  *)
(* is true time, in units small enough for the interleavings to differ,    *)
(* and the wall clock jumps.  The update task may be late to wake and slow *)
(* to reach the session after it has read the clock.                       *)
(***************************************************************************)
EXTENDS Integers

CONSTANTS
    TickInterval, SynRetryInterval, SynMaxRetries, SessionTimeout,   \* KcpConfig
    MaxLate,        \* bound on how long a task that could go on waits for its turn
    JumpBy,         \* how far the wall clock jumps, either way
    MaxJumps,       \* bound on the number of jumps
    MaxArrivals,    \* bound on the packets that arrive and count as life
    MaxNow,         \* bound on time
    None

ASSUME Durations ==
    /\ {TickInterval, SynRetryInterval, SessionTimeout} \subseteq Nat \ {0}
    /\ {SynMaxRetries, MaxLate, JumpBy, MaxJumps, MaxArrivals, MaxNow} \subseteq Nat

Sessions == [state : {"SynSent", "Established"}, last_rx : Int, syn_sent_at : Int,
             syn_retries : 0..SynMaxRetries, unsent : BOOLEAN]

Histories == [born : Nat \cup {None}, heard : Nat, syn : Nat, arrivals : Nat,
              jumps : Nat, fwd : Nat, back : Nat]

ASSUME NoneIsOther == None \notin Nat /\ None \notin Sessions

VARIABLES
    now,        \* true time
    wall,       \* UNIX_EPOCH.elapsed()
    next_tick,  \* when the interval of the update task ticks next
    up,         \* the update task: waiting, about to visit the session with its
                \* reading of the clock, about to send a retry, or about to remove
                \* the session (why: for the properties only)
    session,    \* the session, None before send() and after the removal
    history     \* what really happened, and when

vars == <<now, wall, next_tick, up, session, history>>

Waiting == [pc |-> "wait", now_epoch |-> 0, since |-> 0, why |-> None]

SaturatingSub(a, b) == IF a > b THEN a - b ELSE 0

-----------------------------------------------------------------------------
(* The session. *)

(* send() registers it ... *)
NewOutbound ==
    /\ session = None
    /\ history.born = None
    /\ session' = [state |-> "SynSent", last_rx |-> wall, syn_sent_at |-> wall,
                   syn_retries |-> 0, unsent |-> TRUE]
    /\ history' = [history EXCEPT !.born = now, !.heard = now, !.syn = now]
    /\ UNCHANGED <<now, wall, next_tick, up>>

(* ... and then sends the first SYN, which may take its time, or fail. *)
SendSyn(ok) ==
    /\ session # None
    /\ session.unsent
    /\ session' = [session EXCEPT !.unsent = FALSE, !.syn_sent_at = IF ok THEN wall ELSE @]
    /\ history' = [history EXCEPT !.syn = IF ok THEN now ELSE @]
    /\ UNCHANGED <<now, wall, next_tick, up>>

(* Something arrives from the peer that stores last_rx: any KcpData,       *)
(* before kcp.input may refuse it, or a SYN that is acknowledged again.    *)
RxAlive ==
    /\ session # None
    /\ history.arrivals < MaxArrivals
    /\ session' = [session EXCEPT !.last_rx = wall]
    /\ history' = [history EXCEPT !.heard = now, !.arrivals = @ + 1]
    /\ UNCHANGED <<now, wall, next_tick, up>>

(* Mutant: the answer does not count as life. *)
RxSynAckUntimed ==
    /\ session # None
    /\ session.state = "SynSent"
    /\ session' = [session EXCEPT !.state = "Established"]
    /\ history' = [history EXCEPT !.heard = now]
    /\ UNCHANGED <<now, wall, next_tick, up>>

(* The handshake completes, by a SYN_ACK or by a tie-break. *)
RxSynAck ==
    /\ session # None
    /\ session.state = "SynSent"
    /\ session' = [session EXCEPT !.state = "Established", !.last_rx = wall]
    /\ history' = [history EXCEPT !.heard = now]
    /\ UNCHANGED <<now, wall, next_tick, up>>

-----------------------------------------------------------------------------
(* The update task. *)

(* The interval ticks; a tick that was missed is skipped.  With an empty   *)
(* map there is nothing to do, else the clock is read.  Sessions with      *)
(* others may be there: then this one can enter the map afterwards and     *)
(* still be visited.                                                       *)
Tick(others) ==
    /\ up.pc = "wait"
    /\ now >= next_tick
    /\ next_tick' = now + TickInterval - ((now - next_tick) % TickInterval)
    /\ up' = IF session = None /\ ~others
                THEN up
                ELSE [pc |-> "visit", now_epoch |-> wall, since |-> now, why |-> None]
    /\ UNCHANGED <<now, wall, session, history>>

(* 1 << n *)
Shift[n \in Nat] == IF n = 0 THEN 1 ELSE 2 * Shift[n - 1]

(* Mutant: shifted once too often. *)
BackoffOneFurther(retries) == SynRetryInterval * Shift[retries + 1]

Backoff(retries) == SynRetryInterval * Shift[retries]

Idle(s) == SaturatingSub(up.now_epoch, s.last_rx) > SessionTimeout

(* The session goes on the list of those to remove after the scan. *)
Condemn(why) == up' = [pc |-> "prune", now_epoch |-> 0, since |-> now, why |-> why]

(* The end of a visit. *)
CheckIdle(s) ==
    /\ session' = s
    /\ IF Idle(s) THEN Condemn("idle") ELSE up' = Waiting

Due(s) ==
    SaturatingSub(up.now_epoch, s.syn_sent_at) >= Backoff(s.syn_retries)

(* Established: kcp.update, before all else, can find the link dead. *)
VisitDeadLink ==
    /\ up.pc = "visit"
    /\ session # None
    /\ session.state = "Established"
    /\ Condemn("dead")
    /\ UNCHANGED <<now, wall, next_tick, session, history>>

(* SynSent: whether a retry is due is decided without any lock held until  *)
(* it is sent: the handshake can complete, or the first SYN go out, by     *)
(* then.                                                                   *)
VisitDue ==
    /\ up.pc = "visit"
    /\ session # None
    /\ session.state = "SynSent"
    /\ session.syn_retries < SynMaxRetries
    /\ Due(session)
    /\ up' = [up EXCEPT !.pc = "retry"]
    /\ UNCHANGED <<now, wall, next_tick, session, history>>

(* Mutant: the time of the retry is not stored. *)
VisitRetryUnstamped ==
    /\ up.pc = "retry"
    /\ CheckIdle([session EXCEPT !.syn_retries = @ + 1])
    /\ history' = [history EXCEPT !.syn = now]
    /\ UNCHANGED <<now, wall, next_tick>>

(* Mutant: our own SYN counts as life of the peer. *)
VisitRetryCountsAsLife ==
    /\ up.pc = "retry"
    /\ session' = [session EXCEPT !.syn_retries = @ + 1, !.syn_sent_at = wall, !.last_rx = wall]
    /\ history' = [history EXCEPT !.syn = now]
    /\ up' = Waiting
    /\ UNCHANGED <<now, wall, next_tick>>

VisitRetry ==
    /\ up.pc = "retry"
    /\ CheckIdle([session EXCEPT !.syn_retries = @ + 1, !.syn_sent_at = wall])
    /\ history' = [history EXCEPT !.syn = now]
    /\ UNCHANGED <<now, wall, next_tick>>

(* Mutant: the first SYN is counted as a retry. *)
VisitExhaustedEarly ==
    /\ up.pc = "visit"
    /\ session # None
    /\ session.state = "SynSent"
    /\ session.syn_retries + 1 >= SynMaxRetries
    /\ Condemn("syn")
    /\ UNCHANGED <<now, wall, next_tick, session, history>>

(* After the last retry the next tick gives up. *)
VisitExhausted ==
    /\ up.pc = "visit"
    /\ session # None
    /\ session.state = "SynSent"
    /\ session.syn_retries >= SynMaxRetries
    /\ Condemn("syn")
    /\ UNCHANGED <<now, wall, next_tick, session, history>>

VisitOther ==
    /\ up.pc = "visit"
    /\ session # None
    /\ session.state = "SynSent" => session.syn_retries < SynMaxRetries /\ ~Due(session)
    /\ CheckIdle(session)
    /\ UNCHANGED <<now, wall, next_tick, history>>

(* The session is not in the map the scan goes through. *)
VisitOthersOnly ==
    /\ up.pc = "visit"
    /\ session = None
    /\ up' = Waiting
    /\ UNCHANGED <<now, wall, next_tick, session, history>>

(* Mutant: the list is kept for the next time. *)
PruneKeepsList ==
    /\ up.pc = "prune"
    /\ session' = None
    /\ UNCHANGED <<now, wall, next_tick, up, history>>

(* After the scan, whatever has arrived meanwhile. *)
Prune ==
    /\ up.pc = "prune"
    /\ session' = None
    /\ up' = Waiting
    /\ UNCHANGED <<now, wall, next_tick, history>>

-----------------------------------------------------------------------------
(* The environment. *)

(* Time passes, unless somebody has waited for his turn long enough: the   *)
(* update task since the tick or since it began to visit or to remove, the *)
(* first SYN since the session was made.                                   *)
Advance ==
    /\ now < MaxNow
    /\ up.pc = "wait" => now < next_tick + MaxLate
    /\ up.pc # "wait" => now < up.since + MaxLate
    /\ (session # None /\ session.unsent) => now < history.born + MaxLate
    /\ now' = now + 1
    /\ wall' = wall + 1
    /\ UNCHANGED <<next_tick, up, session, history>>

(* The wall clock is set. *)
Jump(d) ==
    /\ history.jumps < MaxJumps
    /\ wall' = wall + d
    /\ history' = [history EXCEPT !.jumps = @ + 1,
                                  !.fwd = @ + SaturatingSub(d, 0),
                                  !.back = @ + SaturatingSub(0, d)]
    /\ UNCHANGED <<now, next_tick, up, session>>

(* The end of what is looked at. *)
Over == now = MaxNow /\ UNCHANGED vars

-----------------------------------------------------------------------------

Init ==
    /\ now = 0
    /\ wall = 1000      \* 1970 is long ago
    /\ next_tick = 0
    /\ up = Waiting
    /\ session = None
    /\ history = [born |-> None, heard |-> 0, syn |-> 0, arrivals |-> 0,
                  jumps |-> 0, fwd |-> 0, back |-> 0]

Next ==
    \/ NewOutbound \/ (\E ok \in BOOLEAN : SendSyn(ok)) \/ RxAlive \/ RxSynAck
    \/ (\E others \in BOOLEAN : Tick(others))
    \/ VisitDeadLink \/ VisitDue \/ VisitRetry \/ VisitExhausted \/ VisitOther \/ VisitOthersOnly \/ Prune
    \/ Advance \/ (\E d \in {JumpBy, -JumpBy} : Jump(d)) \/ Over

Spec == Init /\ [][Next]_vars

-----------------------------------------------------------------------------

TypeOK ==
    /\ now \in 0..MaxNow
    /\ wall \in Int
    /\ next_tick \in Nat
    /\ up \in [pc : {"wait", "visit", "retry", "prune"}, now_epoch : Int, since : Nat,
               why : {None, "dead", "syn", "idle"}]
    /\ up.pc \in {"retry", "prune"} => session # None
    /\ session # None => session \in Sessions
    /\ up.pc = "retry" => session.syn_retries < SynMaxRetries
    /\ history \in Histories

(* How long the update task may take to get to a session: the tick comes   *)
(* up, the task wakes, and the scan reaches the session.                   *)
Latency == TickInterval + 2 * MaxLate

(* How far the clock was set, either way: a clock set back after the task  *)
(* has read it, and before a time is stored, makes that time look old too. *)
Set == history.fwd + history.back

(* session.rs:309-321, config.rs:39-46: between one SYN and retry i (from  *)
(* 0) the peer has base * 2^i to answer, less what the clock was set,      *)
(* even when the first SYN was held up behind a retry or failed.  Only a   *)
(* first SYN that goes out while the update task is on its way to a retry  *)
(* (309-316) is repeated at once.                                          *)
RetrySpacing ==
    [][(session # None /\ session' # None /\ session'.syn_retries > session.syn_retries)
          => \/ now - history.syn + Set >= Backoff(session.syn_retries)
             \/ ~session.unsent /\ history.syn >= up.since]_vars

(* A step that puts the session on the list to remove. *)
Condemned(why) == up.pc \in {"visit", "retry"} /\ up'.pc = "prune" /\ up'.why = why

(* How long the retries take when nobody is late. *)
Schedule == SynRetryInterval * (Shift[SynMaxRetries] - 1)

(* session.rs:303-313: a peer that answers within the schedule of          *)
(* config.rs:39-46 is not given up for want of an answer, less what the    *)
(* clock was set.                                                          *)
HandshakeGetsItsTime ==
    [][Condemned("syn") => now - history.born + Set >= Schedule]_vars

(* session.rs:303-306, config.rs:50-56: a handshake nobody answers is over *)
(* when the schedule is, plus a visit for every retry and one to give up,  *)
(* the wait for the first SYN, for the removal after the scan, and what    *)
(* the clock was set back.                                                 *)
HandshakeEnds ==
    (session # None /\ session.state = "SynSent")
        => now - history.born <=
              Schedule + (SynMaxRetries + 1) * Latency + 2 * MaxLate + history.back

(* transport.rs:577-584: no session is condemned as idle that was heard of *)
(* within session_timeout, not even when a packet comes in after the clock *)
(* was read, unless the clock was set by the difference.                   *)
SilenceIsReal ==
    [][Condemned("idle") => now - history.heard + Set > SessionTimeout]_vars

(* transport.rs:577-588: one that was not is condemned at the next visit   *)
(* and removed after it, or later by what the clock was set back.          *)
SilenceIsNoticed ==
    session # None =>
        now - history.heard <= SessionTimeout + Latency + MaxLate + history.back

=============================================================================
