# kcp-peer in TLA+

A specification of the `kcp-peer` crate (symmetric peer-to-peer messaging over one UDP
socket, reliability by the external `kcp` crate), model-checked with TLC and in part proved
with TLAPS. Paths such as `transport.rs` are relative to the crate's `src/` directory.

## 1. The system

| Part | State | Operations | Talks to |
|---|---|---|---|
| `Session` (`session.rs`) | conversation, `SynSent`/`Established`, `closed`, SYN retries, clocks, the KCP control block | `new_outbound`, `new_inbound`, `send_syn`, `send_data`, `update`, `input`, `try_recv_all`, `maybe_retry_syn`, `mark_closed` | held by `Arc` from the map and from whoever looked it up |
| Session map and callers (`transport.rs`) | `RwLock<HashMap<CanonicalAddr, Arc<Session>>>` | `send`, `initiate_session`, `disconnect` | shared by all the parties below |
| Receive task | the packet being handled | `handle_incoming` for KCP_DATA, SYN, SYN_ACK, RESET | map, sessions, events, data queue, socket |
| Update task | the list of condemned addresses | tick, scan, SYN retry, prune | map, sessions, events, socket |
| Owner | the shutdown token, the task handles | `shutdown`, `Drop` | token seen by both tasks |
| Data queue | `pending_data`, a tokio `Notify` | push and notify (receive task), `recv` | callers of `recv()` |
| Events | a broadcast channel | `Connected`, `Disconnected`, `PeerRestarted` | subscribers |
| Packet codec (`packet.rs`), canonical addresses, configuration (`config.rs`), errors | none | pure | |

What is hard in it:

- Four kinds of party share the map. Locks are taken per access, not per operation: `send()`
  looks up, checks again and inserts under three holds; the RESET handler compares under one
  and removes under another; the update task judges under the read lock and removes under the
  write lock; the SYN handler decides, awaits and inserts. Each gap is a window for the others.
- An `Arc<Session>` outlives its entry in the map: data can be queued on, and packets fed to,
  a session that was replaced.
- A session that is closed but still in the map is skipped by every scan and refuses every
  `send()`: nobody would ever remove it.
- Futures can be dropped at every await (`send`, `recv`, `shutdown`).
- Handshakes, queued data, task exit and wake-ups are liveness questions that rest on the
  update task, the tick and the `Notify`.
- The network loses, duplicates and delays.

The list `hazards` of `PROJECT.json` places each of these at its line.

What makes each part correct:

- *Map*: one entry per peer, never a closed one for good, no entry shared by two addresses.
- *Events*: what a subscriber was last told about a peer agrees with the map.
- *Session*: nothing queued during the handshake is sent before it is over; the handshake ends;
  queued data is driven out or the session goes away.
- *Tasks*: both exit once the peer is given up; a detected restart is completed.
- *Data queue*: a waiting `recv()` is woken when there is data.
- *Handshake between peers*: both ends settle on one conversation, what is acknowledged was
  delivered, nothing that was sent stays in limbo.
- *Timers*: retries, the end of the handshake and the idle timeout come neither too early nor
  too late, and a wall clock that is set shifts them by no more than it was set.

## 2. The modules

| Module | Models | Used by |
|---|---|---|
| `Session` | the session record and each method as an operator on it; the kcp crate as far as the transport sees it | `KcpPeer` |
| `DataQueue` | `pending_data`, `Notify`, `recv()`; a specification of its own | `KcpPeer`, by INSTANCE |
| `KcpPeer` | one peer: map, callers, receive task, update task, owner, latest events, and the data queue fed by the receive task | |
| `PeerLink` | what a subscriber may rely on: the abstract life of the connection to each peer and the order of its events | `KcpPeer`, by INSTANCE, as the specification it implements |
| `KcpPeerProofs` | the invariants of `KcpPeer`, proved, and the queue's theorem carried over to the whole peer | `PeerLinkProofs` |
| `PeerLinkProofs` | the proof that `KcpPeer` implements `PeerLink` | |
| `DataQueueProofs` | the invariants of `DataQueue`, proved | `KcpPeerProofs`, by INSTANCE |
| `Packet` | `packet.rs`: packet types and their bytes, encoding, splitting | `Handshake` |
| `Handshake` | several peers with KCP sequence numbers over UDP links, with faults, crashes and closes | |
| `HandshakeProofs` | types and the order of events and data, proved for any peers and links | `AgreementProofs` |
| `AgreementProofs` | the two ends agree on the conversation, proved | `DeliveryProofs` |
| `DeliveryProofs` | what is acknowledged was delivered, proved | |
| `SynTimer` | the clocks: one outbound session, the update task, true time and the wall clock | |
| `SynTimerProofs` | all its bounds, proved for any intervals, limits and jumps | |
| `Induction` | two forms of induction over the natural numbers | `SynTimerProofs`, `HandshakeProofs` |

Three views of the same handlers, because they ask different questions. `KcpPeer` splits every
handler where a lock is released or an await stands and lets any packet arrive; `Handshake`
has both ends, the datagrams between them and those a task is about to send, and takes the rest of
a handler whole; `SynTimer` has the times the other two leave open.

### 2.1 One peer: `KcpPeer`

**Steps.** A step of `KcpPeer` is what one party does under one hold of a lock, or between two
awaits. The places between are the `pc` fields of `rx`, `up`, `owner` and `call[c]`; the
other fields are the locals that survive from one place to the next.

| Code | Actions |
|---|---|
| `send`, `initiate_session`, `send_data` | `Send`, `InitiateFastCheck`, `InitiateFound`, `InitiateInsert`, `SendSyn`, `CancelSend`, `SendRefused`, `SendAdmitted`, `QueueData` |
| `disconnect` | `Disconnect` (the guard of `write()` lives to the end of the `if let`) |
| receive loop | `RecvFrom`, `RecvStop` |
| KCP_DATA | `RxKcpData`, `RxInputRefused`, `RxInput`, `RxNotify` |
| SYN | `RxSynUnknown`, `RxSynSame`, `RxSynSimultaneous`, `RxSynRestart`, `RxCreate` |
| SYN_ACK | `RxSynAck`, `RxSynAckIgnored` |
| RESET | `RxReset`, `RxRemove`, `RxClose` |
| update loop | `Tick`, `ScanStart`, `VisitClosed`, `VisitEstablished`, `VisitExhausted`, `VisitRetry`, `VisitWait`, `Prune`, `UpdateStop` |
| `shutdown`, `Drop` | `Shutdown`, `ShutdownList`, `ShutdownClose`, `ShutdownJoin`, `CancelShutdown`, `Drop` |
| `recv` | `RecvCall`, `RecvPop`, `RecvPoll`, `RecvWake`, `RecvCancel` of `DataQueue` |

**Locks.** Only the scan holds the map lock over several steps; a writer has `MapUnlocked` as
a guard. Session mutexes are never held over a step.

**Memory.** `sess` maps an `Arc` to the session behind it; `Held` is who still points to it,
and a step that ends the last hold frees it (`Collect`). `Arcs` bounds the sessions alive at
once, not those ever created.

**Network.** Any packet may arrive from any peer at any time, which covers loss, duplication,
reordering, and peers that restart or misbehave. What this peer sends is therefore not kept.

**Reductions.** The visit of one session by the scan takes its mutex up to three times and is
one step: whatever slips in between commutes with the visit (the comment at `Visit`). A
malformed packet has no effect and is left out. The SYN_ACK that the SYN handler awaits
before it inserts is part of the step that inserts, and the place before it is visible. The
two reads of the map at the start of a tick are one step: a map emptied between them gives an
empty scan.

**Abstractions.** Clocks: a retry may be due and a session idle at any visit. KCP: `Empty`,
`Queued` (something never flushed), `InFlight`, `DeadLink`. Payloads: none; the data queue
keeps the peer of each message. Events: the latest one per peer. `last_event` changes in the
step that sends the event, in which the code also changes the map, except for RESET.

**Refinement.** `PeerLink` says, peer by peer, which event may follow which: a session is
completed only where none is up and only after the end of the one before was reported; only a
session that is up restarts; a handshake begins silently where there is nothing. `KcpPeer`
implements it (`EventOrdering == PL!Spec`) under this mapping: `link` is `Down` without an
entry, `Handshaking` or `Up` by the state of the entry, and `Restarting` for an established
entry that the SYN handler is about to replace; `told` is `last_event`; `due` is the place of the
RESET handler between the removal from the map and the report. It is the only place where the
map and the events are out of step, and `PeerLink` shows what can happen inside: a new
handshake may begin, but cannot be reported as connected first.

### 2.2 Two ends: `Packet`, `Handshake`

| Code | Actions |
|---|---|
| `from_byte`, `encode_control`, `encode_kcp_data`, `split_packet` | operators of `Packet`; every datagram is encoded and split by them |
| KCP_DATA | `RxDataOrphan` (answered by a RESET), `RxDataRefused`, `RxData` |
| SYN | `RxSynCreate` (unknown peer, or restart), `RxSynOverwrites`, `RxSynSame`, `RxSynSimultaneous` |
| SYN_ACK, RESET | `RxSynAck`, `RxSynAckIgnored`, `RxReset` |
| `send` | `SendConnect` (up to the insertion), `Transmit` (the SYN), `SendData` |
| `disconnect` | `Disconnect` |
| update loop | `RetrySyn`, `Abandon`, `FlushAcks`, `Resend`, `GiveUp`, `Idle` |
| network and crash | `Lose`, the arrivals other than the head of a link, `Crash` |

**What is sent later than decided.** Three datagrams leave a peer at a distance from the step that
decides on them: the first SYN, whose session is in the map while `send_syn` reads the conversation
and awaits the send (`transport.rs:306-312`, `session.rs:173-175`); the SYN_ACK of a tie-break or of
a repeated SYN, awaited without a lock (`transport.rs:742-745`); a SYN retry, sent under the map's
lock but not the session's (`session.rs:291-316`). They go into `unsent[n][p]` and out with
`Transmit`, each with the task that is busy with it: a receive task handles nothing else meanwhile,
an update task with a retry in hand keeps writers of the map away (`Writable`), any number of
`send()` calls may be under way. A first SYN carries the conversation read before or after a
tie-break (`FirstSyn`). All else goes to `net[n][p]` at once and overtakes what is unsent;
`seen` records this as `"late"`. `link` is `net` and then `unsent`: all that was said, in the order
in which it was decided. A `send()` that is dropped with its SYN unsent counts as the loss of
that SYN; a crash takes everything unsent along, which is `"late"` too. `RxSynOverwrites` is the
handler of a SYN that found no session and inserts over the one that `send()` registered during its
await (`transport.rs:752`), the first SYN of that one out already or not.

The KCP block (external) is what the transport can tell apart: messages numbered within a
session, kept until acknowledged one by one or by `una`, delivered in order, given up after
`maximum_resend_times` transmissions; a segment gets the conversation of the session when it is
flushed. Windows, fragments and KCP's own timing are left out: a retransmission may happen at
any visit. Random conversations are distinct, the three copies of a RESET are one datagram, a
word of the header is a word (no byte order). The SYN_ACK of a new session is part of the step that
inserts it: `new_inbound` sends it before the insertion, and nothing can be sent for a session that
is not in the map. `told`, `delivered` and `seen` are histories; `seen` records what has
gone wrong so far, and each property says which of it it tolerates.

### 2.3 Time: `SynTimer`

| Code | Actions |
|---|---|
| `new_outbound`, `send_syn` | `NewOutbound`, `SendSyn` (later, or failing) |
| handlers that store `last_rx` | `RxAlive`, `RxSynAck` |
| interval with `MissedTickBehavior::Skip`, empty-map path, one reading of the clock | `Tick` |
| the scan: `update` with its dead link, `maybe_retry_syn`, the idle check | `VisitDeadLink`, `VisitDue` then `VisitRetry`, `VisitExhausted`, `VisitOther`, `VisitOthersOnly` |
| removal after the scan | `Prune` |
| time, the system clock | `Advance`, `Jump` |

`now` is true time, `wall` what `epoch_ms()` reads. Whoever could go on (the task that should
wake, the scan on its way to the session, the removal after it, the first SYN) is at most
`MaxLate` late. In between the clock can be set and packets arrive, so a time stored after the
task read the clock, or before it was set back, is seen as the code sees it. A retry is two steps,
the decision (`VisitDue`, up to `session.rs:313`) and the sending: the first SYN may go out, or the
handshake complete, between them. The dead link is KCP's judgement and may come at any visit of an
established session; the bounds on silence are about the idle judgement alone.

## 3. What the runs check

Passing runs. Deadlock is checked in all of them but `handshake`, whose network rests when
everything is said (in `KcpPeer` `Terminated` is the only legitimate end).

| Run | Instance | Shows |
|---|---|---|
| `map_races` | 1 peer, 1 caller, 2 conversations, 1 SYN retry; 1.9 million states | `TypeOK`, `ClosedOnlyWhileReplaced`, `NoSharedEntry`, `EventsMatchMap`, `BufferedUntilEstablished` under every interleaving, and the refinement of `PeerLink` (`EventOrdering`) |
| `resolution` | 1 peer, 1 caller, fairness | `HandshakeResolves`, `QueuedDataIsResolved`, with no packet ever obliged to arrive |
| `restart_wake_exit` | 1 peer, 2 conversations, 1 receiver, window 2, fairness | `RestartIsFollowedByConnected`, `TasksExit`, and, with the real receive task and its session removed between drain and notification, `SleeperIsWoken` and its safety part `SoleReceiverIsAwake` |
| `queue_one_receiver` | the queue alone, 2 peers, 1 receiver | `QueueTypeOK`, `SoleReceiverMissesNothing`, `SleeperIsWoken`, `recv()` cancelled at any await |
| `handshake` | 2 peers, 1 message, 1 SYN retry, 3 transmissions, any one of six disturbances, fairness; 460,000 states | `Agreement`, `AckedWasDelivered`, `DataFollowsConnected`, `SentIsResolved` |
| `syn_timer` | ticks of 2, retry interval 3, 2 retries, timeout 13, one clock jump; 7.6 million states | `RetrySpacing`, `HandshakeGetsItsTime`, `HandshakeEnds`, `SilenceIsReal`, `SilenceIsNoticed` |

What the properties of `Handshake` and `SynTimer` say:

- `Agreement`: first sender or both at once, with a datagram lost or not, the two ends settle on
  one conversation. It does not hold after a SYN retry, nor when a SYN is late, be it delayed by
  the network or overtaken by what its own sender sends: see `stale_syn`.
- `AckedWasDelivered`: when every message up to one is acknowledged, the other side's `recv()`
  had it, crash and close included ("had it" is the push to `pending_data`). It is not claimed where
  datagrams are duplicated or overtaken: a late SYN recreates a session in the middle of its
  conversation. Nor when both a loss and a crash happen (a crash that takes unsent datagrams along
  counts as both): a session that took data while `SynSent`, its SYN_ACK lost, meets the SYN
  of its restarted peer, and the tie-break gives it that peer's conversation without resetting
  the sequence numbers (`transport.rs:701-711`), so it acknowledges the new messages as old ones.
- `DataFollowsConnected`: although a session takes data while `SynSent`, `Connected` comes first
  unless the datagram that completes the handshake is lost or overtaken, by what its own sender
  sends too (below).
- `SentIsResolved`: after any of the disturbances, two ends in different conversations included,
  what was sent is acknowledged or its session goes.
- `RetrySpacing`, `HandshakeGetsItsTime`, `SilenceIsReal` are lower bounds, exact but for what
  the clock was set: also backwards, since a clock set back between the task's reading and a
  store makes the stored time look old. A first SYN that goes out while the update task is
  between the decision to retry and the retry is repeated at once. They are about the judgement: what arrives between it
  and the removal does not save the session. `HandshakeEnds` and `SilenceIsNoticed` are upper
  bounds, in ticks, lateness and what the clock was set back.

Runs that end in a violation, each of a statement made by a doc comment, the README or a test:

| Run | Statement | What the code does |
|---|---|---|
| `reset_toctou` | a RESET of another conversation removes nothing (`tests/protocol.rs:183`) | the conversation of one session is compared, whichever is there afterwards is removed, and not closed (`transport.rs:797-800`) |
| `prune_toctou` | the update task prunes idle, dead and exhausted sessions (`README.md:135`) | it removes by address what may have replaced them (`transport.rs:588`) |
| `inbound_overwrite` | queued data lost with its handshake shows as `Disconnected` (`transport.rs:238-243`) | an inbound session overwrites a handshaking one and reports `Connected` (`transport.rs:752`) |
| `queue_two_receivers` | `recv()` is woken when data is available (`README.md:109`) | a batch is announced once, and a second receiver sleeps next to it (`transport.rs:645`) |
| `stale_syn` | the incarnation keeps stale SYNs from active sessions (`README.md:180`); a SYN sent after the insertion is never a spurious second one that destroys a session (`transport.rs:308-310`) | no packet carries it; without any fault or retry, `send_syn` reads conversation 1, the tie-break adopts 2 and its SYN_ACK goes out, then SYN 1 does and replaces the session both ends had agreed on (`session.rs:173-175`, `transport.rs:725`); a SYN retry that crosses the tie-break does the same |
| `wildcard_tie_break` | the higher address wins, the other side adopts its conversation (`README.md:170`) | a peer bound to the unspecified address compares with that one; both yield and end in different conversations (`transport.rs:703`) |

More disagreements met while modelling are steps of the models but have no run:

- *Data before `Connected`.* `transport.rs:28-30` gives `Connected`, then data, as the sequence of a
  normal outbound connection. Without fault or retry: while the first SYN of the tie's loser is
  unsent, another `send()` queues data, the tie-break flushes it (`transport.rs:705-711`), and the
  winner, still in `SynSent`, hands it to `recv()` (632-639). TLC finds it when `"late"` is taken
  out of the antecedent of `DataFollowsConnected`.
- *Inbound `Connected`.* `transport.rs:43-44` has it fire before the session is inserted into the
  map, `README.md:147-151` draws it at the first data. The code inserts at 752 and fires at 753,
  both under one hold of the map's lock, when the SYN is handled: nobody sees the session without
  its event. `EventsMatchMap` and `EventOrdering` state what the code does.
- *Dropped `send()`.* It leaves its `SynSent` entry (`transport.rs:118-119` says nothing is left
  behind, `transport.rs:257-260` admits the entry).
- *Late insertion.* A SYN that is being handled is inserted after `shutdown()` made its list
  (`transport.rs:421` says every active peer is reset).
- *Backpressure.* Unread data does not stay in KCP (`README.md:109`) but is drained into a queue
  without a bound (`transport.rs:636-644`).

**Bounds.** With one peer an entry of the map, the receive task, a caller, a condemned address
and the shutdown list can each hold one session, and one more is being created: `Arcs` of 6
never runs out, so no behaviour is cut. `SynMaxRetries = 1` has a retry and
an exhaustion. Two conversations tell equal from different, which is all the code asks, and
let a third session reuse the first one. `Higher` is the peers whose address wins the
tie-break: `map_races` takes the losing side, which changes the conversation; the winning side
keeps it and is covered by the proofs, which hold for every `Higher`. `MaxPending`
bounds the queue, which the code does not bound: it exceeds `RcvWnd`, so batches pile up. Two
callers on one peer exceed five million states; they are covered by the proofs, which assume
nothing about the number of callers.

In `Handshake` two peers have a simultaneous handshake, with data queued behind it or not, and
`MaxConvs = 2` is a handshake begun by each side, or one that is begun again. `MaxDisturbances = 1`
lets any one of the six kinds happen at any point; overtaking by the sender itself and SYN retries
are not counted and happen everywhere. With `MaxSends = 1` no message waits for one before it. The
safety properties were also checked with two messages and a loss, a crash or an overwritten
handshake (3.3 million states), and the proofs have any number of messages and combine the kinds of fault.
`MaxLink = 1` bounds only what is sent *again* on a link (SYN retries,
retransmissions): with a copy of it still on its way nothing is added, while first transmissions
and answers always are. `DeadLink = 3` has a retransmission and then the one that
gives up, `SynMaxRetries = 1` a retry and an exhaustion.

In `SynTimer` the interval of a retry is one and a half ticks, as in the defaults (150 ms and
100 ms), and being late matters. The timeout is longer than the two retries together, so that both ends of a handshake occur, and `MaxNow = 40`
is beyond the latest point any property speaks of: 9 for the schedule, 3 visits, a jump of 3,
and the timeout of 13 after an arrival at the very end of it.

**Fairness** (`Fairness` in `KcpPeer`, `QueueFairness` in `DataQueue`). The two spawned tasks
keep running, so do polled futures (weak fairness). A writer of the map is strongly fair:
scans recur, but `std::sync::RwLock` holds new readers back when a writer waits. A SYN retry
is strongly fair because its interval elapses, the drive of an established session because
the flush interval elapses and the socket does not fail for ever; much of `QueuedDataIsResolved`
rests on this, and what it adds is that somebody keeps driving the session until then. (Its run has
one conversation, so that tie-breaks, whose flush is in `handshake`, do not occur in it.) Nothing obliges a packet to
arrive, a caller to call, or a future to be dropped. `Handshake` is weakly fair to the
deliveries, update visits and pending sends together: some one of them happens as long as one can. That is
enough because retries, transmissions and messages are bounded, so each fair step is one of
finitely many, and it is weaker than fairness to each task, which the spawned tasks would
justify. `SynTimer` needs no fairness: its bounds are invariants, with lateness in place of it.

## 4. What is proved

| Module | Theorem | Property |
|---|---|---|
| `KcpPeerProofs` | `TypeCorrect` | `TypeOK` |
| | `NoBlackHole` | `ClosedOnlyWhileReplaced` |
| | `EventsAgree` | `EventsMatchMap` |
| | `EntriesAreDisjoint` | `NoSharedEntry` |
| | `HandshakeBuffers` | `BufferedUntilEstablished` |
| | `PeerWakesReceiver` | `SoleReceiverIsAwake` |
| `PeerLinkProofs` | `ImplementsPeerLink` | `EventOrdering`, that is `Spec => PL!Spec` |
| `DataQueueProofs` | `WaitersAreEnrolled` | `QueueTypeOK` |
| | `SoleReceiverIsSafe` | `SoleReceiverMissesNothing` |
| `SynTimerProofs` | `TimersTyped` | `TypeOK` |
| | `HandshakeIsOver`, `SilenceNoticed` | `HandshakeEnds`, `SilenceIsNoticed` (upper bounds) |
| | `RetriesAreSpaced`, `HandshakeHasItsTime`, `OnlySilenceEnds` | `RetrySpacing`, `HandshakeGetsItsTime`, `SilenceIsReal` (lower bounds, action properties) |
| `HandshakeProofs` | `HandshakeTyped` | `TypeOK` |
| | `DataComesAfterConnected` | `DataFollowsConnected` |
| `AgreementProofs` | `NeverApart`, `EndsAgree` | `Agreement`, also while datagrams are on their way |
| `DeliveryProofs` | `AckedIsDelivered` | `AckedWasDelivered` |

Each states a property of a passing run, for every value of the constants that the assumptions
allow. TLC evaluates the assumptions on every run:

- `KcpPeer`: `None` is no peer, conversation or allocation, `SynMaxRetries` a natural number,
  `Higher` a set of peers; `RcvWnd` is positive and `MaxPending` a number (`QueueBounds`, and
  `RcvWndPos` in `DataQueue`).
- `SynTimer`: intervals and timeout positive, limits natural numbers (`Durations`), `None` is
  neither a number nor a session (`NoneIsOther`).
- `Handshake`: addresses are positive numbers (0 is the unspecified one), limits are natural
  numbers, and `DeadLink >= 2` (`HandshakeLimits`): with a limit of 1 the flush that completes a
  handshake would itself be the one that gives up. The crate's default is 20. `None` is no
  session (`NoneIsNoSession`).

### 4.1 `KcpPeer`

The inductive invariant is `IInv`, the conjunction of the five. None of the interesting ones
is inductive alone:

- `LocalsOK` (in `TypeOK`) says that a party past its lookup has something in hand and that a
  scan's worklist stays within the map: the reason why the update task's use of an entry is
  sound is that every writer waits for the scan.
- `EventsMatchMap` needs `NoSharedEntry`: `RxClose` closes a session after the lock on the map
  is gone. That breaks no live entry because this session has left the map, under every
  address, and what may have taken its place is at most a new handshake, since only the
  receive task itself establishes sessions.
- `ClosedOnlyWhileReplaced` needs `NoSharedEntry` too: closing a session by one address must
  not close it under another.

The proof has one lemma per party (`CallerOK`, `DisconnectOK`, `RxOK`, `UpdateOK`, `OwnerOK`),
first for types and then for `IInv`. Most steps are *quiet* (`Quiet`, `QuietOK`): they leave
map, events and the receive task's critical places alone and change at most the KCP block or
the retry counter of a session. The others fall into two shapes with a lemma each: an entry
is removed and its session closed (`RemovalOK`), a handshake completes (`EstablishedOK`).

**The refinement.** `IInv` is enough: no further invariant is needed, because what `PeerLink`
asks of `last_event` is in `EventsMatchMap`. Each party has a lemma again (`CallerSimulates`,
`RxSimulates`, ...) that its steps are steps of `PeerLink` or leave the mapped variables alone.
A step about one peer changes the mapped link of no other (`OneLink`), and each kind of
`PeerLink` step has a lemma that recognises it (`BeginStep`, `CompleteStep`, `RestartStep`,
`EndStep`, `VanishStep`, `ReportStep`). `VanishStep` and `ReportStep` are the RESET handler, the
one place where map and events are apart.

### 4.2 `DataQueue`, alone and inside the peer

`QueueTypeOK` contains that the `Notify`'s list holds exactly the waiting receivers, each once:
so notifying or cancelling one does not touch another (`TailOfInjective`,
`AppendToInjective`, `RemoveFromInjective`). With it `SoleReceiverMissesNothing` is inductive.
It needs that a cancelled waiter that was already notified passes the permit on.

`KcpPeerProofs`, in its last part, takes over the theorem instead of proving it again. Every step of `KcpPeer` is a
step of the queue or leaves it alone (`PeerKeepsQueue`), and the queue's own flag that a
notification is due is the receive task's place between drain and notification
(`NotifyIsDue`), so the queue's promise becomes one about the receive task.

### 4.3 `SynTimer`

None of the five bounds is inductive. `Inv` adds, besides types:

- `ClockInv`: the wall clock is true time and what it was set.
- `TaskInv`: the task is never later than its scheduler allows, and the reading of the clock it
  carries is from its tick.
- `StampInv`: what the session stores are readings of the clock at the times things happened;
  the clock may have been set since, by at most what it was set in all (`Stored`).
- `EarlyInv`: after k retries at least the sum of the first k backoffs has passed. The visit in
  progress has a clause of its own, since its reading may be older than the last SYN.
- `SilenceInv`, `LateInv`: by when the tick, the visit and the removal that end a silence, or make
  the next retry, must have come.

`Shift` (the `1 <<` of the backoff) is a recursive function. That it is defined and doubles is
proved by induction (`Induction`: every non-empty set of numbers has a least element, taken
from the well-foundedness of `<`). The theorems hold for every number of retries, in exact arithmetic.

### 4.4 `Handshake`

`HInv` has three parts. `VariablesOK` is the type invariant, strengthened so that no message of a
session in `SynSent` has been transmitted: hence the flush that completes the handshake cannot
be the last transmission, and the limit holds. `EstablishedIsTold`: the latest event about an
established session is `Connected`. `HandshakesGuarded` is the argument about the order of
datagrams, stated for each pair of peers as long as nothing is lost or overtaken, in the network or
by a later datagram of its sender (duplicates, crashes, closes, retries, overwritten handshakes may
happen). While a session is in `SynSent` (`Guarded`):

- it has received nothing, and the other side is not in a handshake of the same conversation;
- any data of its conversation on the link comes after something that completes the handshake
  (`DataWaits`), and if the other side has its conversation, such a completion is on the link
  (`Completed`);
- its SYN is on the link, or else what completes the handshake is on its way back, and was sent
  before the SYN of the other side, if that is in a handshake too (`SynIsAnswered`).

The last part is what a tie needs: the loser flushes its data *before* its SYN_ACK, so nothing but
the loser's own SYN, sent earlier, can come before that data. When a SYN arrives in a tie,
`SynIsAnswered` shows that the receiver's own SYN is still on its way (`SynsCross`), and that SYN
completes the other side. The proof first says what sending does to the two ends
(`SpeakerGuarded`, `ListenerGuarded`) and what the arrival of the head does (`HearerGuarded`,
`HeardGuarded`); then each handler and each act has a lemma that it is an instance of these.

All of it speaks of `link`, the datagrams on their way and then those about to be sent. As long as
nothing is `"late"` a step only appends to it, whichever part a datagram is put into
(`SaidInOrder`, `LinksStep`), and `Transmit` leaves it alone (`TransmitLinks`). This is where the
theorem would fail if a first SYN could be overtaken unnoticed: `PrefixKept` needs that
what was unsent stays so.

What a datagram contains is proved from `Packet`'s encoders (`ControlForm`, `SegmentForm`,
`SplitForm`), and that a flush lists its messages in order from the existence of that list
(`AscendingExists`, by induction).

### 4.5 `Agreement`

`EndsAgree` assumes two things about the constants. No peer is bound to the unspecified address
(`Wildcard = {}`): the run `wildcard_tie_break` shows what happens otherwise. And
`SynMaxRetries >= 1`: with no retry at all, a session is abandoned at its first timeout without a
SYN having been sent twice, and when the RESET is lost, its SYN is answered after the fact; TLC
finds the two ends in different conversations after nine steps. Both are met by the defaults with
a concrete address.

A loss makes `Guarded` useless: whatever is to come first may be gone. So the invariant says
nothing about what *is* on a link, only about what is *not* (`Pact`, which any loss, however many,
preserves: `ThinnedAgreed`). For the session `s` of one end and the session `t` of the other:

- `Asking`: while `s` is in its handshake, its SYN is the last thing it said and none of its data
  is on the link. If `t` has its conversation, or an answer to it is on the way back, nothing at
  all is left on the link to `t`. What follows an answer can only be the SYN of a handshake that
  `t` is in now.
- `Crossing`: a SYN on its way to `s` is that of the handshake `t` is in; or else `t` has had the
  SYN of `s`, and if it is established, then in the conversation that the tie-break of `s` will
  choose. This is where the symmetry of the tie-break is used (`TieIsFair`).
- Both established: one conversation.

It is needed in both directions at once. `NeverApart` is its last part, for every moment;
`Agreement` asks only that the ends agree when nothing is on its way or about to be sent. The
theorem is about orderly senders: what happens when a first SYN is overtaken by the
SYN_ACK of its own peer is `stale_syn`, and nothing keeps the ends together then.

The lemmas again come in two layers. About the pact alone: what saying something does to it
(`SaysAgreed`, `BeginsAgreed`), the end of a session (`GoneAgreed`), and each kind of datagram at the
head of a link (`HeardReset`, `HeardSynAck`, `HeardFirst`, `HeardSimultaneous`). Then one lemma per
handler and act. A SYN retry, a restart, a duplicate, a reordering, an overtaken datagram, an
overwritten handshake and a close end the antecedent `Calm`, and a session that was never retried is never abandoned (`Unretried`).

### 4.6 `AckedWasDelivered`

An acknowledgement is a number and a conversation, and the receiver's numbering can begin again:
its session goes and a SYN makes a new one, or the tie-break moves a session to another
conversation and keeps its KCP state (`transport.rs:701-711`). So the invariant, `DInv`, speaks of
every conversation ever drawn, not only of those in use. On top of `HInv` it says, for each pair
of peers in both directions (`Bond`, made of two `Half`s), as long as no datagram was duplicated
or overtaken, and there was not both a loss and a crash (`Clean`):

- `Flow`: some message has neither been acknowledged nor can be by what is on its way, and all
  before it were delivered. While the receiver is in the conversation, whatever is acknowledged
  it has (`Has`), in order or buffered; once its session is gone, nothing more becomes
  acknowledged, so the message that was missing stays missing.
- In `Flow` too: a SYN that may still arrive or be sent (`Opening`) finds nothing acknowledged and a receiver
  that has taken nothing, and SYNs come before data (`InOrder`). So no session begins in the
  middle of a conversation.
- `Sheltered`: what the tie-break needs. A session that took data during its handshake must not be
  moved. Without a loss it takes none. After a loss it may have (its SYN_ACK is gone, the data
  came), but then a RESET of its conversation comes before any SYN that would move it
  (`Shielded`), or what completes the handshake comes before the data (`CompletedBefore`).

`Sheltered` is where the restriction to a loss *or* a crash comes from: a crashed peer sends no
RESET. It also uses that each kind of disturbance happens at most once in the model. A second loss
could take that RESET, with the effect of the crash described in section 3: the theorem says
nothing about it.

An inbound session that overwrites a handshake leaves a SYN of its conversation behind
(`Strays`), which nobody acknowledges anything of. The lemmas have three layers. About bonds alone, with sessions and links as parameters:
what may happen to one end (`GoesOn`, `Says`, `Begins`, `Leaves`), the head of a link
arriving (`Hears`, `Takes`, `Receives`), a loss and a crash (`Loses`, `Forgets`). About the
operators of `Handshake`: what a new session, a queued message, a flush and an input do
(`NewFacts`, `QueueFacts`, `FlushedFacts`, ...). Then one lemma per handler and act, and
`StepsDeliver` puts them together. Unlike `EndsAgree`, the theorem needs no assumption on
`Wildcard` or the number of retries.

### 4.7 Only model-checked

- The leads-to properties (`HandshakeResolves`, `QueuedDataIsResolved`, `TasksExit`,
  `RestartIsFollowedByConnected`, `SleeperIsWoken`, `SentIsResolved`): liveness under fairness is
  out of the prover's reach.
- The violated statements.

## 5. Not modelled, and the plan

- Reads without effect (`peers`, `stats`, `local_addr`, `Debug`), error formatting, the crate
  root, the builder of `KcpConfig` and the examples have no state.
- Canonical addresses: a pure renaming; a peer is its canonical address everywhere.
- The broadcast channel: its capacity and the lag of subscribers are tokio's. The models have
  the events as they are sent.
- The width of the backoff: `interval << retries` overflows a `u64` only at 64 retries, which
  no clock lives through unless the interval is below a millisecond (the hazard at
  `session.rs:311`).
- Errors of `send()` seen by the application: that an error after `kcp.send` leaves the data
  queued, and that `Ok` can be returned for a session closed meanwhile, are steps of `KcpPeer`,
  but there is no history of what the application was told.
- KCP's windows, fragments and timers, and the payload.
