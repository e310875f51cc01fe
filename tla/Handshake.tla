------------------------------ MODULE Handshake ------------------------------
(***************************************************************************)
(* Several KcpPeers over UDP: do both ends of a session agree, and what    *)
(* becomes of the data, when datagrams are lost, duplicated, reordered or  *)
(* late and when peers restart?                                            *)
(*                                                                         *)
(* A handler of handle_incoming, a disconnect(), the visit of one session  *)
(* by the update task and each part of a send() between awaits are one     *)
(* step.  The datagrams that are sent at a distance from the decision to   *)
(* send them are put into unsent: the first SYN, whose send is awaited     *)
(* while its session is in the map already; the SYN_ACK of a tie-break or  *)
(* of a repeated SYN, awaited by the receive task; a SYN retry, which the  *)
(* update task sends under the map's lock but not under the session's.     *)
(* Whatever the peer sends meanwhile overtakes them.  A send() that is     *)
(* dropped before its SYN is sent is a SYN that is lost.  The other gaps   *)
(* between locks, and what shutdown() does, are the subject of KcpPeer.    *)
(*                                                                         *)
(* The network keeps the order in which datagrams are sent; anything but   *)
(* the delivery of the oldest is a disturbance.  Each kind of those chosen *)
(* in Disturbances happens at most once, and at most MaxDisturbances       *)
(* happen in all.  Random conversations are taken to be distinct.  The     *)
(* three copies of a RESET are one datagram.                               *)
(***************************************************************************)
EXTENDS Naturals, Sequences, FiniteSets, SequencesExt, Packet

CONSTANTS
    Nodes,          \* peers: each is its address, a number, as seen by the others
    Wildcard,       \* those bound to the unspecified address
    Disturbances,   \* what may happen: "loss", "dup", "reorder", "crash", "close",
                    \* "overwrite"
    SynMaxRetries,  \* KcpConfig::syn_max_retries
    DeadLink,       \* KcpConfig::maximum_resend_times
    MaxDisturbances,\* bound on how many of them happen
    MaxConvs,       \* bound on the conversations that send() begins, together
    MaxSends,       \* bound on the messages the applications send, together
    MaxLink,        \* bound on a link when something is sent again
    None            \* no session

ASSUME NodesAreAddresses == Nodes \subseteq Nat \ {0} /\ Wildcard \subseteq Nodes
ASSUME HandshakeLimits ==
    /\ {SynMaxRetries, DeadLink, MaxDisturbances, MaxConvs, MaxSends, MaxLink} \subseteq Nat
    /\ DeadLink >= 2   \* with 1 the first transmission would be the last

(* Sessions of the conversations C. *)
Sessions(C) ==
    [conv_id : C, state : {"SynSent", "Established"}, syn_retries : 0..SynMaxRetries,
     snd : 0..MaxSends, snd_buf : UNION {[S -> 0..(DeadLink - 1)] : S \in SUBSET (1..MaxSends)},
     rcv_nxt : 1..(MaxSends + 1), rcv_buf : SUBSET (1..MaxSends), acks : SUBSET (1..MaxSends)]

ASSUME NoneIsNoSession == None \notin Sessions(Nat)

VARIABLES
    session,    \* session[n][p]: the entry of n's map for p
    net,        \* net[n][p]: datagrams on their way from n to p
    unsent,     \* unsent[n][p]: those that a task of n is about to send to p
    told,       \* told[n][p]: the latest event n sent about p
    drawn,      \* conversations drawn so far, by anybody
    sends,      \* messages the applications have sent
    delivered,  \* history: <<n, p, conv, sn>>, n's recv() got message sn of p
    seen        \* history: the disturbances so far, and what the code has done of
                \* its own accord: "retry", it has sent a SYN again; "late", what
                \* was about to be sent was overtaken, or never sent because of
                \* a crash; "overwrite", see RxSynOverwrites

vars == <<session, net, unsent, told, drawn, sends, delivered, seen>>

Pairs == {np \in Nodes \X Nodes : np[1] # np[2]}

(* The disturbances that may happen next. *)
Pending == IF Cardinality(seen \cap Disturbances) < MaxDisturbances THEN Disturbances \ seen ELSE {}

-----------------------------------------------------------------------------
(* What is said. *)

Tasks == {"send", "receive", "update"}

(* All that n has to say to p, in the order in which it was decided. *)
link == [n \in Nodes |-> [p \in Nodes |->
            net[n][p] \o [i \in DOMAIN unsent[n][p] |-> unsent[n][p][i].buf]]]

Awaiting(task, buf) == <<[task |-> task, buf |-> buf]>>

(* The task of n has nothing left to send. *)
Free(n, task) ==
    \A p \in Nodes : \A i \in DOMAIN unsent[n][p] : unsent[n][p][i].task # task

(* The scan keeps n's map read-locked. *)
Writable(n) == Free(n, "update")

(* n sends out to p at once and is then about to send held. *)
Overtaken(n, p, out, held) ==
    {late \in {"late"} :
        (out # <<>> /\ unsent[n][p] # <<>>) \/ ~IsPrefix(unsent[n][p], held)}

-----------------------------------------------------------------------------
(* A session, and the kcp crate behind it: messages are numbered within    *)
(* a session, acknowledged when the session is next flushed, delivered in  *)
(* order.  Every segment says what its sender expects next (una), which    *)
(* acknowledges all before.  A conversation is stamped on a segment when   *)
(* it is flushed.                                                          *)

NewSession(conv, state) ==
    [conv_id |-> conv, state |-> state, syn_retries |-> 0,
     snd |-> 0,             \* messages queued so far
     snd_buf |-> <<>>,      \* those not acknowledged, each with its transmissions
     rcv_nxt |-> 1,         \* the message recv() gets next
     rcv_buf |-> {},        \* messages ahead of their turn
     acks |-> {}]           \* acknowledgements that the next flush sends

Unacked(s) == DOMAIN s.snd_buf

(* kcp.send *)
Queue(s) ==
    [s EXCEPT !.snd = @ + 1,
              !.snd_buf = [sn \in DOMAIN @ \cup {s.snd + 1} |-> IF sn \in DOMAIN @ THEN @[sn] ELSE 0]]

(* kcp.flush: the acknowledgements, then the messages sns. *)
Flushed(s, sns) ==
    [s EXCEPT !.acks = {},
              !.snd_buf = [sn \in DOMAIN @ |-> IF sn \in sns THEN @[sn] + 1 ELSE @[sn]]]

(* The numbers of a set, one by one. *)
Ascending(set) ==
    CHOOSE q \in [1..Cardinality(set) -> set] : \A i, j \in DOMAIN q : i < j => q[i] < q[j]

Segments(s, sns) ==
    LET all(kind, set) ==
            [i \in DOMAIN Ascending(set) |->
                encode_kcp_data(<<s.conv_id, kind, Ascending(set)[i], s.rcv_nxt>>)]
    IN  all("ack", s.acks) \o all("push", sns)

(* kcp.input: only what was transmitted can be acknowledged. *)
Acknowledge(s, sns) ==
    [s EXCEPT !.snd_buf = Restrict(@, {sn \in DOMAIN @ : sn \notin sns \/ @[sn] = 0})]

(* The first message not there once sn has arrived. *)
NextExpected(s, sn) ==
    CHOOSE k \in s.rcv_nxt..(MaxSends + 1) :
        /\ k \notin s.rcv_buf \cup {sn}
        /\ s.rcv_nxt..(k - 1) \subseteq s.rcv_buf \cup {sn}

Arrived(s, sn) ==
    LET nxt == NextExpected(s, sn)
    IN  IF sn < s.rcv_nxt
        THEN [s EXCEPT !.acks = @ \cup {sn}]
        ELSE [s EXCEPT !.acks = @ \cup {sn}, !.rcv_nxt = nxt,
                       !.rcv_buf = (@ \cup {sn}) \ (1..(nxt - 1))]

(* socket.local_addr() of a peer bound to the unspecified address is that  *)
(* address, lower than any a datagram can come from.                       *)
local_addr(n) == IF n \in Wildcard THEN 0 ELSE n

(* Mutant: nobody yields. *)
TieBreakKeepsOwn(n, from, own, conv) == own

TieBreak(n, from, own, conv) == IF from > local_addr(n) THEN conv ELSE own

Established(s, conv) == [s EXCEPT !.state = "Established", !.conv_id = conv]

-----------------------------------------------------------------------------
(* Arrivals. *)

(* What can arrive at n from p: the oldest datagram, or, as disturbances,  *)
(* a later one, or one that stays in the network to arrive again.          *)
Arrivals(n, p) ==
    LET q == net[p][n]
        arrival(i, again) ==
            [buf |-> q[i], rest |-> IF again THEN q ELSE RemoveAt(q, i),
             seen |-> {d \in {"reorder"} : i > 1} \cup {d \in {"dup"} : again}]
    IN  {a \in {arrival(i, again) : i \in DOMAIN q, again \in BOOLEAN} :
            a.seen \subseteq Pending}

(* n handles it: its session with p becomes s, out goes back. *)
Handle(n, p, in, s, event, out, held) ==
    /\ session' = [session EXCEPT ![n][p] = s]
    /\ told' = [told EXCEPT ![n][p] = event]
    /\ net' = [net EXCEPT ![p][n] = in.rest, ![n][p] = @ \o out]
    /\ unsent' = [unsent EXCEPT ![n][p] = held]
    /\ seen' = seen \cup in.seen \cup Overtaken(n, p, out, held)
    /\ UNCHANGED sends

Reply(n, p, in, s, event, out) ==
    Handle(n, p, in, s, event, out, unsent[n][p]) /\ UNCHANGED drawn

Ignore(n, p, in) == Reply(n, p, in, session[n][p], told[n][p], <<>>)

(* KcpData for no session is answered with a RESET of its conversation. *)
RxDataOrphan(n, p, in, conv) ==
    /\ session[n][p] = None
    /\ Reply(n, p, in, None, told[n][p], <<encode_control("Reset", conv)>>)
    /\ UNCHANGED delivered

(* kcp.input refuses another conversation. *)
RxDataRefused(n, p, in, conv) ==
    /\ session[n][p] # None
    /\ session[n][p].conv_id # conv
    /\ Ignore(n, p, in)
    /\ UNCHANGED delivered

(* Mutant: only an established session is drained. *)
RxDataDrainsEstablished(n, p, in, conv) ==
    LET s == session[n][p]
        sn == in.buf[4]
        una == in.buf[5]
        t == IF in.buf[3] = "push" THEN Arrived(Acknowledge(s, 1..(una - 1)), sn)
             ELSE Acknowledge(s, 1..(una - 1) \cup {sn})
    IN  /\ s # None
        /\ s.conv_id = conv
        /\ Reply(n, p, in, t, told[n][p], <<>>)
        /\ delivered' = delivered \cup
               {<<n, p, conv, k>> : k \in IF s.state = "Established" THEN s.rcv_nxt..(t.rcv_nxt - 1) ELSE {}}

(* Acknowledgements take effect, a message is kept for its turn, and      *)
(* try_recv_all hands over what has come up.                               *)
RxData(n, p, in, conv) ==
    LET s == session[n][p]
        sn == in.buf[4]
        una == in.buf[5]
        t == IF in.buf[3] = "push" THEN Arrived(Acknowledge(s, 1..(una - 1)), sn)
             ELSE Acknowledge(s, 1..(una - 1) \cup {sn})
    IN  /\ s # None
        /\ s.conv_id = conv
        /\ Reply(n, p, in, t, told[n][p], <<>>)
        /\ delivered' = delivered \cup {<<n, p, conv, k>> : k \in s.rcv_nxt..(t.rcv_nxt - 1)}

(* Syn for no session, or for an established one of another conversation,  *)
(* which is closed and reported as PeerRestarted first.  The SYN_ACK is    *)
(* sent before the session is in the map.                                  *)
RxSynCreate(n, p, in, conv) ==
    /\ session[n][p] # None =>
          session[n][p].conv_id # conv /\ session[n][p].state = "Established"
    /\ Writable(n)
    /\ Reply(n, p, in, NewSession(conv, "Established"), "Connected",
             <<encode_control("SynAck", conv)>>)
    /\ UNCHANGED delivered

(* The same, while send() registers a session of its own: after the lookup *)
(* found none and before the new session replaces it.  Its SYN goes out    *)
(* before the SYN_ACK, or is still unsent.                                 *)
RxSynOverwrites(n, p, in, conv) ==
    /\ session[n][p] = None
    /\ "overwrite" \in Pending
    /\ Writable(n)
    /\ drawn < MaxConvs
    /\ drawn' = drawn + 1
    /\ LET syn == encode_control("Syn", drawn')
           syn_ack == encode_control("SynAck", conv)
           new == NewSession(conv, "Established")
           arrival == [in EXCEPT !.seen = @ \cup {"overwrite"}]
       IN  \/ Handle(n, p, arrival, new, "Connected", <<syn, syn_ack>>, unsent[n][p])
           \/ Handle(n, p, arrival, new, "Connected", <<syn_ack>>,
                     unsent[n][p] \o Awaiting("send", syn))
    /\ UNCHANGED delivered

(* A SYN_ACK may have been lost: it is sent again. *)
RxSynSame(n, p, in, conv) ==
    /\ session[n][p] # None
    /\ session[n][p].conv_id = conv
    /\ IF session[n][p].state = "Established"
       THEN Handle(n, p, in, session[n][p], told[n][p], <<>>,
                   unsent[n][p] \o Awaiting("receive", encode_control("SynAck", conv)))
       ELSE Ignore(n, p, in)
    /\ UNCHANGED <<drawn, delivered>>

(* send_syn reads the conversation before or after the tie-break. *)
FirstSyn(n, p, own, conv) ==
    LET first == [task |-> "send", buf |-> encode_control("Syn", own)]
    IN  {unsent[n][p],
         [i \in DOMAIN unsent[n][p] |->
             IF unsent[n][p][i] = first THEN [first EXCEPT !.buf = encode_control("Syn", conv)]
             ELSE unsent[n][p][i]]}

(* Mutant: the tie-break leaves Connected to the SYN_ACK. *)
RxSynSimultaneousSilent(n, p, in, conv) ==
    /\ session[n][p] # None
    /\ session[n][p].conv_id # conv
    /\ session[n][p].state = "SynSent"
    /\ LET own == session[n][p].conv_id
           s == Established(session[n][p], TieBreak(n, p, own, conv))
       IN  \E held \in FirstSyn(n, p, own, s.conv_id) :
               Handle(n, p, in, Flushed(s, Unacked(s)), told[n][p], Segments(s, Unacked(s)),
                      held \o Awaiting("receive", encode_control("SynAck", s.conv_id)))
    /\ UNCHANGED <<drawn, delivered>>

(* A simultaneous handshake: queued data is flushed, then the SYN_ACK of   *)
(* the conversation that is kept goes out.                                 *)
RxSynSimultaneous(n, p, in, conv) ==
    /\ session[n][p] # None
    /\ session[n][p].conv_id # conv
    /\ session[n][p].state = "SynSent"
    /\ LET own == session[n][p].conv_id
           s == Established(session[n][p], TieBreak(n, p, own, conv))
       IN  \E held \in FirstSyn(n, p, own, s.conv_id) :
               Handle(n, p, in, Flushed(s, Unacked(s)), "Connected", Segments(s, Unacked(s)),
                      held \o Awaiting("receive", encode_control("SynAck", s.conv_id)))
    /\ UNCHANGED <<drawn, delivered>>

Answered(n, p, conv) ==
    /\ session[n][p] # None
    /\ session[n][p].state = "SynSent"
    /\ session[n][p].conv_id = conv

RxSynAck(n, p, in, conv) ==
    /\ Answered(n, p, conv)
    /\ LET s == Established(session[n][p], conv)
       IN  Reply(n, p, in, Flushed(s, Unacked(s)), "Connected", Segments(s, Unacked(s)))
    /\ UNCHANGED delivered

RxSynAckIgnored(n, p, in, conv) ==
    /\ ~Answered(n, p, conv)
    /\ Ignore(n, p, in)
    /\ UNCHANGED delivered

RxReset(n, p, in, conv) ==
    /\ IF session[n][p] # None /\ session[n][p].conv_id = conv
       THEN Writable(n) /\ Reply(n, p, in, None, "Disconnected", <<>>)
       ELSE Ignore(n, p, in)
    /\ UNCHANGED delivered

-----------------------------------------------------------------------------
(* What a peer does of its own accord. *)

Do(n, p, s, event, out, held, disturbance) ==
    /\ session' = [session EXCEPT ![n][p] = s]
    /\ told' = [told EXCEPT ![n][p] = event]
    /\ net' = [net EXCEPT ![n][p] = @ \o out]
    /\ unsent' = [unsent EXCEPT ![n][p] = held]
    /\ seen' = seen \cup disturbance \cup Overtaken(n, p, out, held)
    /\ UNCHANGED delivered

Act(n, p, s, event, out, disturbance) == Do(n, p, s, event, out, unsent[n][p], disturbance)

Teardown(n, p, out, disturbance) ==
    /\ Writable(n)
    /\ Act(n, p, None, "Disconnected",
           out \o <<encode_control("Reset", session[n][p].conv_id)>>, disturbance)
    /\ UNCHANGED <<drawn, sends>>

(* send() to an unknown peer: the session is in the map, its SYN is not    *)
(* sent yet.  The data follows with SendData, if the call is not dropped   *)
(* and the session has not gone by then.                                   *)
SendConnect(n, p) ==
    /\ drawn < MaxConvs
    /\ session[n][p] = None
    /\ Writable(n)
    /\ drawn' = drawn + 1
    /\ Do(n, p, NewSession(drawn', "SynSent"), told[n][p], <<>>,
          unsent[n][p] \o Awaiting("send", encode_control("Syn", drawn')), {})
    /\ UNCHANGED sends

(* What was about to be sent is sent. *)
Transmit(n, p, i) ==
    /\ net' = [net EXCEPT ![n][p] = Append(@, unsent[n][p][i].buf)]
    /\ unsent' = [unsent EXCEPT ![n][p] = RemoveAt(@, i)]
    /\ seen' = seen \cup {late \in {"late"} : i > 1}
    /\ UNCHANGED <<session, told, drawn, sends, delivered>>

SendData(n, p) ==
    LET s == session[n][p]
        t == Queue(s)
    IN  /\ sends < MaxSends
        /\ s # None
        /\ sends' = sends + 1
        /\ IF s.state = "Established"
           THEN Act(n, p, Flushed(t, {t.snd}), told[n][p], Segments(t, {t.snd}), {})
           ELSE Act(n, p, t, told[n][p], <<>>, {})
        /\ UNCHANGED drawn

Disconnect(n, p) ==
    /\ "close" \in Pending
    /\ session[n][p] # None
    /\ Teardown(n, p, <<>>, {"close"})

(* Mutant: one retry too many. *)
RetrySynOnceMore(n, p) ==
    LET s == session[n][p]
    IN  /\ s # None
        /\ s.state = "SynSent"
        /\ s.syn_retries <= SynMaxRetries
        /\ Len(link[n][p]) < MaxLink
        /\ Do(n, p, [s EXCEPT !.syn_retries = @ + 1], told[n][p], <<>>,
              unsent[n][p] \o Awaiting("update", encode_control("Syn", s.conv_id)), {"retry"})
        /\ UNCHANGED <<drawn, sends>>

(* The visits of the update task.  SYN retries ... *)
RetrySyn(n, p) ==
    LET s == session[n][p]
    IN  /\ s # None
        /\ s.state = "SynSent"
        /\ s.syn_retries < SynMaxRetries
        /\ Len(link[n][p]) < MaxLink
        /\ Do(n, p, [s EXCEPT !.syn_retries = @ + 1], told[n][p], <<>>,
              unsent[n][p] \o Awaiting("update", encode_control("Syn", s.conv_id)), {"retry"})
        /\ UNCHANGED <<drawn, sends>>

Abandon(n, p) ==
    /\ session[n][p] # None
    /\ session[n][p].state = "SynSent"
    /\ session[n][p].syn_retries >= SynMaxRetries
    /\ Teardown(n, p, <<>>, {})

(* ... acknowledgements, retransmissions, the dead link: the transmission  *)
(* that reaches the limit still goes out, the RESET after it ...           *)
FlushAcks(n, p) ==
    LET s == session[n][p]
    IN  /\ s # None
        /\ s.state = "Established"
        /\ s.acks # {}
        /\ Act(n, p, Flushed(s, {}), told[n][p], Segments(s, {}), {})
        /\ UNCHANGED <<drawn, sends>>

Resend(n, p, sn) ==
    LET s == session[n][p]
    IN  /\ s # None
        /\ s.state = "Established"
        /\ sn \in Unacked(s)
        /\ s.snd_buf[sn] + 1 < DeadLink
        /\ Len(link[n][p]) < MaxLink
        /\ Act(n, p, Flushed(s, {sn}), told[n][p], Segments(s, {sn}), {})
        /\ UNCHANGED <<drawn, sends>>

(* Mutant: the limit is one further than the transmissions go. *)
GiveUpPastLimit(n, p, sn) ==
    LET s == session[n][p]
    IN  /\ s # None
        /\ s.state = "Established"
        /\ sn \in Unacked(s)
        /\ s.snd_buf[sn] + 1 > DeadLink
        /\ Teardown(n, p, Segments(s, {sn}), {})

GiveUp(n, p, sn) ==
    LET s == session[n][p]
    IN  /\ s # None
        /\ s.state = "Established"
        /\ sn \in Unacked(s)
        /\ s.snd_buf[sn] + 1 >= DeadLink
        /\ Teardown(n, p, Segments(s, {sn}), {})

(* ... and the idle timeout. *)
Idle(n, p) ==
    /\ "close" \in Pending
    /\ session[n][p] # None
    /\ Teardown(n, p, <<>>, {"close"})

-----------------------------------------------------------------------------
(* The environment. *)

Lose(n, p, i) ==
    /\ "loss" \in Pending
    /\ net' = [net EXCEPT ![n][p] = RemoveAt(@, i)]
    /\ seen' = seen \cup {"loss"}
    /\ UNCHANGED <<session, unsent, told, drawn, sends, delivered>>

(* A peer dies, without shutdown(), and is bound again to the same         *)
(* address.  It forgets everything, what it was about to send too; the     *)
(* network does not.                                                       *)
Crash(n) ==
    /\ "crash" \in Pending
    /\ session' = [session EXCEPT ![n] = [p \in Nodes |-> None]]
    /\ told' = [told EXCEPT ![n] = [p \in Nodes |-> "none"]]
    /\ unsent' = [unsent EXCEPT ![n] = [p \in Nodes |-> <<>>]]
    /\ seen' = seen \cup {"crash"} \cup {late \in {"late"} : \E p \in Nodes : unsent[n][p] # <<>>}
    /\ UNCHANGED <<net, drawn, sends, delivered>>

-----------------------------------------------------------------------------

Init ==
    /\ session = [n \in Nodes |-> [p \in Nodes |-> None]]
    /\ net = [n \in Nodes |-> [p \in Nodes |-> <<>>]]
    /\ unsent = [n \in Nodes |-> [p \in Nodes |-> <<>>]]
    /\ told = [n \in Nodes |-> [p \in Nodes |-> "none"]]
    /\ drawn = 0
    /\ sends = 0
    /\ delivered = {}
    /\ seen = {}

handle_incoming(n, p, in) ==
    \E pkt \in split_packet(in.buf) :
        LET conv == Head(pkt.payload)
        IN  \/ /\ pkt.typ = "KcpData"
               /\ RxDataOrphan(n, p, in, conv) \/ RxDataRefused(n, p, in, conv) \/ RxData(n, p, in, conv)
            \/ /\ pkt.typ = "Syn"
               /\ \/ RxSynCreate(n, p, in, conv) \/ RxSynOverwrites(n, p, in, conv)
                  \/ RxSynSame(n, p, in, conv) \/ RxSynSimultaneous(n, p, in, conv)
            \/ /\ pkt.typ = "SynAck"
               /\ RxSynAck(n, p, in, conv) \/ RxSynAckIgnored(n, p, in, conv)
            \/ /\ pkt.typ = "Reset"
               /\ RxReset(n, p, in, conv)

Deliver(n, p) ==
    /\ Free(n, "receive")
    /\ \E in \in Arrivals(n, p) : handle_incoming(n, p, in)

DeliverHead(n, p) ==
    /\ Free(n, "receive")
    /\ \E in \in {a \in Arrivals(n, p) : a.seen = {}} : handle_incoming(n, p, in)

UpdateVisit(n, p) ==
    /\ Free(n, "update")
    /\ \/ RetrySyn(n, p) \/ Abandon(n, p) \/ FlushAcks(n, p)
       \/ \E sn \in 1..MaxSends : Resend(n, p, sn) \/ GiveUp(n, p, sn)

Next ==
    \/ \E np \in Pairs :
          LET n == np[1]
              p == np[2]
          IN  \/ Deliver(n, p)
              \/ SendConnect(n, p) \/ SendData(n, p) \/ Disconnect(n, p)
              \/ UpdateVisit(n, p) \/ Idle(n, p)
              \/ \E i \in DOMAIN unsent[n][p] : Transmit(n, p, i)
              \/ \E i \in DOMAIN net[n][p] : Lose(n, p, i)
    \/ \E n \in Nodes : Crash(n)

Spec == Init /\ [][Next]_vars

(* The receive and update tasks of every peer run on, calls of send() are  *)
(* polled, and a datagram that is not lost arrives.  Nobody has to send,   *)
(* and nothing has to go wrong.                                            *)
Progress(n, p) ==
    \/ DeliverHead(n, p) \/ UpdateVisit(n, p)
    \/ \E i \in DOMAIN unsent[n][p] : Transmit(n, p, i)

FairSpec == Spec /\ WF_vars(\E np \in Pairs : Progress(np[1], np[2]))

-----------------------------------------------------------------------------

TypeOK ==
    /\ \A n, p \in Nodes : session[n][p] # None => session[n][p] \in Sessions(1..drawn)
    /\ \A n, p \in Nodes : told[n][p] \in {"none", "Connected", "Disconnected"}
    /\ \A n, p \in Nodes : \A i \in DOMAIN link[n][p] : split_packet(link[n][p][i]) # {}
    /\ \A n, p \in Nodes : \A i \in DOMAIN unsent[n][p] : unsent[n][p][i].task \in Tasks
    /\ drawn \in Nat
    /\ seen \subseteq Disturbances \cup {"retry", "late", "overwrite"}

(* Nothing is on its way between n and p, and both have a session. *)
Settled(n, p) ==
    /\ link[n][p] = <<>> /\ link[p][n] = <<>>
    /\ session[n][p] # None /\ session[p][n] # None
    /\ session[n][p].state = "Established" /\ session[p][n].state = "Established"

(* Whoever sends first, or both at once, and whatever is lost: the two     *)
(* ends of a session settle on one conversation, because a tie is broken   *)
(* the same way at both ends (transport.rs:701-724) and a SYN_ACK counts   *)
(* only for the conversation it names (transport.rs:771).  Not after a SYN *)
(* retry, nor when a SYN is late, delayed by the network or overtaken by   *)
(* what its own sender sends: see AgreedSessionSurvives.  Nor if not even  *)
(* one retry is configured: a session is then abandoned, and its SYN       *)
(* answered if the RESET is lost.                                          *)
Agreement ==
    \A np \in Pairs :
        (seen \subseteq {"loss"} /\ Settled(np[1], np[2]))
            => session[np[1]][np[2]].conv_id = session[np[2]][np[1]].conv_id

(* When every message up to one is acknowledged, the peer's recv() got it: *)
(* the drain after every input (transport.rs:635-646) leaves nothing       *)
(* behind, even of data that arrives before the handshake is complete.     *)
(* Where datagrams keep the order in which it was decided to send them: a  *)
(* SYN that arrives late can recreate a session in the middle of its       *)
(* conversation.  And unless both a loss and a crash happen, or a crash    *)
(* takes what was about to be sent, which is both: the tie-break gives a   *)
(* session another conversation and keeps its KCP state                    *)
(* (transport.rs:701-711).  If its SYN_ACK was lost it may have received   *)
(* data by then, and when that peer has restarted too, it takes the        *)
(* messages of the new conversation for old ones.                          *)
AckedWasDelivered ==
    (seen \cap {"dup", "reorder", "late"} = {} /\ ~({"loss", "crash"} \subseteq seen)) =>
        \A np \in Pairs :
            LET s == session[np[1]][np[2]]
            IN  s # None =>
                   \A sn \in 1..s.snd :
                       (1..sn) \cap Unacked(s) = {} =>
                           <<np[2], np[1], s.conv_id, sn>> \in delivered

(* A subscriber hears Connected before recv() yields data of the session   *)
(* (transport.rs:28-31), although a session takes data in SynSent          *)
(* (transport.rs:632) and the loser of a tie flushes before it sends its   *)
(* SYN_ACK (transport.rs:707-713).  The winner's SYN_ACK is the loser's    *)
(* own SYN, which is earlier on the link: unless it is lost or overtaken.  *)
(* The code itself lets it be overtaken: while the first SYN waits to be   *)
(* sent (transport.rs:306-312), another send() queues data, and the        *)
(* tie-break flushes it.                                                   *)
DataFollowsConnected ==
    seen \cap {"loss", "reorder", "late"} = {} =>
        \A np \in Pairs :
            (session[np[1]][np[2]] # None /\ session[np[1]][np[2]].rcv_nxt > 1)
                => told[np[1]][np[2]] = "Connected"

(* What send() took does not stay in limbo, whatever went wrong: it is     *)
(* acknowledged, or the session goes (SYN retries, the dead link, a RESET, *)
(* a SYN of another conversation), also when the two ends disagree and     *)
(* each refuses what the other sends (session.rs:251-265, 304).            *)
SentIsResolved ==
    \A np \in Pairs :
        LET s == session[np[1]][np[2]]
        IN  (s # None /\ Unacked(s) # {}) ~> (s = None \/ Unacked(s) = {})

-----------------------------------------------------------------------------
(* What the documentation says and the code does not do. *)

(* n and p are established in one conversation, and n moves to another. *)
AgreedSessionReplaced(n, p) ==
    LET s == session[n][p]
        t == session'[n][p]
        peer == session[p][n]
    IN  /\ s # None /\ t # None /\ s.conv_id # t.conv_id /\ s.state = "Established"
        /\ peer # None /\ peer.conv_id = s.conv_id

(* README.md:180: "The incarnation number prevents stale SYN packets from  *)
(* interfering with active sessions." transport.rs:308-310: the receiver   *)
(* "never sees a spurious second SYN that would trigger crash recovery and *)
(* destroy the session".  An established session whose peer is in the same *)
(* conversation is not replaced, at least without any fault.  No packet    *)
(* carries the incarnation, and any SYN of another conversation replaces   *)
(* the session (transport.rs:724-728): a retry that crossed the tie-break, *)
(* or the first SYN, whose conversation was read before the tie-break      *)
(* (session.rs:173) and which is sent after its SYN_ACK (175).             *)
AgreedSessionSurvives ==
    [][\A np \in Pairs :
          seen' \subseteq {"retry", "late"} => ~AgreedSessionReplaced(np[1], np[2])]_vars

=============================================================================
