--------------------------- MODULE HandshakeProofs ---------------------------
(***************************************************************************)
(* Proofs about Handshake, for any peers, limits and disturbances.         *)
(***************************************************************************)
EXTENDS Handshake, Induction, SequenceTheorems, FiniteSetTheorems

-----------------------------------------------------------------------------
(* Datagrams. *)

Word == Nat \cup {"push", "ack"}

(* What can be on a link when the conversations C are in use. *)
Datagram(C) ==
    {d \in Seq(Word) :
        /\ Len(d) >= 2
        /\ d[1] \in 0..3
        /\ d[2] \in C
        /\ d[1] = 0 => /\ d[3] \in {"push", "ack"}
                       /\ d[4] \in 1..MaxSends
                       /\ d[5] \in 1..(MaxSends + 1)}

(* A KCP segment of conversation c, and a control packet of it. *)
Data(c) == {d \in Datagram({c}) : d[1] = 0}
Control(b, c) == {d \in Datagram({c}) : d[1] = b}

LEMMA ControlForm ==
  ASSUME NEW c \in Nat
  PROVE  /\ encode_control("Syn", c) \in Control(1, c)
         /\ encode_control("SynAck", c) \in Control(2, c)
         /\ encode_control("Reset", c) \in Control(3, c)
<1>1. \A b \in 1..3 : <<b, c>> \in Control(b, c)
  BY DEF Control, Datagram, Word
<1> QED
  BY <1>1 DEF encode_control, Byte

LEMMA SegmentForm ==
  ASSUME NEW c \in Nat, NEW kind \in {"push", "ack"}, NEW sn \in 1..MaxSends,
         NEW una \in 1..(MaxSends + 1)
  PROVE  LET d == encode_kcp_data(<<c, kind, sn, una>>)
         IN  d \in Data(c) /\ d[3] = kind /\ d[4] = sn /\ d[5] = una
<1> DEFINE seg == <<c, kind, sn, una>>
<1>1. sn \in Nat /\ una \in Nat
  BY HandshakeLimits
<1>2. /\ seg \in Seq(Word) /\ Len(seg) = 4
      /\ seg[1] = c /\ seg[2] = kind /\ seg[3] = sn /\ seg[4] = una
  BY <1>1 DEF Word
<1>3. <<0>> \in Seq(Word) /\ Len(<<0>>) = 1 /\ <<0>>[1] = 0
  BY DEF Word
<1> HIDE DEF seg
<1>4. PICK z \in Seq(Word) : z = <<0>> /\ Len(z) = 1 /\ z[1] = 0
  BY <1>3
<1> DEFINE cat == z \o seg
<1>5. /\ cat \in Seq(Word)
      /\ Len(cat) = Len(z) + Len(seg)
      /\ \A i \in 1..(Len(z) + Len(seg)) : cat[i] = IF i <= Len(z) THEN z[i] ELSE seg[i - Len(z)]
  BY <1>2, ConcatProperties, Zenon
<1> HIDE DEF cat
<1>6. Len(cat) = 5 /\ cat[1] = 0 /\ cat[2] = c /\ cat[3] = kind /\ cat[4] = sn /\ cat[5] = una
  BY <1>2, <1>4, <1>5
<1>7. cat \in Datagram({c})
  <2>1. Len(cat) >= 2 /\ cat[1] \in 0..3 /\ cat[2] \in {c}
    BY <1>6
  <2> QED
    BY <1>5, <1>6, <2>1, Zenon DEF Datagram
<1>8. cat \in Data(c)
  BY <1>6, <1>7 DEF Data
<1>9. Byte["KcpData"] = 0
  BY DEF Byte
<1> QED
  BY <1>4, <1>5, <1>6, <1>8, <1>9 DEF encode_kcp_data, seg, cat

(* split_packet takes a datagram apart: its type, and the conversation at  *)
(* the head of the payload.                                                *)
LEMMA SplitForm ==
  ASSUME NEW C, NEW d \in Datagram(C), NEW pkt \in split_packet(d)
  PROVE  /\ pkt.typ \in PacketType
         /\ Byte[pkt.typ] = d[1]
         /\ Head(pkt.payload) = d[2]
<1>1. d \in Seq(Word) /\ Len(d) >= 2 /\ d # <<>>
  BY DEF Datagram
<1>2. Head(d) = d[1] /\ Tail(d) \in Seq(Word) /\ Len(Tail(d)) = Len(d) - 1 /\ Tail(d)[1] = d[2]
  BY <1>1, HeadTailProperties
<1>3. Head(Tail(d)) = d[2]
  BY <1>1, <1>2
<1>4. PICK typ \in FromByte(d[1]) : pkt = [typ |-> typ, payload |-> Tail(d)]
  BY <1>1, <1>2 DEF split_packet
<1> QED
  BY <1>3, <1>4 DEF FromByte

LEMMA Splits ==
  ASSUME NEW C, NEW d \in Datagram(C)
  PROVE  split_packet(d) # {}
<1>1. d \in Seq(Word) /\ Len(d) >= 2 /\ d # <<>> /\ Head(d) = d[1] /\ d[1] \in 0..3
  BY DEF Datagram
<1>2. \E typ \in PacketType : Byte[typ] = d[1]
  BY <1>1 DEF PacketType, Byte
<1> QED
  BY <1>1, <1>2 DEF split_packet, FromByte

-----------------------------------------------------------------------------
(* The order in which a flush walks its buffers. *)

(* Every set of message numbers can be listed in ascending order. *)
LEMMA AscendingExists ==
  ASSUME NEW S \in SUBSET (1..MaxSends)
  PROVE  \E q \in [1..Cardinality(S) -> S] : \A i, j \in DOMAIN q : i < j => q[i] < q[j]
<1> DEFINE Listed(A) ==
             \E q \in [1..Cardinality(A) -> A] : \A i, j \in DOMAIN q : i < j => q[i] < q[j]
           T == {n \in Nat : \A A \in SUBSET (1..n) : Listed(A)}
<1>1. 0 \in T
  <2>1. Cardinality({}) = 0
    BY FS_EmptySet
  <2>2. Listed({})
    <3>1. <<>> \in [1..0 -> {}] /\ DOMAIN <<>> = {}
      OBVIOUS
    <3> QED
      BY <2>1, <3>1
  <2> QED
    BY <2>2, 1..0 = {}
<1>2. ASSUME NEW n \in Nat, n \in T PROVE n + 1 \in T
  <2> SUFFICES ASSUME NEW A \in SUBSET (1..(n + 1)) PROVE Listed(A)
    <3> HIDE DEF Listed
    <3> QED
      OBVIOUS
  <2>1. CASE n + 1 \notin A
    <3>1. A \in SUBSET (1..n)
      BY <2>1
    <3> QED
      BY <1>2, <3>1
  <2>2. CASE n + 1 \in A
    <3> DEFINE B == A \ {n + 1}
    <3>1. B \in SUBSET (1..n)
      OBVIOUS
    <3>2. PICK q \in [1..Cardinality(B) -> B] : \A i, j \in DOMAIN q : i < j => q[i] < q[j]
      BY <1>2, <3>1
    <3>3. IsFiniteSet(A)
      <4>1. IsFiniteSet(1..(n + 1))
        BY FS_Interval, 1 \in Int, n + 1 \in Int
      <4> QED
        BY <4>1, FS_Subset
    <3>4. Cardinality(A) \in Nat /\ Cardinality(B) = Cardinality(A) - 1 /\ Cardinality(B) \in Nat
      BY <2>2, <3>3, FS_RemoveElement, FS_CardinalityType
    <3> DEFINE m == Cardinality(A)
               r == [i \in 1..m |-> IF i = m THEN n + 1 ELSE q[i]]
    <3> HIDE DEF m, B
    <3>5. \A i \in 1..m : i # m => i \in 1..Cardinality(B) /\ q[i] \in B /\ q[i] \in 1..n
      <4> SUFFICES ASSUME NEW i \in 1..m, i # m
                   PROVE  i \in 1..Cardinality(B) /\ q[i] \in B /\ q[i] \in 1..n
        OBVIOUS
      <4>1. m \in Nat /\ Cardinality(B) = m - 1
        BY <3>4 DEF m
      <4>2. i \in 1..Cardinality(B)
        BY <4>1
      <4> QED
        BY <3>1, <4>2
    <3>6. r \in [1..m -> A]
      BY <2>2, <3>5 DEF B
    <3>7. ASSUME NEW i \in 1..m, NEW j \in 1..m, i < j PROVE r[i] < r[j]
      <4>1. i # m /\ q[i] \in 1..n /\ r[i] = q[i] /\ i \in DOMAIN q
        BY <3>2, <3>4, <3>5, <3>7 DEF m
      <4>2. CASE j = m
        BY <4>1, <4>2
      <4>3. CASE j # m
        BY <3>2, <3>5, <3>7, <4>1, <4>3
      <4> QED
        BY <4>2, <4>3
    <3> QED
      BY <3>6, <3>7 DEF m
  <2> QED
    BY <2>1, <2>2
<1>3. MaxSends \in T
  <2> HIDE DEF T
  <2> QED
    BY <1>1, <1>2, SetInduction, HandshakeLimits
<1> QED
  BY <1>3

LEMMA AscendingForm ==
  ASSUME NEW S \in SUBSET (1..MaxSends)
  PROVE  Ascending(S) \in Seq(S) /\ Ascending(S) \in Seq(1..MaxSends)
<1>1. Ascending(S) \in [1..Cardinality(S) -> S]
  BY AscendingExists DEF Ascending
<1>2. Cardinality(S) \in Nat
  <2>1. IsFiniteSet(1..MaxSends)
    BY FS_Interval, HandshakeLimits, 1 \in Int
  <2>2. IsFiniteSet(S)
    BY <2>1, FS_Subset
  <2> QED
    BY <2>2, FS_CardinalityType
<1>3. Ascending(S) \in [1..Cardinality(S) -> 1..MaxSends]
  BY <1>1
<1>4. ASSUME NEW X, Ascending(S) \in [1..Cardinality(S) -> X] PROVE Ascending(S) \in Seq(X)
  BY <1>2, <1>4, SeqDef, Zenon
<1> QED
  BY <1>1, <1>3, <1>4

(* Segments of the session's conversation: they say what it expects next,  *)
(* and acknowledge only what it has to.                                    *)
Said(s) ==
    {d \in Data(s.conv_id) : d[5] = s.rcv_nxt /\ (d[3] = "ack" => d[4] \in s.acks)}

(* That is what a flush puts on the link. *)
LEMMA SegmentsForm ==
  ASSUME NEW s, NEW sns \in SUBSET (1..MaxSends), s.conv_id \in Nat,
         s.acks \in SUBSET (1..MaxSends), s.rcv_nxt \in 1..(MaxSends + 1)
  PROVE  Segments(s, sns) \in Seq(Said(s)) /\ Segments(s, sns) \in Seq(Data(s.conv_id))
<1> DEFINE all(kind, set) ==
             [i \in DOMAIN Ascending(set) |->
                 encode_kcp_data(<<s.conv_id, kind, Ascending(set)[i], s.rcv_nxt>>)]
<1>1. ASSUME NEW kind \in {"push", "ack"}, NEW set \in SUBSET (1..MaxSends),
             kind = "ack" => set \subseteq s.acks
      PROVE  all(kind, set) \in Seq(Said(s))
  <2>1. PICK q \in Seq(set) : q = Ascending(set)
    BY AscendingForm
  <2>2. \A i \in 1..Len(q) :
           encode_kcp_data(<<s.conv_id, kind, q[i], s.rcv_nxt>>) \in Said(s)
    <3> SUFFICES ASSUME NEW i \in 1..Len(q)
                 PROVE  encode_kcp_data(<<s.conv_id, kind, q[i], s.rcv_nxt>>) \in Said(s)
      OBVIOUS
    <3>1. q[i] \in set /\ q[i] \in 1..MaxSends
      BY ElementOfSeq
    <3>2. PICK d : d = encode_kcp_data(<<s.conv_id, kind, q[i], s.rcv_nxt>>)
      OBVIOUS
    <3>3. d \in Data(s.conv_id) /\ d[3] = kind /\ d[4] = q[i] /\ d[5] = s.rcv_nxt
      BY <3>1, <3>2, SegmentForm
    <3>4. d \in Said(s)
      BY <1>1, <3>1, <3>3, Zenon DEF Said
    <3> QED
      BY <3>2, <3>4
  <2>3. all(kind, set) = [i \in 1..Len(q) |->
           encode_kcp_data(<<s.conv_id, kind, q[i], s.rcv_nxt>>)]
    BY <2>1
  <2> QED
    <3> DEFINE e(i) == encode_kcp_data(<<s.conv_id, kind, q[i], s.rcv_nxt>>)
    <3>1. \A i \in 1..Len(q) : e(i) \in Said(s)
      BY <2>2
    <3> HIDE DEF e
    <3>2. [i \in 1..Len(q) |-> e(i)] \in [1..Len(q) -> Said(s)]
      BY <3>1
    <3>3. [i \in 1..Len(q) |-> e(i)] \in Seq(Said(s))
      BY <3>2, SeqDef, LenProperties
    <3> QED
      BY <2>3, <3>3 DEF e
<1> HIDE DEF all
<1>2. all("ack", s.acks) \o all("push", sns) \in Seq(Said(s))
  <2>1. all("ack", s.acks) \in Seq(Said(s)) /\ all("push", sns) \in Seq(Said(s))
    BY <1>1
  <2> QED
    BY <2>1, ConcatProperties
<1>3. Seq(Said(s)) \subseteq Seq(Data(s.conv_id))
  <2>1. Said(s) \subseteq Data(s.conv_id)
    BY Zenon DEF Said
  <2> QED
    BY <2>1, SeqMonotonic
<1> QED
  BY <1>2, <1>3 DEF Segments, all

-----------------------------------------------------------------------------
(* Sessions. *)

Buffers == UNION {[S -> 0..(DeadLink - 1)] : S \in SUBSET (1..MaxSends)}

(* Sessions(1..D), with a name for the buffers. *)
Records(D) ==
    [conv_id : 1..D, state : {"SynSent", "Established"}, syn_retries : 0..SynMaxRetries,
     snd : 0..MaxSends, snd_buf : Buffers,
     rcv_nxt : 1..(MaxSends + 1), rcv_buf : SUBSET (1..MaxSends), acks : SUBSET (1..MaxSends)]

(* A session when D conversations have been drawn and K messages sent.     *)
(* Nothing is transmitted during the handshake.                            *)
Sound(s, D, K) ==
    /\ s \in Records(D)
    /\ s.snd <= K
    /\ Unacked(s) \subseteq 1..s.snd
    /\ s.state = "SynSent" => \A sn \in Unacked(s) : s.snd_buf[sn] = 0

LEMMA BufferForm ==
  ASSUME NEW b
  PROVE  b \in Buffers <=> DOMAIN b \in SUBSET (1..MaxSends) /\ b \in [DOMAIN b -> 0..(DeadLink - 1)]
BY DEF Buffers

LEMMA SoundLater ==
  ASSUME NEW D \in Nat, NEW K \in Nat, NEW E \in Nat, NEW L \in Nat, D <= E, K <= L,
         NEW s, Sound(s, D, K)
  PROVE  Sound(s, E, L)
<1>1. s \in Records(E)
  BY DEF Sound, Records
<1>2. s.snd \in Nat
  BY HandshakeLimits DEF Sound, Records
<1> QED
  BY <1>1, <1>2 DEF Sound

LEMMA NewIsSound ==
  ASSUME NEW D \in Nat, NEW K \in Nat, NEW c \in 1..D, NEW st \in {"SynSent", "Established"}
  PROVE  LET s == NewSession(c, st)
         IN  /\ Sound(s, D, K)
             /\ s.conv_id = c /\ s.state = st /\ s.rcv_nxt = 1 /\ s.snd = 0
<1> DEFINE s == NewSession(c, st)
<1>1. <<>> \in Buffers /\ DOMAIN <<>> = {}
  <2>1. DOMAIN <<>> = {} /\ <<>> \in [{} -> 0..(DeadLink - 1)]
    OBVIOUS
  <2> QED
    BY <2>1 DEF Buffers
<1>2. s.conv_id = c /\ s.state = st /\ s.rcv_nxt = 1 /\ s.snd = 0 /\ s.snd_buf = <<>>
  BY DEF NewSession
<1>3. s \in Records(D)
  BY <1>1, HandshakeLimits DEF NewSession, Records
<1> QED
  BY <1>1, <1>2, <1>3 DEF Sound, Unacked

LEMMA QueueIsSound ==
  ASSUME NEW D \in Nat, NEW K \in Nat, K + 1 <= MaxSends, NEW s, Sound(s, D, K)
  PROVE  LET t == Queue(s)
         IN  /\ Sound(t, D, K + 1)
             /\ t.conv_id = s.conv_id /\ t.state = s.state /\ t.rcv_nxt = s.rcv_nxt
             /\ t.snd \in Unacked(t) /\ t.snd_buf[t.snd] = 0
<1> DEFINE t == Queue(s)
           b == [sn \in DOMAIN s.snd_buf \cup {s.snd + 1} |->
                    IF sn \in DOMAIN s.snd_buf THEN s.snd_buf[sn] ELSE 0]
<1>1. s \in Records(D) /\ s.snd_buf \in Buffers /\ s.snd \in 0..MaxSends /\ s.snd <= K
  BY DEF Sound, Records
<1>2. s.snd + 1 \in 1..MaxSends /\ s.snd + 1 \in 0..MaxSends /\ s.snd + 1 <= K + 1
  BY <1>1, HandshakeLimits
<1>3. t = [s EXCEPT !.snd = s.snd + 1, !.snd_buf = b]
  BY DEF Queue
<1>4. b \in Buffers /\ DOMAIN b = Unacked(s) \cup {s.snd + 1}
  <2>1. DOMAIN s.snd_buf \in SUBSET (1..MaxSends) /\ s.snd_buf \in [DOMAIN s.snd_buf -> 0..(DeadLink - 1)]
    BY <1>1, BufferForm
  <2>2. 0 \in 0..(DeadLink - 1)
    BY HandshakeLimits
  <2>3. b \in [DOMAIN s.snd_buf \cup {s.snd + 1} -> 0..(DeadLink - 1)]
    BY <2>1, <2>2
  <2>4. DOMAIN s.snd_buf \cup {s.snd + 1} \in SUBSET (1..MaxSends)
    BY <1>2, <2>1
  <2> HIDE DEF b
  <2> QED
    BY <2>3, <2>4, BufferForm DEF Unacked
<1>5. s.snd + 1 \notin DOMAIN s.snd_buf
  BY <1>1, HandshakeLimits DEF Sound, Unacked
<1>6. b[s.snd + 1] = 0 /\ \A sn \in DOMAIN s.snd_buf : b[sn] = s.snd_buf[sn]
  BY <1>5
<1> HIDE DEF b
<1>7. t \in Records(D)
  BY <1>1, <1>2, <1>3, <1>4 DEF Records
<1>8. /\ t.conv_id = s.conv_id /\ t.state = s.state /\ t.rcv_nxt = s.rcv_nxt
      /\ t.snd = s.snd + 1 /\ t.snd_buf = b
  BY <1>1, <1>3 DEF Records
<1> HIDE DEF t
<1>9. Unacked(t) \subseteq 1..t.snd
  BY <1>1, <1>2, <1>4, <1>8, HandshakeLimits DEF Sound, Unacked
<1>10. t.state = "SynSent" => \A sn \in Unacked(t) : t.snd_buf[sn] = 0
  BY <1>4, <1>6, <1>8 DEF Sound, Unacked
<1>11. Sound(t, D, K + 1)
  BY <1>2, <1>7, <1>8, <1>9, <1>10 DEF Sound
<1> QED
  BY <1>4, <1>6, <1>8, <1>11 DEF Unacked, t

(* A flush in the handshake would transmit; the code flushes only sessions *)
(* that are established by then, or nothing but acknowledgements.          *)
LEMMA FlushedIsSound ==
  ASSUME NEW D \in Nat, NEW K \in Nat, NEW s, Sound(s, D, K), s.state = "Established",
         NEW sns, \A sn \in Unacked(s) : sn \in sns => s.snd_buf[sn] + 1 < DeadLink
  PROVE  LET t == Flushed(s, sns)
         IN  Sound(t, D, K) /\ t.conv_id = s.conv_id /\ t.state = "Established"
<1> DEFINE t == Flushed(s, sns)
           b == [sn \in DOMAIN s.snd_buf |->
                    IF sn \in sns THEN s.snd_buf[sn] + 1 ELSE s.snd_buf[sn]]
<1>1. s \in Records(D) /\ s.snd_buf \in Buffers
  BY DEF Sound, Records
<1>2. t = [s EXCEPT !.acks = {}, !.snd_buf = b]
  BY DEF Flushed
<1>3. b \in Buffers /\ DOMAIN b = Unacked(s)
  <2>1. DOMAIN s.snd_buf \in SUBSET (1..MaxSends) /\ s.snd_buf \in [DOMAIN s.snd_buf -> 0..(DeadLink - 1)]
    BY <1>1, BufferForm
  <2>2. ASSUME NEW sn \in DOMAIN s.snd_buf PROVE b[sn] \in 0..(DeadLink - 1)
    BY <2>1, HandshakeLimits DEF Unacked
  <2>3. b \in [DOMAIN s.snd_buf -> 0..(DeadLink - 1)]
    BY <2>2
  <2> HIDE DEF b
  <2> QED
    BY <2>1, <2>3, BufferForm DEF Unacked
<1> HIDE DEF b
<1>4. t \in Records(D)
  BY <1>1, <1>2, <1>3 DEF Records
<1>5. t.conv_id = s.conv_id /\ t.state = s.state /\ t.snd = s.snd /\ t.snd_buf = b
  BY <1>1, <1>2 DEF Records
<1> HIDE DEF t
<1>6. Sound(t, D, K)
  BY <1>3, <1>4, <1>5 DEF Sound, Unacked
<1> QED
  BY <1>5, <1>6 DEF t

LEMMA AcknowledgeIsSound ==
  ASSUME NEW D \in Nat, NEW K \in Nat, NEW s, Sound(s, D, K), NEW sns
  PROVE  LET t == Acknowledge(s, sns)
         IN  /\ Sound(t, D, K)
             /\ t.conv_id = s.conv_id /\ t.state = s.state /\ t.rcv_nxt = s.rcv_nxt
<1> DEFINE t == Acknowledge(s, sns)
           S == {sn \in DOMAIN s.snd_buf : sn \notin sns \/ s.snd_buf[sn] = 0}
           b == [sn \in S |-> s.snd_buf[sn]]
<1>1. s \in Records(D) /\ s.snd_buf \in Buffers
  BY DEF Sound, Records
<1>2. t = [s EXCEPT !.snd_buf = b]
  BY DEF Acknowledge, Restrict
<1>3. S \subseteq Unacked(s)
  BY DEF Unacked
<1> HIDE DEF S
<1>4. b \in Buffers /\ DOMAIN b = S
  <2>1. DOMAIN s.snd_buf \in SUBSET (1..MaxSends) /\ s.snd_buf \in [DOMAIN s.snd_buf -> 0..(DeadLink - 1)]
    BY <1>1, BufferForm
  <2>2. b \in [S -> 0..(DeadLink - 1)] /\ S \in SUBSET (1..MaxSends)
    BY <1>3, <2>1 DEF Unacked
  <2> HIDE DEF b
  <2> QED
    BY <2>2, BufferForm
<1>5. \A sn \in S : b[sn] = s.snd_buf[sn]
  OBVIOUS
<1> HIDE DEF b
<1>6. t \in Records(D)
  BY <1>1, <1>2, <1>4 DEF Records
<1>7. /\ t.conv_id = s.conv_id /\ t.state = s.state /\ t.rcv_nxt = s.rcv_nxt
      /\ t.snd = s.snd /\ t.snd_buf = b
  BY <1>1, <1>2 DEF Records
<1> HIDE DEF t
<1>8. Sound(t, D, K)
  BY <1>3, <1>4, <1>5, <1>6, <1>7 DEF Sound, Unacked
<1> QED
  BY <1>7, <1>8 DEF t

(* There is a first message that is not there. *)
LEMMA NextExpectedForm ==
  ASSUME NEW s, s.rcv_nxt \in 1..(MaxSends + 1), s.rcv_buf \in SUBSET (1..MaxSends),
         NEW sn \in 1..MaxSends
  PROVE  LET k == NextExpected(s, sn)
         IN  /\ k \in s.rcv_nxt..(MaxSends + 1)
             /\ k \notin s.rcv_buf \cup {sn}
             /\ s.rcv_nxt..(k - 1) \subseteq s.rcv_buf \cup {sn}
<1> DEFINE there == s.rcv_buf \cup {sn}
           T == {k \in s.rcv_nxt..(MaxSends + 1) : k \notin there}
<1>1. s.rcv_nxt \in Nat /\ MaxSends \in Nat /\ there \subseteq 1..MaxSends
  BY HandshakeLimits
<1> HIDE DEF there
<1>2. MaxSends + 1 \in T /\ T \in SUBSET Nat
  BY <1>1
<1>3. PICK k \in T : \A l \in T : k <= l
  BY <1>2, LeastNumber
<1>4. s.rcv_nxt..(k - 1) \subseteq there
  BY <1>1, <1>3
<1>5. \E j \in s.rcv_nxt..(MaxSends + 1) :
         j \notin s.rcv_buf \cup {sn} /\ s.rcv_nxt..(j - 1) \subseteq s.rcv_buf \cup {sn}
  BY <1>3, <1>4 DEF there
<1> QED
  BY <1>5 DEF NextExpected

LEMMA ArrivedIsSound ==
  ASSUME NEW D \in Nat, NEW K \in Nat, NEW s, Sound(s, D, K), NEW sn \in 1..MaxSends
  PROVE  LET t == Arrived(s, sn)
         IN  Sound(t, D, K) /\ t.conv_id = s.conv_id /\ t.state = s.state
<1> DEFINE t == Arrived(s, sn)
           nxt == NextExpected(s, sn)
<1>1. /\ s \in Records(D) /\ s.rcv_nxt \in 1..(MaxSends + 1) /\ s.rcv_buf \in SUBSET (1..MaxSends)
      /\ s.acks \in SUBSET (1..MaxSends)
  BY DEF Sound, Records
<1>2. nxt \in 1..(MaxSends + 1)
  BY <1>1, NextExpectedForm, HandshakeLimits
<1>3. t = IF sn < s.rcv_nxt
          THEN [s EXCEPT !.acks = s.acks \cup {sn}]
          ELSE [s EXCEPT !.acks = s.acks \cup {sn}, !.rcv_nxt = nxt,
                         !.rcv_buf = (s.rcv_buf \cup {sn}) \ (1..(nxt - 1))]
  BY DEF Arrived
<1>4. s.acks \cup {sn} \in SUBSET (1..MaxSends)
      /\ (s.rcv_buf \cup {sn}) \ (1..(nxt - 1)) \in SUBSET (1..MaxSends)
  BY <1>1
<1> HIDE DEF nxt, t
<1>5. t \in Records(D)
  BY <1>1, <1>2, <1>3, <1>4 DEF Records
<1>6. t.conv_id = s.conv_id /\ t.state = s.state /\ t.snd = s.snd /\ t.snd_buf = s.snd_buf
  BY <1>1, <1>3 DEF Records
<1> QED
  BY <1>5, <1>6 DEF Sound, Unacked, t

LEMMA EstablishedIsSound ==
  ASSUME NEW D \in Nat, NEW K \in Nat, NEW s, Sound(s, D, K), NEW c \in 1..D
  PROVE  LET t == Established(s, c)
         IN  /\ Sound(t, D, K)
             /\ t.conv_id = c /\ t.state = "Established" /\ t.snd_buf = s.snd_buf
<1> DEFINE t == Established(s, c)
<1>1. s \in Records(D) /\ t = [s EXCEPT !.state = "Established", !.conv_id = c]
  BY DEF Sound, Established
<1> HIDE DEF t
<1>2. t \in Records(D)
  BY <1>1 DEF Records
<1>3. t.conv_id = c /\ t.state = "Established" /\ t.snd = s.snd /\ t.snd_buf = s.snd_buf
  BY <1>1 DEF Records
<1> QED
  BY <1>2, <1>3 DEF Sound, Unacked, t

-----------------------------------------------------------------------------
(* What the order of the datagrams between two peers says.  A peer has the *)
(* session s, and out is on its way from it; the other has t and in is on  *)
(* its way back.                                                           *)

Waiting(s) == s # None /\ s.state = "SynSent"

SynOf(d, c) == d[1] = 1 /\ d[2] = c
DataOf(d, c) == d[1] = 0 /\ d[2] = c

(* The arrival of d would complete the handshake of conversation c. *)
Completes(d, c) == (d[1] = 1 /\ d[2] # c) \/ (d[1] = 2 /\ d[2] = c)

Completed(q, c) == \E j \in DOMAIN q : Completes(q[j], c)

(* No data of c comes before what completes its handshake. *)
DataWaits(q, c) ==
    \A i \in DOMAIN q : DataOf(q[i], c) => \E j \in 1..(i - 1) : Completes(q[j], c)

(* While a handshake is on, the SYN is on its way, or else what completes  *)
(* it is, and that was sent before the other side began a handshake of its *)
(* own, if it has.                                                         *)
SynIsAnswered(s, t, out, in) ==
    \/ \E i \in DOMAIN out : SynOf(out[i], s.conv_id)
    \/ \E j \in DOMAIN in :
          /\ Completes(in[j], s.conv_id)
          /\ Waiting(t) => \A k \in DOMAIN in : SynOf(in[k], t.conv_id) => j < k

Guarded(s, t, out, in) ==
    Waiting(s) =>
        /\ s.rcv_nxt = 1
        /\ Waiting(t) => t.conv_id # s.conv_id
        /\ DataWaits(in, s.conv_id)
        /\ (t # None /\ t.conv_id = s.conv_id) => Completed(in, s.conv_id)
        /\ SynIsAnswered(s, t, out, in)

(* Where an element of a concatenation comes from. *)
LEMMA ConcatIndices ==
  ASSUME NEW S, NEW q \in Seq(S), NEW x \in Seq(S)
  PROVE  /\ q \o x \in Seq(S)
         /\ \A i \in DOMAIN q : i \in DOMAIN (q \o x) /\ (q \o x)[i] = q[i]
         /\ \A i \in DOMAIN (q \o x) : i \notin DOMAIN q =>
               \E k \in DOMAIN x : i = Len(q) + k /\ (q \o x)[i] = x[k]
         /\ \A k \in DOMAIN x : Len(q) + k \in DOMAIN (q \o x) /\ (q \o x)[Len(q) + k] = x[k]
<1> DEFINE c == q \o x
<1>1. /\ c \in Seq(S) /\ Len(c) = Len(q) + Len(x)
      /\ \A i \in 1..(Len(q) + Len(x)) : c[i] = IF i <= Len(q) THEN q[i] ELSE x[i - Len(q)]
  BY ConcatProperties, Zenon
<1>2. /\ DOMAIN c = 1..Len(c) /\ DOMAIN q = 1..Len(q) /\ DOMAIN x = 1..Len(x)
      /\ Len(q) \in Nat /\ Len(x) \in Nat
  BY <1>1, LenProperties
<1> HIDE DEF c
<1>3. \A i \in DOMAIN q : i \in DOMAIN c /\ c[i] = q[i]
  BY <1>1, <1>2
<1>4. ASSUME NEW i \in DOMAIN c, i \notin DOMAIN q
      PROVE  \E k \in DOMAIN x : i = Len(q) + k /\ c[i] = x[k]
  <2>1. i - Len(q) \in 1..Len(x) /\ i = Len(q) + (i - Len(q)) /\ ~(i <= Len(q)) /\ i \in 1..(Len(q) + Len(x))
    BY <1>1, <1>2, <1>4
  <2>2. c[i] = x[i - Len(q)]
    BY <1>1, <2>1
  <2> QED
    BY <1>2, <2>1, <2>2
<1>5. \A k \in DOMAIN x : Len(q) + k \in DOMAIN c /\ c[Len(q) + k] = x[k]
  <2> SUFFICES ASSUME NEW k \in 1..Len(x) PROVE Len(q) + k \in 1..Len(c) /\ c[Len(q) + k] = x[k]
    BY <1>2
  <2>1. Len(q) + k \in 1..(Len(q) + Len(x)) /\ ~(Len(q) + k <= Len(q)) /\ (Len(q) + k) - Len(q) = k
    BY <1>2
  <2>2. c[Len(q) + k] = x[(Len(q) + k) - Len(q)]
    BY <1>1, <2>1
  <2> QED
    BY <1>1, <2>1, <2>2
<1> QED
  BY <1>1, <1>3, <1>4, <1>5 DEF c

(* What has been said stays said when more is. *)
LEMMA CompletedGrows ==
  ASSUME NEW S, NEW q \in Seq(S), NEW x \in Seq(S), NEW c
  PROVE  Completed(q, c) \/ Completed(x, c) => Completed(q \o x, c)
<1>1. ASSUME NEW j \in DOMAIN q, Completes(q[j], c) PROVE Completed(q \o x, c)
  <2>1. j \in DOMAIN (q \o x) /\ (q \o x)[j] = q[j]
    <3>1. \A i \in DOMAIN q : i \in DOMAIN (q \o x) /\ (q \o x)[i] = q[i]
      BY ConcatIndices
    <3> QED
      BY <3>1, Zenon
  <2> QED
    BY <1>1, <2>1, Zenon DEF Completed
<1>2. ASSUME NEW j \in DOMAIN x, Completes(x[j], c) PROVE Completed(q \o x, c)
  <2>1. Len(q) + j \in DOMAIN (q \o x) /\ (q \o x)[Len(q) + j] = x[j]
    <3>1. \A k \in DOMAIN x : Len(q) + k \in DOMAIN (q \o x) /\ (q \o x)[Len(q) + k] = x[k]
      BY ConcatIndices
    <3> QED
      BY <3>1, Zenon
  <2> QED
    BY <1>2, <2>1, Zenon DEF Completed
<1> QED
  BY <1>1, <1>2, Zenon DEF Completed

LEMMA DataWaitsGrows ==
  ASSUME NEW S, NEW q \in Seq(S), NEW x \in Seq(S), NEW c, DataWaits(q, c),
         (\E k \in DOMAIN x : DataOf(x[k], c)) => Completed(q, c)
  PROVE  DataWaits(q \o x, c)
<1> DEFINE r == q \o x
<1>1. /\ \A i \in DOMAIN q : i \in DOMAIN r /\ r[i] = q[i]
      /\ \A i \in DOMAIN r : i \notin DOMAIN q => \E k \in DOMAIN x : i = Len(q) + k /\ r[i] = x[k]
  BY ConcatIndices
<1>2. DOMAIN q = 1..Len(q) /\ DOMAIN x = 1..Len(x) /\ Len(q) \in Nat /\ Len(x) \in Nat
  BY LenProperties
<1> HIDE DEF r
<1> SUFFICES ASSUME NEW i \in DOMAIN r, DataOf(r[i], c)
             PROVE  \E j \in 1..(i - 1) : Completes(r[j], c)
  BY DEF DataWaits, r
<1>3. CASE i \in DOMAIN q
  <2>1. PICK j \in 1..(i - 1) : Completes(q[j], c)
    BY <1>1, <1>3 DEF DataWaits
  <2>2. j \in DOMAIN q
    BY <1>2, <1>3
  <2> QED
    BY <1>1, <2>1, <2>2
<1>4. CASE i \notin DOMAIN q
  <2>1. PICK k \in DOMAIN x : i = Len(q) + k /\ r[i] = x[k]
    BY <1>1, <1>4
  <2>2. PICK j \in DOMAIN q : Completes(q[j], c)
    BY <2>1 DEF Completed
  <2>3. j \in 1..(i - 1)
    BY <1>2, <2>1
  <2> QED
    BY <1>1, <2>2, <2>3
<1> QED
  BY <1>3, <1>4

(* The head of a queue leaves. *)
LEMMA TailIndices ==
  ASSUME NEW S, NEW q \in Seq(S), q # <<>>
  PROVE  /\ Tail(q) \in Seq(S) /\ Len(q) \in Nat \ {0}
         /\ DOMAIN q = 1..Len(q) /\ DOMAIN Tail(q) = 1..(Len(q) - 1)
         /\ \A i \in 1..(Len(q) - 1) : Tail(q)[i] = q[i + 1]
<1>1. /\ Tail(q) \in Seq(S) /\ Len(Tail(q)) = Len(q) - 1
      /\ \A i \in 1..Len(Tail(q)) : Tail(q)[i] = q[i + 1]
  BY HeadTailProperties
<1>2. Len(q) \in Nat \ {0} /\ DOMAIN q = 1..Len(q) /\ DOMAIN Tail(q) = 1..Len(Tail(q))
  BY <1>1, EmptySeq, LenProperties
<1> QED
  BY <1>1, <1>2

LEMMA CompletedShrinks ==
  ASSUME NEW S, NEW q \in Seq(S), q # <<>>, NEW c, Completed(q, c), ~Completes(q[1], c)
  PROVE  Completed(Tail(q), c)
<1>1. PICK j \in DOMAIN q : Completes(q[j], c)
  BY DEF Completed
<1>2. j - 1 \in 1..(Len(q) - 1) /\ (j - 1) + 1 = j
  BY <1>1, TailIndices
<1>3. Tail(q)[j - 1] = q[j] /\ j - 1 \in DOMAIN Tail(q)
  BY <1>2, TailIndices
<1> QED
  BY <1>1, <1>3 DEF Completed

LEMMA DataWaitsShrinks ==
  ASSUME NEW S, NEW q \in Seq(S), q # <<>>, NEW c, DataWaits(q, c), ~Completes(q[1], c)
  PROVE  DataWaits(Tail(q), c)
<1> SUFFICES ASSUME NEW i \in DOMAIN Tail(q), DataOf(Tail(q)[i], c)
             PROVE  \E j \in 1..(i - 1) : Completes(Tail(q)[j], c)
  BY DEF DataWaits
<1>1. i \in 1..(Len(q) - 1) /\ Len(q) \in Nat /\ i + 1 \in DOMAIN q /\ Tail(q)[i] = q[i + 1]
  BY TailIndices
<1>2. PICK j \in 1..((i + 1) - 1) : Completes(q[j], c)
  BY <1>1 DEF DataWaits
<1>3. j - 1 \in 1..(i - 1) /\ j - 1 \in 1..(Len(q) - 1) /\ (j - 1) + 1 = j
  BY <1>1, <1>2
<1>4. Tail(q)[j - 1] = q[j]
  BY <1>3, TailIndices
<1> QED
  BY <1>2, <1>3, <1>4

-----------------------------------------------------------------------------
(* What one side says and hears, and Guarded on both sides. *)

(* The speaker: x goes out, s becomes u, still in the same handshake. *)
LEMMA SpeakerGuarded ==
  ASSUME NEW S, NEW out \in Seq(S), NEW in \in Seq(S), NEW x \in Seq(S), NEW s, NEW t, NEW u,
         Guarded(s, t, out, in),
         Waiting(u) => Waiting(s) /\ u.conv_id = s.conv_id /\ u.rcv_nxt = 1
  PROVE  Guarded(u, t, out \o x, in)
<1> SUFFICES ASSUME Waiting(u)
             PROVE  /\ Waiting(t) => t.conv_id # u.conv_id
                    /\ DataWaits(in, u.conv_id)
                    /\ (t # None /\ t.conv_id = u.conv_id) => Completed(in, u.conv_id)
                    /\ SynIsAnswered(u, t, out \o x, in)
  BY DEF Guarded
<1>1. /\ Waiting(t) => t.conv_id # s.conv_id
      /\ DataWaits(in, s.conv_id)
      /\ (t # None /\ t.conv_id = s.conv_id) => Completed(in, s.conv_id)
      /\ SynIsAnswered(s, t, out, in)
  BY DEF Guarded
<1>2. \A i \in DOMAIN out : i \in DOMAIN (out \o x) /\ (out \o x)[i] = out[i]
  BY ConcatIndices
<1>3. SynIsAnswered(u, t, out \o x, in)
  <2>1. ASSUME NEW i \in DOMAIN out, SynOf(out[i], s.conv_id)
        PROVE  \E k \in DOMAIN (out \o x) : SynOf((out \o x)[k], u.conv_id)
    BY <1>2, <2>1, Zenon
  <2> QED
    BY <1>1, <2>1, Zenon DEF SynIsAnswered
<1> QED
  BY <1>1, <1>3

(* The other side: x is added to what it will hear, t is its session. *)
LEMMA ListenerGuarded ==
  ASSUME NEW S, NEW out \in Seq(S), NEW in \in Seq(S), NEW x \in Seq(S), NEW s, NEW t, NEW u,
         Guarded(t, s, in, out),
         Waiting(u) => Waiting(s) /\ u.conv_id = s.conv_id,
         Waiting(t) =>
            /\ (\E k \in DOMAIN x : DataOf(x[k], t.conv_id)) => Completed(out, t.conv_id)
            /\ (u # None /\ u.conv_id = t.conv_id) =>
                  Completed(out, t.conv_id) \/ Completed(x, t.conv_id)
  PROVE  Guarded(t, u, in, out \o x)
<1> SUFFICES ASSUME Waiting(t)
             PROVE  /\ t.rcv_nxt = 1
                    /\ Waiting(u) => u.conv_id # t.conv_id
                    /\ DataWaits(out \o x, t.conv_id)
                    /\ (u # None /\ u.conv_id = t.conv_id) => Completed(out \o x, t.conv_id)
                    /\ SynIsAnswered(t, u, in, out \o x)
  BY DEF Guarded
<1>1. /\ t.rcv_nxt = 1
      /\ Waiting(s) => s.conv_id # t.conv_id
      /\ DataWaits(out, t.conv_id)
      /\ SynIsAnswered(t, s, in, out)
  BY DEF Guarded
<1>2. DataWaits(out \o x, t.conv_id)
  BY <1>1, DataWaitsGrows
<1>3. (u # None /\ u.conv_id = t.conv_id) => Completed(out \o x, t.conv_id)
  BY CompletedGrows
<1>4. SynIsAnswered(t, u, in, out \o x)
  <2>0. \A i \in DOMAIN out : i \in DOMAIN (out \o x) /\ (out \o x)[i] = out[i]
    BY ConcatIndices
  <2>1. ASSUME NEW j \in DOMAIN out, Completes(out[j], t.conv_id),
               Waiting(s) => \A k \in DOMAIN out : SynOf(out[k], s.conv_id) => j < k
        PROVE  SynIsAnswered(t, u, in, out \o x)
    <3>1. j \in DOMAIN (out \o x) /\ (out \o x)[j] = out[j]
      BY <2>0, Zenon
    <3>2. ASSUME Waiting(u), NEW k \in DOMAIN (out \o x), SynOf((out \o x)[k], u.conv_id)
          PROVE  j < k
      <4>1. CASE k \in DOMAIN out
        <5>1. (out \o x)[k] = out[k]
          BY <2>0, <4>1, Zenon
        <5> QED
          BY <2>1, <3>2, <4>1, <5>1
      <4>2. CASE k \notin DOMAIN out
        <5>1. PICK m \in DOMAIN x : k = Len(out) + m
          <6>1. \A i \in DOMAIN (out \o x) : i \notin DOMAIN out =>
                   \E m \in DOMAIN x : i = Len(out) + m /\ (out \o x)[i] = x[m]
            BY ConcatIndices
          <6> QED
            BY <4>2, <6>1, Zenon
        <5>2. j \in 1..Len(out) /\ m \in 1..Len(x) /\ Len(out) \in Nat /\ Len(x) \in Nat
          BY LenProperties
        <5> QED
          BY <5>1, <5>2
      <4> QED
        BY <4>1, <4>2
    <3> QED
      BY <2>1, <3>1, <3>2, Zenon DEF SynIsAnswered
  <2> QED
    BY <1>1, <2>1, Zenon DEF SynIsAnswered
<1> QED
  BY <1>1, <1>2, <1>3, <1>4

(* A head that does not complete the handshake is heard. *)
LEMMA HearerGuarded ==
  ASSUME NEW S, NEW out \in Seq(S), NEW in \in Seq(S), in # <<>>, NEW s, NEW t,
         Guarded(s, t, out, in),
         Waiting(s) => ~Completes(in[1], s.conv_id)
  PROVE  Guarded(s, t, out, Tail(in))
<1> SUFFICES ASSUME Waiting(s)
             PROVE  /\ DataWaits(Tail(in), s.conv_id)
                    /\ (t # None /\ t.conv_id = s.conv_id) => Completed(Tail(in), s.conv_id)
                    /\ SynIsAnswered(s, t, out, Tail(in))
  BY DEF Guarded
<1>1. /\ DataWaits(in, s.conv_id)
      /\ (t # None /\ t.conv_id = s.conv_id) => Completed(in, s.conv_id)
      /\ SynIsAnswered(s, t, out, in)
  BY DEF Guarded
<1>2. DataWaits(Tail(in), s.conv_id)
  BY <1>1, DataWaitsShrinks
<1>3. (t # None /\ t.conv_id = s.conv_id) => Completed(Tail(in), s.conv_id)
  BY <1>1, CompletedShrinks
<1>4. SynIsAnswered(s, t, out, Tail(in))
  <2>1. ASSUME NEW j \in DOMAIN in, Completes(in[j], s.conv_id),
               Waiting(t) => \A k \in DOMAIN in : SynOf(in[k], t.conv_id) => j < k
        PROVE  SynIsAnswered(s, t, out, Tail(in))
    <3>1. /\ Len(in) \in Nat /\ DOMAIN in = 1..Len(in) /\ DOMAIN Tail(in) = 1..(Len(in) - 1)
          /\ \A i \in 1..(Len(in) - 1) : Tail(in)[i] = in[i + 1]
      BY TailIndices
    <3>2. j - 1 \in 1..(Len(in) - 1) /\ (j - 1) + 1 = j
      BY <2>1, <3>1
    <3>3. j - 1 \in DOMAIN Tail(in) /\ Completes(Tail(in)[j - 1], s.conv_id)
      BY <2>1, <3>1, <3>2
    <3>4. ASSUME Waiting(t), NEW k \in DOMAIN Tail(in), SynOf(Tail(in)[k], t.conv_id)
          PROVE  j - 1 < k
      <4>1. k \in 1..(Len(in) - 1) /\ k + 1 \in DOMAIN in /\ Tail(in)[k] = in[k + 1]
        BY <3>1
      <4>2. j < k + 1
        BY <2>1, <3>4, <4>1
      <4> QED
        BY <3>1, <4>1, <4>2
    <3> QED
      BY <3>3, <3>4, Zenon DEF SynIsAnswered
  <2> QED
    BY <1>1, <2>1, Zenon DEF SynIsAnswered
<1> QED
  BY <1>2, <1>3, <1>4

(* And the one who sent it.  If it was the SYN, the answer is on its way. *)
LEMMA HeardGuarded ==
  ASSUME NEW S, NEW out \in Seq(S), NEW in \in Seq(S), in # <<>>, NEW s, NEW t,
         Guarded(t, s, in, out),
         (Waiting(t) /\ SynOf(in[1], t.conv_id)) => ~Waiting(s) /\ Completed(out, t.conv_id)
  PROVE  Guarded(t, s, Tail(in), out)
<1> SUFFICES ASSUME Waiting(t) PROVE SynIsAnswered(t, s, Tail(in), out)
  BY DEF Guarded
<1>1. SynIsAnswered(t, s, in, out)
  BY DEF Guarded
<1>2. CASE SynOf(in[1], t.conv_id)
  BY <1>2, Zenon DEF SynIsAnswered, Completed
<1>3. ASSUME ~SynOf(in[1], t.conv_id), NEW i \in DOMAIN in, SynOf(in[i], t.conv_id)
      PROVE  SynIsAnswered(t, s, Tail(in), out)
  <2>1. i - 1 \in 1..(Len(in) - 1) /\ (i - 1) + 1 = i
    BY <1>3, TailIndices
  <2>2. i - 1 \in DOMAIN Tail(in) /\ Tail(in)[i - 1] = in[i]
    BY <2>1, TailIndices
  <2> QED
    BY <1>3, <2>2, Zenon DEF SynIsAnswered
<1> QED
  BY <1>1, <1>2, <1>3, Zenon DEF SynIsAnswered

(* When both sides are in a handshake and the SYN of one has arrived, the  *)
(* SYN of the other is still on its way.                                   *)
LEMMA SynsCross ==
  ASSUME NEW S, NEW out \in Seq(S), NEW in \in Seq(S), in # <<>>, NEW s, NEW t,
         Guarded(s, t, out, in), Waiting(s), Waiting(t), SynOf(in[1], t.conv_id)
  PROVE  Completed(out, t.conv_id)
<1>1. SynIsAnswered(s, t, out, in) /\ t.conv_id # s.conv_id
  BY DEF Guarded
<1>2. ASSUME NEW j \in DOMAIN in, \A k \in DOMAIN in : SynOf(in[k], t.conv_id) => j < k
      PROVE  FALSE
  <2>1. DOMAIN in = 1..Len(in) /\ Len(in) \in Nat \ {0}
    BY TailIndices
  <2> QED
    BY <1>2, <2>1
<1>3. PICK i \in DOMAIN out : SynOf(out[i], s.conv_id)
  BY <1>1, <1>2, Zenon DEF SynIsAnswered
<1> QED
  BY <1>1, <1>3 DEF Completed, Completes, SynOf

-----------------------------------------------------------------------------
(* A link is what is in the network and, after it, what is about to be     *)
(* sent: as long as nothing is overtaken, that is the order of arrival.    *)

LEMMA Concatenation ==
  ASSUME NEW S, NEW q \in Seq(S), NEW r \in Seq(S)
  PROVE  \E c \in Seq(S) :
            /\ c = q \o r /\ Len(c) = Len(q) + Len(r)
            /\ \A i \in 1..(Len(q) + Len(r)) : c[i] = IF i <= Len(q) THEN q[i] ELSE r[i - Len(q)]
<1>1. /\ q \o r \in Seq(S) /\ Len(q \o r) = Len(q) + Len(r)
      /\ \A i \in 1..(Len(q) + Len(r)) : (q \o r)[i] = IF i <= Len(q) THEN q[i] ELSE r[i - Len(q)]
  BY ConcatProperties, Zenon
<1> QED
  BY <1>1, Zenon

Associate(q, r, s) == (q \o r) \o s = q \o (r \o s)

LEMMA Association ==
  ASSUME NEW S, NEW q \in Seq(S), NEW r \in Seq(S), NEW s \in Seq(S)
  PROVE  Associate(q, r, s)
BY ConcatAssociative, SMT DEF Associate

LEMMA OneAndOne ==
  ASSUME NEW S, NEW d \in S, NEW e \in S
  PROVE  /\ <<d>> \in Seq(S) /\ <<d, e>> \in Seq(S) /\ <<d>> \o <<e>> = <<d, e>>
         /\ DOMAIN <<d, e>> = {1, 2} /\ <<d, e>>[1] = d /\ <<d, e>>[2] = e
<1>1. /\ <<d>> \in Seq(S) /\ <<e>> \in Seq(S) /\ Len(<<d>>) = 1 /\ Len(<<e>>) = 1
      /\ <<d>>[1] = d /\ <<e>>[1] = e
  OBVIOUS
<1>2. <<d, e>> \in Seq(S) /\ Len(<<d, e>>) = 2 /\ <<d, e>>[1] = d /\ <<d, e>>[2] = e
  OBVIOUS
<1>3. PICK x \in Seq(S) : x = <<d>> /\ Len(x) = 1 /\ x[1] = d
  BY <1>1
<1>4. PICK y \in Seq(S) : y = <<e>> /\ Len(y) = 1 /\ y[1] = e
  BY <1>1
<1>5. PICK z \in Seq(S) : z = <<d, e>> /\ Len(z) = 2 /\ z[1] = d /\ z[2] = e
  BY <1>2
<1>6. PICK c \in Seq(S) :
         /\ c = x \o y /\ Len(c) = Len(x) + Len(y)
         /\ \A i \in 1..(Len(x) + Len(y)) : c[i] = IF i <= Len(x) THEN x[i] ELSE y[i - Len(x)]
  BY Concatenation
<1>7. Len(c) = 2 /\ c[1] = d /\ c[2] = e
  BY <1>3, <1>4, <1>6
<1>8. \A i \in 1..Len(c) : c[i] = z[i]
  BY <1>5, <1>7
<1>9. c = z
  BY <1>5, <1>7, <1>8, SeqEqual
<1>10. DOMAIN <<d, e>> = {1, 2}
  OBVIOUS
<1> QED
  BY <1>1, <1>2, <1>3, <1>4, <1>5, <1>6, <1>9, <1>10, Zenon

Held(C) == [task : Tasks, buf : Datagram(C)]

Bufs(q) == [i \in DOMAIN q |-> q[i].buf]

Joined(N, U) == [n \in Nodes |-> [p \in Nodes |-> N[n][p] \o Bufs(U[n][p])]]

LEMMA LinkJoins == link = Joined(net, unsent) /\ link' = Joined(net', unsent')
  BY DEF link, Joined, Bufs

LEMMA BufsForm ==
  ASSUME NEW C, NEW q \in Seq(Held(C))
  PROVE  /\ Bufs(q) \in Seq(Datagram(C)) /\ Len(Bufs(q)) = Len(q)
         /\ \A i \in 1..Len(q) : Bufs(q)[i] = q[i].buf
<1>1. DOMAIN q = 1..Len(q) /\ Len(q) \in Nat
  BY LenProperties
<1>2. \A i \in 1..Len(q) : q[i].buf \in Datagram(C)
  <2>1. \A i \in 1..Len(q) : q[i] \in Held(C)
    BY ElementOfSeq
  <2> QED
    BY <2>1 DEF Held
<1>3. Bufs(q) \in [1..Len(q) -> Datagram(C)]
  BY <1>1, <1>2 DEF Bufs
<1>4. Bufs(q) \in Seq(Datagram(C))
  BY <1>1, <1>3, SeqDef, Zenon
<1>5. Len(Bufs(q)) = Len(q)
  BY <1>1, <1>3, <1>4, LenProperties
<1> QED
  BY <1>1, <1>4, <1>5 DEF Bufs

LEMMA BufsOfEmpty == Bufs(<<>>) = <<>>
<1>1. DOMAIN <<>> = {} /\ Bufs(<<>>) = [i \in {} |-> <<>>[i].buf]
  BY DEF Bufs
<1> QED
  BY <1>1

LEMMA BufsOfOne ==
  ASSUME NEW C, NEW d \in Datagram(C), NEW task \in Tasks
  PROVE  Awaiting(task, d) \in Seq(Held(C)) /\ Bufs(Awaiting(task, d)) = <<d>>
<1>1. [task |-> task, buf |-> d] \in Held(C)
  BY DEF Held
<1>2. Awaiting(task, d) \in Seq(Held(C)) /\ Len(Awaiting(task, d)) = 1 /\ Awaiting(task, d)[1].buf = d
  BY <1>1 DEF Awaiting
<1>3. Bufs(Awaiting(task, d)) \in Seq(Datagram(C)) /\ Len(Bufs(Awaiting(task, d))) = 1
      /\ Bufs(Awaiting(task, d))[1] = d
  BY <1>2, BufsForm
<1>4. <<d>> \in Seq(Datagram(C)) /\ Len(<<d>>) = 1 /\ <<d>>[1] = d
  OBVIOUS
<1> QED
  BY <1>2, <1>3, <1>4, SeqEqual

LEMMA BufsOfConcat ==
  ASSUME NEW C, NEW q \in Seq(Held(C)), NEW r \in Seq(Held(C))
  PROVE  Bufs(q \o r) = Bufs(q) \o Bufs(r)
<1>1. PICK c \in Seq(Held(C)) :
         /\ c = q \o r /\ Len(c) = Len(q) + Len(r)
         /\ \A i \in 1..(Len(q) + Len(r)) : c[i] = IF i <= Len(q) THEN q[i] ELSE r[i - Len(q)]
  BY Concatenation, Zenon
<1>2. Len(q) \in Nat /\ Len(r) \in Nat
  BY LenProperties
<1>3. PICK a \in Seq(Datagram(C)) :
         a = Bufs(c) /\ Len(a) = Len(c) /\ \A i \in 1..Len(c) : a[i] = c[i].buf
  BY BufsForm
<1>4. PICK x \in Seq(Datagram(C)) :
         x = Bufs(q) /\ Len(x) = Len(q) /\ \A i \in 1..Len(q) : x[i] = q[i].buf
  BY BufsForm
<1>5. PICK y \in Seq(Datagram(C)) :
         y = Bufs(r) /\ Len(y) = Len(r) /\ \A i \in 1..Len(r) : y[i] = r[i].buf
  BY BufsForm
<1>6. PICK b \in Seq(Datagram(C)) :
         /\ b = x \o y /\ Len(b) = Len(x) + Len(y)
         /\ \A i \in 1..(Len(x) + Len(y)) : b[i] = IF i <= Len(x) THEN x[i] ELSE y[i - Len(x)]
  BY Concatenation, Zenon
<1>7. \A i \in 1..Len(a) : a[i] = b[i]
  <2> SUFFICES ASSUME NEW i \in 1..(Len(q) + Len(r)) PROVE a[i] = b[i]
    BY <1>1, <1>3
  <2>1. CASE i <= Len(q)
    <3>1. i \in 1..Len(q) /\ i \in 1..Len(c) /\ i \in 1..(Len(x) + Len(y)) /\ i <= Len(x)
      BY <1>1, <1>2, <1>4, <1>5, <2>1
    <3>2. c[i] = q[i]
      BY <1>1, <2>1
    <3>3. b[i] = x[i]
      BY <1>6, <3>1
    <3> QED
      BY <1>3, <1>4, <3>1, <3>2, <3>3, Zenon
  <2>2. CASE ~(i <= Len(q))
    <3>1. /\ i - Len(q) \in 1..Len(r) /\ i \in 1..Len(c) /\ i \in 1..(Len(x) + Len(y)) /\ ~(i <= Len(x))
          /\ i - Len(x) = i - Len(q)
      BY <1>1, <1>2, <1>4, <1>5, <2>2
    <3>2. c[i] = r[i - Len(q)]
      BY <1>1, <2>2
    <3>3. b[i] = y[i - Len(x)]
      BY <1>6, <3>1
    <3> QED
      BY <1>3, <1>5, <3>1, <3>2, <3>3, Zenon
  <2> QED
    BY <2>1, <2>2
<1>8. a = b
  BY <1>1, <1>3, <1>4, <1>5, <1>6, <1>7, SeqEqual
<1> QED
  BY <1>1, <1>3, <1>4, <1>5, <1>6, <1>8

LEMMA JoinedForm ==
  ASSUME NEW C, NEW N \in [Nodes -> [Nodes -> Seq(Datagram(C))]],
         NEW U \in [Nodes -> [Nodes -> Seq(Held(C))]]
  PROVE  /\ Joined(N, U) \in [Nodes -> [Nodes -> Seq(Datagram(C))]]
         /\ \A n, p \in Nodes : Joined(N, U)[n][p] = N[n][p] \o Bufs(U[n][p])
<1>1. ASSUME NEW n \in Nodes, NEW p \in Nodes
      PROVE  N[n][p] \o Bufs(U[n][p]) \in Seq(Datagram(C))
  <2>1. N[n][p] \in Seq(Datagram(C)) /\ U[n][p] \in Seq(Held(C))
    OBVIOUS
  <2> QED
    BY <2>1, BufsForm, ConcatProperties
<1> QED
  BY <1>1 DEF Joined

(* What is held back beside something else keeps its place only if it is   *)
(* still there, the same, at the head.                                     *)
LEMMA PrefixKept ==
  ASSUME NEW S, NEW q \in Seq(S), NEW first \in Seq(S), NEW more \in Seq(S),
         Len(first) = Len(q), IsPrefix(q, first \o more)
  PROVE  first = q
<1>1. Len(q) \in Nat /\ Len(more) \in Nat
  BY LenProperties
<1>2. SubSeq(q, 1, Len(q)) = q
  BY SubSeqFull
<1>3. SubSeq(first \o more, 1, Len(first)) = first
  BY SubSeqOfConcat1
<1> QED
  BY <1>2, <1>3 DEF IsPrefix

-----------------------------------------------------------------------------
(* The inductive invariant. *)

Entries(D, K) == {s \in Records(D) : Sound(s, D, K)} \cup {None}

Told == {"none", "Connected", "Disconnected"}

Marks == Disturbances \cup {"retry", "late", "overwrite"}

LinksOK ==
    /\ net \in [Nodes -> [Nodes -> Seq(Datagram(1..drawn))]]
    /\ unsent \in [Nodes -> [Nodes -> Seq(Held(1..drawn))]]

VariablesOK ==
    /\ session \in [Nodes -> [Nodes -> Entries(drawn, sends)]]
    /\ LinksOK
    /\ link \in [Nodes -> [Nodes -> Seq(Datagram(1..drawn))]]
    /\ told \in [Nodes -> [Nodes -> Told]]
    /\ drawn \in Nat
    /\ sends \in 0..MaxSends
    /\ seen \subseteq Marks

(* Connected is the latest event of an established session. *)
EstablishedIsTold ==
    \A n, p \in Nodes :
        (session[n][p] # None /\ session[n][p].state = "Established") => told[n][p] = "Connected"

(* Nothing was lost and nothing overtaken, in the network or before. *)
Orderly == seen \cap {"loss", "reorder", "late"} = {}

GuardedPair(n, p) == Guarded(session[n][p], session[p][n], link[n][p], link[p][n])

HandshakesGuarded == Orderly => \A n, p \in Nodes : n # p => GuardedPair(n, p)

HInv == VariablesOK /\ EstablishedIsTold /\ HandshakesGuarded

(* Conversations and messages only become more. *)
LEMMA EntriesGrow ==
  ASSUME NEW D \in Nat, NEW K \in Nat, NEW E \in Nat, NEW L \in Nat, D <= E, K <= L
  PROVE  Entries(D, K) \subseteq Entries(E, L) /\ Seq(Datagram(1..D)) \subseteq Seq(Datagram(1..E))
<1>1. ASSUME NEW s \in Entries(D, K), s # None PROVE s \in Entries(E, L)
  <2>1. Sound(s, E, L)
    BY <1>1, SoundLater DEF Entries
  <2> QED
    BY <2>1 DEF Entries, Sound
<1>2. 1..D \subseteq 1..E
  OBVIOUS
<1>3. Datagram(1..D) \subseteq Datagram(1..E)
  BY <1>2, Zenon DEF Datagram
<1>4. Seq(Datagram(1..D)) \subseteq Seq(Datagram(1..E))
  BY <1>3, SeqMonotonic
<1>5. None \in Entries(E, L)
  BY DEF Entries
<1> QED
  BY <1>1, <1>4, <1>5

(* Datagrams of one conversation that has been drawn. *)
LEMMA Spoken ==
  ASSUME NEW D, NEW c \in D
  PROVE  /\ Seq(Data(c)) \subseteq Seq(Datagram(D))
         /\ \A b : Control(b, c) \subseteq Datagram(D)
<1>1. Datagram({c}) \subseteq Datagram(D)
  BY Zenon DEF Datagram
<1>2. Data(c) \subseteq Datagram(D) /\ \A b : Control(b, c) \subseteq Datagram(D)
  BY <1>1, Zenon DEF Data, Control
<1> QED
  BY <1>2, SeqMonotonic

(* A peer's step about one other: its session becomes s, out goes out, and *)
(* of what was on its way to it, rest is left.                             *)
Step(n, p, s, event, rest, out) ==
    /\ session' = [session EXCEPT ![n][p] = s]
    /\ told' = [told EXCEPT ![n][p] = event]
    /\ "late" \notin seen' =>
          \A a, b \in Nodes :
              link'[a][b] = IF a = p /\ b = n THEN rest
                            ELSE IF a = n /\ b = p THEN link[n][p] \o out ELSE link[a][b]

LEMMA UpdateAt ==
  ASSUME NEW N, NEW X, NEW f \in [N -> [N -> X]], NEW n \in N, NEW p \in N, NEW v,
         NEW a \in N, NEW b \in N
  PROVE  [f EXCEPT ![n][p] = v][a][b] = IF a = n /\ b = p THEN v ELSE f[a][b]
OBVIOUS

LEMMA UpdateType ==
  ASSUME NEW N, NEW X, NEW f \in [N -> [N -> X]], NEW n \in N, NEW p \in N, NEW v
  PROVE  [f EXCEPT ![n][p] = v] \in [N -> [N -> X \cup {v}]]
<1>1. f[n] \in [N -> X]
  OBVIOUS
<1>2. [f[n] EXCEPT ![p] = v] \in [N -> X \cup {v}]
  BY <1>1
<1>3. PICK g \in [N -> X \cup {v}] : g = [f[n] EXCEPT ![p] = v]
  BY <1>2
<1>4. \A a \in N : f[a] \in [N -> X \cup {v}]
  OBVIOUS
<1>5. [f EXCEPT ![n] = g] \in [N -> [N -> X \cup {v}]]
  BY <1>4
<1> QED
  BY <1>3, <1>5

LEMMA TwoUpdatesAt ==
  ASSUME NEW N, NEW X, NEW f \in [N -> [N -> X]], NEW n \in N, NEW p \in N, n # p, NEW v, NEW w,
         NEW a \in N, NEW b \in N
  PROVE  [f EXCEPT ![p][n] = v, ![n][p] = w][a][b]
            = IF a = p /\ b = n THEN v ELSE IF a = n /\ b = p THEN w ELSE f[a][b]
<1>1. PICK g \in [N -> [N -> X \cup {v}]] : g = [f EXCEPT ![p][n] = v]
  BY UpdateType
<1>2. g[a][b] = IF a = p /\ b = n THEN v ELSE f[a][b]
  BY <1>1, UpdateAt
<1>3. [g EXCEPT ![n][p] = w][a][b] = IF a = n /\ b = p THEN w ELSE g[a][b]
  BY UpdateAt
<1>4. [f EXCEPT ![p][n] = v, ![n][p] = w] = [g EXCEPT ![n][p] = w]
  BY <1>1
<1> QED
  BY <1>2, <1>3, <1>4

LEMMA StepPoints ==
  ASSUME VariablesOK, NEW n \in Nodes, NEW p \in Nodes, n # p,
         NEW s, NEW event, NEW rest, NEW out, Step(n, p, s, event, rest, out)
  PROVE  \A a, b \in Nodes :
            /\ session'[a][b] = IF a = n /\ b = p THEN s ELSE session[a][b]
            /\ told'[a][b] = IF a = n /\ b = p THEN event ELSE told[a][b]
            /\ "late" \notin seen' =>
                  link'[a][b] = IF a = p /\ b = n THEN rest
                                ELSE IF a = n /\ b = p THEN link[n][p] \o out ELSE link[a][b]
<1> TAKE a, b \in Nodes
<1>1. PICK f \in [Nodes -> [Nodes -> Entries(drawn, sends)]] : f = session
  BY DEF VariablesOK
<1>2. session'[a][b] = IF a = n /\ b = p THEN s ELSE session[a][b]
  <2>1. [f EXCEPT ![n][p] = s][a][b] = IF a = n /\ b = p THEN s ELSE f[a][b]
    BY UpdateAt
  <2> QED
    BY <1>1, <2>1 DEF Step
<1>3. PICK g \in [Nodes -> [Nodes -> Told]] : g = told
  BY DEF VariablesOK
<1>4. told'[a][b] = IF a = n /\ b = p THEN event ELSE told[a][b]
  <2>1. [g EXCEPT ![n][p] = event][a][b] = IF a = n /\ b = p THEN event ELSE g[a][b]
    BY UpdateAt
  <2> QED
    BY <1>3, <2>1 DEF Step
<1> QED
  BY <1>2, <1>4 DEF Step

LEMMA StepKeepsInv ==
  ASSUME HInv, NEW n \in Nodes, NEW p \in Nodes, n # p,
         drawn' \in Nat, drawn <= drawn', sends' \in 0..MaxSends, sends <= sends',
         seen' \subseteq Marks, seen \subseteq seen', LinksOK',
         NEW s \in Entries(drawn', sends'), NEW event \in Told,
         NEW rest \in Seq(Datagram(1..drawn')), NEW out \in Seq(Datagram(1..drawn')),
         Step(n, p, s, event, rest, out),
         s # None /\ s.state = "Established" => event = "Connected",
         Orderly' => /\ Guarded(s, session[p][n], link[n][p] \o out, rest)
                     /\ Guarded(session[p][n], s, rest, link[n][p] \o out)
  PROVE  HInv'
<1> DEFINE more == link[n][p] \o out
<1>1. VariablesOK /\ sends \in Nat /\ sends' \in Nat
  <2>1. VariablesOK
    BY DEF HInv
  <2>2. sends \in 0..MaxSends /\ MaxSends \in Nat
    BY <2>1, HandshakeLimits DEF VariablesOK
  <2> QED
    BY <2>1, <2>2
<1>2. /\ Entries(drawn, sends) \subseteq Entries(drawn', sends')
      /\ Seq(Datagram(1..drawn)) \subseteq Seq(Datagram(1..drawn'))
  BY <1>1, EntriesGrow DEF VariablesOK
<1>3. more \in Seq(Datagram(1..drawn'))
  BY <1>1, <1>2, ConcatProperties DEF VariablesOK
<1>4. session' = [session EXCEPT ![n][p] = s] /\ told' = [told EXCEPT ![n][p] = event]
  BY DEF Step
<1>5. \A a, b \in Nodes :
         /\ session'[a][b] = IF a = n /\ b = p THEN s ELSE session[a][b]
         /\ told'[a][b] = IF a = n /\ b = p THEN event ELSE told[a][b]
         /\ "late" \notin seen' =>
               link'[a][b] = IF a = p /\ b = n THEN rest
                             ELSE IF a = n /\ b = p THEN more ELSE link[a][b]
  BY <1>1, StepPoints
<1> HIDE DEF more
<1>6. VariablesOK'
  <2>1. session' \in [Nodes -> [Nodes -> Entries(drawn', sends')]]
    <3>1. session \in [Nodes -> [Nodes -> Entries(drawn', sends')]]
      BY <1>1, <1>2 DEF VariablesOK
    <3> QED
      BY <1>4, <3>1
  <2>2. told' \in [Nodes -> [Nodes -> Told]]
    BY <1>1, <1>4 DEF VariablesOK
  <2>3. link' \in [Nodes -> [Nodes -> Seq(Datagram(1..drawn'))]]
    BY LinkJoins, JoinedForm DEF LinksOK
  <2> QED
    BY <2>1, <2>2, <2>3 DEF VariablesOK
<1>7. EstablishedIsTold'
  <2> SUFFICES ASSUME NEW a \in Nodes, NEW b \in Nodes, session'[a][b] # None,
                      session'[a][b].state = "Established"
               PROVE  told'[a][b] = "Connected"
    BY DEF EstablishedIsTold
  <2> QED
    BY <1>5 DEF HInv, EstablishedIsTold
<1>8. HandshakesGuarded'
  <2> SUFFICES ASSUME Orderly', NEW a \in Nodes, NEW b \in Nodes, a # b
               PROVE  Guarded(session'[a][b], session'[b][a], link'[a][b], link'[b][a])
    BY DEF HandshakesGuarded, GuardedPair
  <2>1. Orderly /\ "late" \notin seen'
    BY DEF Orderly
  <2>2. Guarded(session[a][b], session[b][a], link[a][b], link[b][a])
    BY <2>1 DEF HInv, HandshakesGuarded, GuardedPair
  <2>3. Guarded(s, session[p][n], more, rest) /\ Guarded(session[p][n], s, rest, more)
    BY DEF more
  <2>4. CASE a = n /\ b = p
    BY <1>5, <2>1, <2>3, <2>4
  <2>5. CASE a = p /\ b = n
    BY <1>5, <2>1, <2>3, <2>5
  <2>6. CASE ~(a = n /\ b = p) /\ ~(a = p /\ b = n)
    <3>1. /\ session'[a][b] = session[a][b] /\ session'[b][a] = session[b][a]
          /\ link'[a][b] = link[a][b] /\ link'[b][a] = link[b][a]
      BY <1>5, <2>1, <2>6
    <3> QED
      BY <2>2, <3>1
  <2> QED
    BY <2>4, <2>5, <2>6
<1> QED
  BY <1>6, <1>7, <1>8 DEF HInv

-----------------------------------------------------------------------------
(* Arrivals and other steps of a peer. *)

LEMMA RemoveAtForm ==
  ASSUME NEW S, NEW q \in Seq(S), NEW i \in DOMAIN q
  PROVE  /\ RemoveAt(q, i) \in Seq(S)
         /\ q # <<>>
         /\ i = 1 => RemoveAt(q, i) = Tail(q)
<1>1. DOMAIN q = 1..Len(q) /\ Len(q) \in Nat
  BY LenProperties
<1>2. q # <<>>
  BY <1>1, EmptySeq
<1>3. \A j \in 1..Len(q) : q[j] \in S
  BY ElementOfSeq
<1>4. i - 1 \in Int /\ i + 1 \in Int /\ Len(q) \in Int /\ 1 \in Int /\ 2 \in Int
      /\ 1..(i - 1) \subseteq 1..Len(q) /\ (i + 1)..Len(q) \subseteq 1..Len(q)
  BY <1>1
<1>5. SubSeq(q, 1, i - 1) \in Seq(S)
  BY <1>3, <1>4, SubSeqProperties
<1>6. SubSeq(q, i + 1, Len(q)) \in Seq(S)
  BY <1>3, <1>4, SubSeqProperties
<1>7. RemoveAt(q, i) \in Seq(S)
  BY <1>5, <1>6, ConcatProperties DEF RemoveAt
<1>8. ASSUME i = 1 PROVE RemoveAt(q, i) = Tail(q)
  <2>1. SubSeq(q, 1, i - 1) = <<>>
    BY <1>8, <1>4, SubSeqEmpty
  <2>2. SubSeq(q, i + 1, Len(q)) = Tail(q)
    BY <1>2, <1>8, TailIsSubSeq, 1 + 1 = 2
  <2>3. <<>> \o Tail(q) = Tail(q)
    BY <1>2, HeadTailProperties, ConcatEmptySeq
  <2> QED
    BY <2>1, <2>2, <2>3 DEF RemoveAt
<1> QED
  BY <1>2, <1>7, <1>8

LEMMA ConcatHead ==
  ASSUME NEW S, NEW q \in Seq(S), NEW r \in Seq(S), q # <<>>
  PROVE  q \o r # <<>> /\ (q \o r)[1] = q[1] /\ Tail(q \o r) = Tail(q) \o r
<1> DEFINE c == q \o r
<1>1. /\ c \in Seq(S) /\ Len(c) = Len(q) + Len(r)
      /\ \A i \in 1..(Len(q) + Len(r)) : c[i] = IF i <= Len(q) THEN q[i] ELSE r[i - Len(q)]
  BY ConcatProperties, Zenon
<1>2. /\ Len(q) \in Nat \ {0} /\ Len(r) \in Nat /\ Tail(q) \in Seq(S) /\ Len(Tail(q)) = Len(q) - 1
      /\ \A i \in 1..(Len(q) - 1) : Tail(q)[i] = q[i + 1]
  BY HeadTailProperties, TailIndices, LenProperties
<1>3. c # <<>> /\ c[1] = q[1]
  BY <1>1, <1>2, EmptySeq
<1>4. /\ Tail(c) \in Seq(S) /\ Len(Tail(c)) = Len(c) - 1
      /\ \A i \in 1..(Len(c) - 1) : Tail(c)[i] = c[i + 1]
  BY <1>1, <1>3, HeadTailProperties, TailIndices
<1> DEFINE d == Tail(q) \o r
<1>5. /\ d \in Seq(S) /\ Len(d) = Len(Tail(q)) + Len(r)
      /\ \A i \in 1..(Len(Tail(q)) + Len(r)) :
            d[i] = IF i <= Len(Tail(q)) THEN Tail(q)[i] ELSE r[i - Len(Tail(q))]
  BY <1>2, ConcatProperties, Zenon
<1> HIDE DEF c, d
<1>6. \A i \in 1..Len(d) : Tail(c)[i] = d[i]
  <2> SUFFICES ASSUME NEW i \in 1..((Len(q) - 1) + Len(r)) PROVE Tail(c)[i] = d[i]
    BY <1>2, <1>5
  <2>1. Tail(c)[i] = c[i + 1] /\ i + 1 \in 1..(Len(q) + Len(r))
    BY <1>1, <1>2, <1>4
  <2>2. CASE i <= Len(q) - 1
    BY <1>1, <1>2, <1>5, <2>1, <2>2
  <2>3. CASE ~(i <= Len(q) - 1)
    <3>1. ~(i + 1 <= Len(q)) /\ (i + 1) - Len(q) = i - (Len(q) - 1)
      BY <1>2, <2>3
    <3> QED
      BY <1>1, <1>2, <1>5, <2>1, <2>3, <3>1
  <2> QED
    BY <2>2, <2>3
<1>7. Len(Tail(c)) = Len(d)
  BY <1>1, <1>2, <1>4, <1>5
<1>8. Tail(c) = d
  BY <1>4, <1>5, <1>6, <1>7, SeqEqual
<1> QED
  BY <1>3, <1>8 DEF c, d

(* What is left on the link when in has arrived at n from p. *)
Rest(n, p, in) == in.rest \o Bufs(unsent[p][n])

LEMMA LinkForm ==
  ASSUME VariablesOK, NEW n \in Nodes, NEW p \in Nodes
  PROVE  /\ net[n][p] \in Seq(Datagram(1..drawn)) /\ unsent[n][p] \in Seq(Held(1..drawn))
         /\ Bufs(unsent[n][p]) \in Seq(Datagram(1..drawn))
         /\ link[n][p] = net[n][p] \o Bufs(unsent[n][p])
<1>1. net[n][p] \in Seq(Datagram(1..drawn)) /\ unsent[n][p] \in Seq(Held(1..drawn))
  BY DEF VariablesOK, LinksOK
<1>2. link[n][p] = net[n][p] \o Bufs(unsent[n][p])
  BY DEF link, Bufs
<1> QED
  BY <1>1, <1>2, BufsForm

(* In an orderly network the head of the link arrives, and at most stays there. *)
LEMMA ArrivalForm ==
  ASSUME VariablesOK, NEW n \in Nodes, NEW p \in Nodes, NEW in \in Arrivals(n, p)
  PROVE  /\ in.buf \in Datagram(1..drawn)
         /\ in.rest \in Seq(Datagram(1..drawn))
         /\ Rest(n, p, in) \in Seq(Datagram(1..drawn))
         /\ in.seen \subseteq Disturbances
         /\ "reorder" \notin in.seen =>
               /\ link[p][n] # <<>>
               /\ in.buf = link[p][n][1]
               /\ Rest(n, p, in) = link[p][n] \/ Rest(n, p, in) = Tail(link[p][n])
               /\ "dup" \notin in.seen => Rest(n, p, in) = Tail(link[p][n])
<1>1. PICK q \in Seq(Datagram(1..drawn)) : q = net[p][n]
  BY LinkForm
<1>2. PICK i \in DOMAIN q, again \in BOOLEAN :
         in = [buf |-> q[i], rest |-> IF again THEN q ELSE RemoveAt(q, i),
               seen |-> {d \in {"reorder"} : i > 1} \cup {d \in {"dup"} : again}]
  BY <1>1 DEF Arrivals
<1>3. in.seen \subseteq Pending
  BY DEF Arrivals
<1>4. in.buf = q[i] /\ in.rest = (IF again THEN q ELSE RemoveAt(q, i))
      /\ in.seen = {d \in {"reorder"} : i > 1} \cup {d \in {"dup"} : again}
  BY <1>2
<1>5. RemoveAt(q, i) \in Seq(Datagram(1..drawn)) /\ q # <<>> /\ (i = 1 => RemoveAt(q, i) = Tail(q))
  BY RemoveAtForm
<1>6. DOMAIN q = 1..Len(q) /\ Len(q) \in Nat /\ q[i] \in Datagram(1..drawn)
  BY LenProperties, ElementOfSeq
<1>7. ("reorder" \notin in.seen => i = 1) /\ ("dup" \notin in.seen => ~again)
  BY <1>4, <1>6
<1>8. in.rest \in Seq(Datagram(1..drawn))
  BY <1>4, <1>5, Zenon
<1>9. in.seen \subseteq Disturbances
  BY <1>3 DEF Pending
<1>10. PICK r \in Seq(Datagram(1..drawn)) : r = Bufs(unsent[p][n]) /\ link[p][n] = q \o r
  BY <1>1, LinkForm
<1>11. Rest(n, p, in) = in.rest \o r /\ Rest(n, p, in) \in Seq(Datagram(1..drawn))
  BY <1>8, <1>10, ConcatProperties DEF Rest
<1>12. q \o r # <<>> /\ (q \o r)[1] = q[1] /\ Tail(q \o r) = Tail(q) \o r
  BY <1>5, ConcatHead
<1> QED
  BY <1>4, <1>5, <1>6, <1>7, <1>8, <1>9, <1>10, <1>11, <1>12, Zenon

(* g is f with one entry, or two, replaced. *)
Updated(f, g, n, p, v) ==
    \A a, b \in Nodes : g[a][b] = IF a = n /\ b = p THEN v ELSE f[a][b]

UpdatedTwice(f, g, n, p, v, w) ==
    \A a, b \in Nodes : g[a][b] = IF a = p /\ b = n THEN v ELSE IF a = n /\ b = p THEN w ELSE f[a][b]

LEMMA UpdateForm ==
  ASSUME NEW X, NEW f \in [Nodes -> [Nodes -> X]], NEW n \in Nodes, NEW p \in Nodes, NEW v \in X
  PROVE  [f EXCEPT ![n][p] = v] \in [Nodes -> [Nodes -> X]] /\ Updated(f, [f EXCEPT ![n][p] = v], n, p, v)
BY DEF Updated

LEMMA UpdatedAgain ==
  ASSUME NEW f, NEW g, NEW h, NEW n \in Nodes, NEW p \in Nodes, n # p, NEW v, NEW w,
         Updated(f, g, p, n, v), Updated(g, h, n, p, w)
  PROVE  UpdatedTwice(f, h, n, p, v, w)
BY DEF Updated, UpdatedTwice

(* n says out at once and is then about to send first and more, where      *)
(* first stands in the place of what it was about to send before.  Unless  *)
(* something is overtaken, out and more go to the end of the link.         *)
KeptInOrder(k, u, out, held, more) == (k \o out) \o Bufs(held) = (k \o Bufs(u)) \o (out \o Bufs(more))

LEMMA SaidInOrder ==
  ASSUME NEW C, NEW k \in Seq(Datagram(C)), NEW u \in Seq(Held(C)), NEW out \in Seq(Datagram(C)),
         NEW first \in Seq(Held(C)), NEW more \in Seq(Held(C)), Len(first) = Len(u)
  PROVE  (IsPrefix(u, first \o more) /\ (out = <<>> \/ u = <<>>)) => KeptInOrder(k, u, out, first \o more, more)
<1>1. PICK x \in Seq(Datagram(C)) : x = Bufs(u)
  BY BufsForm
<1>2. PICK y \in Seq(Datagram(C)) : y = Bufs(more)
  BY BufsForm
<1>3. Associate(k, x, y) /\ Associate(k, out, y)
  BY Association, Zenon
<1>4. k \o <<>> = k /\ <<>> \o y = y
  BY ConcatEmptySeq, Zenon
<1> SUFFICES ASSUME IsPrefix(u, first \o more), out = <<>> \/ u = <<>>
             PROVE  KeptInOrder(k, u, out, first \o more, more)
  OBVIOUS
<1>5. first = u
  BY PrefixKept
<1>6. Bufs(first \o more) = x \o y
  BY <1>1, <1>2, <1>5, BufsOfConcat
<1>7. CASE out = <<>>
  BY <1>1, <1>2, <1>3, <1>4, <1>6, <1>7, Zenon DEF KeptInOrder, Associate
<1>8. CASE u = <<>>
  <2>1. x = <<>>
    BY <1>1, <1>8, BufsOfEmpty
  <2> QED
    BY <1>1, <1>2, <1>3, <1>4, <1>6, <2>1, Zenon DEF KeptInOrder, Associate
<1> QED
  BY <1>7, <1>8

(* The links that come of it. *)
LinksAre(N, U, M, V, n, p, rest, whole) ==
    \A a, b \in Nodes :
        M[a][b] \o Bufs(V[a][b])
            = IF a = p /\ b = n THEN rest \o Bufs(U[p][n])
              ELSE IF a = n /\ b = p THEN whole ELSE N[a][b] \o Bufs(U[a][b])

LEMMA JoinedCases ==
  ASSUME NEW N, NEW U, NEW M, NEW V, NEW n \in Nodes, NEW p \in Nodes, n # p,
         NEW rest, NEW said, NEW held, NEW whole, said \o Bufs(held) = whole,
         UpdatedTwice(N, M, n, p, rest, said), Updated(U, V, n, p, held)
  PROVE  LinksAre(N, U, M, V, n, p, rest, whole)
<1> SUFFICES ASSUME NEW a \in Nodes, NEW b \in Nodes
             PROVE  M[a][b] \o Bufs(V[a][b])
                       = IF a = p /\ b = n THEN rest \o Bufs(U[p][n])
                         ELSE IF a = n /\ b = p THEN whole ELSE N[a][b] \o Bufs(U[a][b])
  BY DEF LinksAre
<1> USE DEF Updated, UpdatedTwice
<1>1. CASE a = p /\ b = n
  BY <1>1, Zenon
<1>2. CASE a = n /\ b = p
  BY <1>2, Zenon
<1>3. CASE ~(a = p /\ b = n) /\ ~(a = n /\ b = p)
  BY <1>3, Zenon
<1> QED
  BY <1>1, <1>2, <1>3

LEMMA Wider ==
  ASSUME VariablesOK, NEW D \in Nat, drawn <= D
  PROVE  /\ net \in [Nodes -> [Nodes -> Seq(Datagram(1..D))]]
         /\ unsent \in [Nodes -> [Nodes -> Seq(Held(1..D))]]
<1>1. drawn \in Nat /\ 1..drawn \subseteq 1..D
  BY DEF VariablesOK
<1>2. Datagram(1..drawn) \subseteq Datagram(1..D)
  BY <1>1, Zenon DEF Datagram
<1>3. Held(1..drawn) \subseteq Held(1..D)
  BY <1>2 DEF Held
<1>4. /\ Seq(Datagram(1..drawn)) \subseteq Seq(Datagram(1..D))
      /\ Seq(Held(1..drawn)) \subseteq Seq(Held(1..D))
  BY <1>2, <1>3, SeqMonotonic
<1> QED
  BY <1>4 DEF VariablesOK, LinksOK

(* n has told p out, while rest is left of what p told n. *)
HasSaid(n, p, rest, out) ==
    \A a, b \in Nodes :
        link'[a][b] = IF a = p /\ b = n THEN rest
                      ELSE IF a = n /\ b = p THEN link[n][p] \o out ELSE link[a][b]

LEMMA LinksStep ==
  ASSUME VariablesOK, NEW n \in Nodes, NEW p \in Nodes, n # p, NEW D \in Nat, drawn' = D, drawn <= D,
         NEW rest, NEW out \in Seq(Datagram(1..D)),
         NEW first \in Seq(Held(1..D)), NEW more \in Seq(Held(1..D)), Len(first) = Len(unsent[n][p]),
         NEW said, said = net[n][p] \o out, NEW held, held = first \o more,
         net' \in [Nodes -> [Nodes -> Seq(Datagram(1..D))]], UpdatedTwice(net, net', n, p, rest, said),
         unsent' \in [Nodes -> [Nodes -> Seq(Held(1..D))]], Updated(unsent, unsent', n, p, held),
         Overtaken(n, p, out, held) \subseteq seen'
  PROVE  /\ LinksOK'
         /\ "late" \notin seen' => HasSaid(n, p, rest \o Bufs(unsent[p][n]), out \o Bufs(more))
<1>1. LinksOK'
  BY DEF LinksOK
<1>2. /\ \A a, b \in Nodes : link[a][b] = net[a][b] \o Bufs(unsent[a][b])
      /\ \A a, b \in Nodes : link'[a][b] = net'[a][b] \o Bufs(unsent'[a][b])
  BY ONLY LinkJoins, Zenon DEF Joined
<1>3. ASSUME "late" \notin seen'
      PROVE  HasSaid(n, p, rest \o Bufs(unsent[p][n]), out \o Bufs(more))
  <2>1. IsPrefix(unsent[n][p], first \o more) /\ (out = <<>> \/ unsent[n][p] = <<>>)
    BY <1>3 DEF Overtaken
  <2>2. PICK k \in Seq(Datagram(1..D)) : k = net[n][p]
    BY Wider
  <2>3. PICK u \in Seq(Held(1..D)) : u = unsent[n][p]
    BY Wider
  <2>4. KeptInOrder(k, u, out, first \o more, more)
    BY <2>1, <2>3, SaidInOrder, Zenon
  <2>5. link[n][p] = net[n][p] \o Bufs(unsent[n][p])
    BY ONLY <1>2, Zenon
  <2>6. said \o Bufs(held) = link[n][p] \o (out \o Bufs(more))
    BY <2>2, <2>3, <2>4, <2>5, Zenon DEF KeptInOrder
  <2>7. LinksAre(net, unsent, net', unsent', n, p, rest, link[n][p] \o (out \o Bufs(more)))
    BY <2>6, JoinedCases, Zenon
  <2>8. ASSUME NEW a \in Nodes, NEW b \in Nodes
        PROVE  link'[a][b] = IF a = p /\ b = n THEN rest \o Bufs(unsent[p][n])
                             ELSE IF a = n /\ b = p THEN link[n][p] \o (out \o Bufs(more)) ELSE link[a][b]
    <3>1. link[a][b] = net[a][b] \o Bufs(unsent[a][b]) /\ link'[a][b] = net'[a][b] \o Bufs(unsent'[a][b])
      BY ONLY <1>2, Zenon
    <3>2. net'[a][b] \o Bufs(unsent'[a][b])
             = IF a = p /\ b = n THEN rest \o Bufs(unsent[p][n])
               ELSE IF a = n /\ b = p THEN link[n][p] \o (out \o Bufs(more)) ELSE net[a][b] \o Bufs(unsent[a][b])
      BY ONLY <2>7, Zenon DEF LinksAre
    <3> QED
      BY ONLY <3>1, <3>2, Zenon
  <2> QED
    BY ONLY <2>8, Zenon DEF HasSaid
<1> QED
  BY <1>1, <1>3

(* n has handled in: its session with p is s, and it says x, now or next. *)
Handles(n, p, in, s, event, x) ==
    /\ Step(n, p, s, event, Rest(n, p, in), x)
    /\ LinksOK'
    /\ seen \cup in.seen \subseteq seen'
    /\ seen' \subseteq seen \cup in.seen \cup {"late", "overwrite"}
    /\ UNCHANGED sends

LEMMA HandleHandles ==
  ASSUME HInv, NEW n \in Nodes, NEW p \in Nodes, n # p,
         NEW D \in Nat, drawn' = D, drawn <= D, NEW in, in.rest \in Seq(Datagram(1..D)),
         NEW s, NEW event, NEW out \in Seq(Datagram(1..D)),
         NEW first \in Seq(Held(1..D)), NEW more \in Seq(Held(1..D)),
         Len(first) = Len(unsent[n][p]),
         Handle(n, p, in, s, event, out, first \o more)
  PROVE  Handles(n, p, in, s, event, out \o Bufs(more))
<1> DEFINE held == first \o more
<1>1. /\ session' = [session EXCEPT ![n][p] = s] /\ told' = [told EXCEPT ![n][p] = event]
      /\ net' = [net EXCEPT ![p][n] = in.rest, ![n][p] = @ \o out]
      /\ unsent' = [unsent EXCEPT ![n][p] = held]
      /\ seen' = seen \cup in.seen \cup Overtaken(n, p, out, held) /\ sends' = sends
  BY DEF Handle
<1>2. Overtaken(n, p, out, held) \subseteq {"late"}
  BY DEF Overtaken
<1>3. VariablesOK
  BY DEF HInv
<1>4. /\ LinksOK'
      /\ "late" \notin seen' => HasSaid(n, p, in.rest \o Bufs(unsent[p][n]), out \o Bufs(more))
  <2>1. PICK rest \in Seq(Datagram(1..D)) : rest = in.rest
    OBVIOUS
  <2>2. PICK said \in Seq(Datagram(1..D)) : said = net[n][p] \o out
    <3>1. net[n][p] \in Seq(Datagram(1..D))
      BY <1>3, Wider
    <3> QED
      BY <3>1, ConcatProperties, Zenon
  <2>3. PICK all \in Seq(Held(1..D)) : all = first \o more
    BY ConcatProperties
  <2>4. /\ net' \in [Nodes -> [Nodes -> Seq(Datagram(1..D))]] /\ UpdatedTwice(net, net', n, p, rest, said)
    <3>1. net' = [net EXCEPT ![p][n] = rest, ![n][p] = said]
      BY <1>1, <2>1, <2>2
    <3>2. net \in [Nodes -> [Nodes -> Seq(Datagram(1..D))]]
      BY <1>3, Wider
    <3>3. PICK g \in [Nodes -> [Nodes -> Seq(Datagram(1..D))]] :
             g = [net EXCEPT ![p][n] = rest] /\ Updated(net, g, p, n, rest)
      BY <3>2, UpdateForm
    <3>4. net' = [g EXCEPT ![n][p] = said]
      BY <3>1, <3>3
    <3>5. net' \in [Nodes -> [Nodes -> Seq(Datagram(1..D))]] /\ Updated(g, net', n, p, said)
      BY <3>4, UpdateForm
    <3> QED
      BY <3>3, <3>5, UpdatedAgain
  <2>5. unsent' \in [Nodes -> [Nodes -> Seq(Held(1..D))]] /\ Updated(unsent, unsent', n, p, all)
    <3>1. unsent' = [unsent EXCEPT ![n][p] = all]
      BY <1>1, <2>3
    <3>2. unsent \in [Nodes -> [Nodes -> Seq(Held(1..D))]]
      BY <1>3, Wider
    <3> QED
      BY <3>1, <3>2, UpdateForm
  <2>6. Overtaken(n, p, out, all) \subseteq seen'
    BY <1>1, <2>3
  <2>7. /\ LinksOK'
        /\ "late" \notin seen' => HasSaid(n, p, rest \o Bufs(unsent[p][n]), out \o Bufs(more))
    BY <1>3, <2>2, <2>3, <2>4, <2>5, <2>6, LinksStep, Zenon
  <2> QED
    BY <2>1, <2>7
<1> HIDE DEF held
<1> QED
  BY <1>1, <1>2, <1>4 DEF Handles, Step, Rest, HasSaid

LEMMA ReplyHandles ==
  ASSUME HInv, NEW n \in Nodes, NEW p \in Nodes, n # p, NEW in \in Arrivals(n, p),
         NEW s, NEW event, NEW x \in Seq(Datagram(1..drawn)), Reply(n, p, in, s, event, x)
  PROVE  Handles(n, p, in, s, event, x) /\ drawn' = drawn
<1>1. /\ drawn \in Nat /\ drawn' = drawn /\ drawn <= drawn
      /\ in.rest \in Seq(Datagram(1..drawn)) /\ unsent[n][p] \in Seq(Held(1..drawn))
  <2>1. VariablesOK
    BY DEF HInv
  <2>2. in.rest \in Seq(Datagram(1..drawn)) /\ unsent[n][p] \in Seq(Held(1..drawn))
    BY <2>1, ArrivalForm, LinkForm
  <2> QED
    BY <2>1, <2>2 DEF VariablesOK, Reply
<1>2. PICK first \in Seq(Held(1..drawn)) : first = unsent[n][p]
  BY <1>1
<1>3. <<>> \in Seq(Held(1..drawn)) /\ first \o <<>> = first /\ x \o Bufs(<<>>) = x
  BY BufsOfEmpty, ConcatEmptySeq
<1>4. Handle(n, p, in, s, event, x, first \o <<>>)
  BY <1>2, <1>3 DEF Reply
<1>5. Handles(n, p, in, s, event, x \o Bufs(<<>>))
  BY <1>1, <1>2, <1>3, <1>4, HandleHandles
<1> QED
  BY <1>1, <1>3, <1>5

(* What is said last is said by another task, or by the same one later. *)
LEMMA HeldHandles ==
  ASSUME HInv, NEW n \in Nodes, NEW p \in Nodes, n # p, NEW in \in Arrivals(n, p), drawn' = drawn,
         NEW s, NEW event, NEW out \in Seq(Datagram(1..drawn)),
         NEW first \in Seq(Held(1..drawn)), Len(first) = Len(unsent[n][p]),
         NEW task \in Tasks, NEW d \in Datagram(1..drawn),
         Handle(n, p, in, s, event, out, first \o Awaiting(task, d))
  PROVE  Handles(n, p, in, s, event, out \o <<d>>)
<1>1. drawn \in Nat /\ drawn <= drawn /\ in.rest \in Seq(Datagram(1..drawn))
  BY ArrivalForm DEF HInv, VariablesOK
<1>2. PICK more \in Seq(Held(1..drawn)) : more = Awaiting(task, d) /\ Bufs(more) = <<d>>
  BY BufsOfOne
<1>3. Handle(n, p, in, s, event, out, first \o more)
  BY <1>2
<1>4. Handles(n, p, in, s, event, out \o Bufs(more))
  BY <1>1, <1>3, HandleHandles
<1> QED
  BY <1>2, <1>4

(* n has acted of its own accord. *)
Acts(n, p, s, event, x, disturbance) ==
    /\ Step(n, p, s, event, link[p][n], x)
    /\ LinksOK'
    /\ seen \cup disturbance \subseteq seen'
    /\ seen' \subseteq seen \cup disturbance \cup {"late"}
    /\ UNCHANGED delivered

LEMMA DoActs ==
  ASSUME HInv, NEW n \in Nodes, NEW p \in Nodes, n # p,
         NEW D \in Nat, drawn' = D, drawn <= D,
         NEW s, NEW event, NEW out \in Seq(Datagram(1..D)), NEW more \in Seq(Held(1..D)),
         NEW disturbance, Do(n, p, s, event, out, unsent[n][p] \o more, disturbance)
  PROVE  Acts(n, p, s, event, out \o Bufs(more), disturbance)
<1> DEFINE held == unsent[n][p] \o more
<1>1. /\ session' = [session EXCEPT ![n][p] = s] /\ told' = [told EXCEPT ![n][p] = event]
      /\ net' = [net EXCEPT ![n][p] = @ \o out]
      /\ unsent' = [unsent EXCEPT ![n][p] = held]
      /\ seen' = seen \cup disturbance \cup Overtaken(n, p, out, held) /\ delivered' = delivered
  BY DEF Do
<1>2. Overtaken(n, p, out, held) \subseteq {"late"}
  BY DEF Overtaken
<1>3. VariablesOK
  BY DEF HInv
<1>4. /\ net[p][n] \in Seq(Datagram(1..D)) /\ unsent[n][p] \in Seq(Held(1..D))
      /\ link[p][n] = net[p][n] \o Bufs(unsent[p][n])
  <2>1. /\ net[p][n] \in Seq(Datagram(1..drawn)) /\ unsent[n][p] \in Seq(Held(1..drawn))
        /\ link[p][n] = net[p][n] \o Bufs(unsent[p][n])
    BY <1>3, LinkForm
  <2>2. drawn \in Nat /\ 1..drawn \subseteq 1..D
    BY <1>3 DEF VariablesOK
  <2>3. Datagram(1..drawn) \subseteq Datagram(1..D)
    BY <2>2, Zenon DEF Datagram
  <2>4. Held(1..drawn) \subseteq Held(1..D)
    BY <2>3 DEF Held
  <2> QED
    BY <2>1, <2>3, <2>4, SeqMonotonic
<1>5. PICK q \in Seq(Datagram(1..D)) : q = net[p][n]
  BY <1>4
<1>6. net' = [net EXCEPT ![p][n] = q, ![n][p] = @ \o out]
  <2>1. net = [net EXCEPT ![p][n] = q]
    BY <1>3, <1>5 DEF VariablesOK, LinksOK
  <2> QED
    BY <1>1, <2>1
<1>7. /\ LinksOK'
      /\ "late" \notin seen' => HasSaid(n, p, q \o Bufs(unsent[p][n]), out \o Bufs(more))
  <2>1. PICK first \in Seq(Held(1..D)) : first = unsent[n][p]
    BY <1>4
  <2>2. PICK said \in Seq(Datagram(1..D)) : said = net[n][p] \o out
    <3>1. net[n][p] \in Seq(Datagram(1..D))
      BY <1>3, Wider
    <3> QED
      BY <3>1, ConcatProperties, Zenon
  <2>3. PICK all \in Seq(Held(1..D)) : all = first \o more
    BY ConcatProperties
  <2>4. /\ net' \in [Nodes -> [Nodes -> Seq(Datagram(1..D))]] /\ UpdatedTwice(net, net', n, p, q, said)
    <3>1. net' = [net EXCEPT ![p][n] = q, ![n][p] = said]
      BY <1>6, <2>2
    <3>2. net \in [Nodes -> [Nodes -> Seq(Datagram(1..D))]]
      BY <1>3, Wider
    <3>3. PICK g \in [Nodes -> [Nodes -> Seq(Datagram(1..D))]] :
             g = [net EXCEPT ![p][n] = q] /\ Updated(net, g, p, n, q)
      BY <3>2, UpdateForm
    <3>4. net' = [g EXCEPT ![n][p] = said]
      BY <3>1, <3>3
    <3>5. net' \in [Nodes -> [Nodes -> Seq(Datagram(1..D))]] /\ Updated(g, net', n, p, said)
      BY <3>4, UpdateForm
    <3> QED
      BY <3>3, <3>5, UpdatedAgain
  <2>5. unsent' \in [Nodes -> [Nodes -> Seq(Held(1..D))]] /\ Updated(unsent, unsent', n, p, all)
    <3>1. unsent' = [unsent EXCEPT ![n][p] = all]
      BY <1>1, <2>1, <2>3
    <3>2. unsent \in [Nodes -> [Nodes -> Seq(Held(1..D))]]
      BY <1>3, Wider
    <3> QED
      BY <3>1, <3>2, UpdateForm
  <2>6. Overtaken(n, p, out, all) \subseteq seen' /\ Len(first) = Len(unsent[n][p])
    BY <1>1, <2>1, <2>3
  <2> QED
    BY <1>3, <2>2, <2>3, <2>4, <2>5, <2>6, LinksStep, Zenon
<1> HIDE DEF held
<1> QED
  BY <1>1, <1>2, <1>4, <1>5, <1>7 DEF Acts, Step, HasSaid

LEMMA ActActs ==
  ASSUME HInv, NEW n \in Nodes, NEW p \in Nodes, n # p, drawn' = drawn,
         NEW s, NEW event, NEW x \in Seq(Datagram(1..drawn)), NEW disturbance,
         Act(n, p, s, event, x, disturbance)
  PROVE  Acts(n, p, s, event, x, disturbance)
<1>1. drawn \in Nat /\ drawn <= drawn /\ unsent[n][p] \in Seq(Held(1..drawn))
  <2>1. VariablesOK
    BY DEF HInv
  <2>2. drawn \in Nat /\ drawn <= drawn
    BY <2>1 DEF VariablesOK
  <2> QED
    BY <2>1, <2>2, LinkForm
<1>2. /\ <<>> \in Seq(Held(1..drawn)) /\ unsent[n][p] \o <<>> = unsent[n][p]
      /\ x \o Bufs(<<>>) = x
  BY <1>1, BufsOfEmpty, ConcatEmptySeq
<1>3. Do(n, p, s, event, x, unsent[n][p] \o <<>>, disturbance)
  BY <1>2 DEF Act
<1>4. Acts(n, p, s, event, x \o Bufs(<<>>), disturbance)
  BY <1>1, <1>2, <1>3, DoActs
<1> QED
  BY <1>2, <1>4

(* A datagram that is about to be sent. *)
LEMMA DoHeldActs ==
  ASSUME HInv, NEW n \in Nodes, NEW p \in Nodes, n # p,
         NEW D \in Nat, drawn' = D, drawn <= D,
         NEW s, NEW event, NEW task \in Tasks, NEW d \in Datagram(1..D), NEW disturbance,
         Do(n, p, s, event, <<>>, unsent[n][p] \o Awaiting(task, d), disturbance)
  PROVE  Acts(n, p, s, event, <<d>>, disturbance)
<1>1. PICK more \in Seq(Held(1..D)) : more = Awaiting(task, d) /\ Bufs(more) = <<d>>
  BY BufsOfOne
<1>2. <<>> \in Seq(Datagram(1..D)) /\ <<d>> \in Seq(Datagram(1..D)) /\ <<>> \o <<d>> = <<d>>
  BY ConcatEmptySeq
<1>3. Do(n, p, s, event, <<>>, unsent[n][p] \o more, disturbance)
  BY <1>1
<1>4. Acts(n, p, s, event, <<>> \o Bufs(more), disturbance)
  BY <1>2, <1>3, DoActs
<1> QED
  BY <1>1, <1>2, <1>4

(* A peer whose session was s has u and has said x, having said out       *)
(* before, while the other has t.                                          *)
Speaks(s, u, t, out, x) ==
    /\ Waiting(u) => Waiting(s) /\ u.conv_id = s.conv_id /\ u.rcv_nxt = 1
    /\ Waiting(t) =>
          /\ (\E k \in DOMAIN x : DataOf(x[k], t.conv_id)) => Completed(out, t.conv_id)
          /\ (u # None /\ u.conv_id = t.conv_id) => Completed(out, t.conv_id) \/ Completed(x, t.conv_id)

(* And it does so because d arrived. *)
Replies(d, s, u, t, out, x) ==
    /\ Speaks(s, u, t, out, x)
    /\ Waiting(u) => ~Completes(d, u.conv_id)
    /\ (Waiting(t) /\ SynOf(d, t.conv_id)) =>
          ~Waiting(u) /\ (Completed(out, t.conv_id) \/ Completed(x, t.conv_id))

LEMMA SpeaksGuarded ==
  ASSUME NEW S, NEW out \in Seq(S), NEW in \in Seq(S), NEW x \in Seq(S), NEW s, NEW t, NEW u,
         Guarded(s, t, out, in), Guarded(t, s, in, out), Speaks(s, u, t, out, x)
  PROVE  Guarded(u, t, out \o x, in) /\ Guarded(t, u, in, out \o x)
<1>1. Guarded(u, t, out \o x, in)
  BY SpeakerGuarded DEF Speaks
<1>2. Guarded(t, u, in, out \o x)
  BY ListenerGuarded DEF Speaks
<1> QED
  BY <1>1, <1>2

LEMMA RepliesGuarded ==
  ASSUME NEW S, NEW out \in Seq(S), NEW in \in Seq(S), NEW x \in Seq(S), NEW s, NEW t, NEW u,
         in # <<>>, Guarded(s, t, out, in), Guarded(t, s, in, out), Replies(in[1], s, u, t, out, x)
  PROVE  Guarded(u, t, out \o x, Tail(in)) /\ Guarded(t, u, Tail(in), out \o x)
<1> DEFINE more == out \o x
<1>1. Guarded(u, t, more, in) /\ Guarded(t, u, in, more)
  BY SpeaksGuarded DEF Replies
<1>2. more \in Seq(S)
  BY ConcatProperties
<1>3. (Waiting(t) /\ SynOf(in[1], t.conv_id)) => ~Waiting(u) /\ Completed(more, t.conv_id)
  BY CompletedGrows DEF Replies
<1>4. Waiting(u) => ~Completes(in[1], u.conv_id)
  BY DEF Replies
<1> HIDE DEF more
<1>5. Guarded(u, t, more, Tail(in))
  BY <1>1, <1>2, <1>4, HearerGuarded
<1>6. Guarded(t, u, Tail(in), more)
  BY <1>1, <1>2, <1>3, HeardGuarded
<1> QED
  BY <1>5, <1>6 DEF more

LEMMA ArrivalKeepsInv ==
  ASSUME HInv, NEW n \in Nodes, NEW p \in Nodes, n # p, NEW in \in Arrivals(n, p),
         NEW D \in Nat, drawn' = D, drawn <= D,
         NEW u \in Entries(D, sends), NEW event \in Told, NEW x \in Seq(Datagram(1..D)),
         Handles(n, p, in, u, event, x),
         u # None /\ u.state = "Established" => event = "Connected",
         (GuardedPair(n, p) /\ GuardedPair(p, n) /\ link[p][n] # <<>> /\ in.buf = link[p][n][1]) =>
            Replies(in.buf, session[n][p], u, session[p][n], link[n][p], x)
  PROVE  HInv'
<1> DEFINE rest == Rest(n, p, in)
<1>1. VariablesOK
  BY DEF HInv
<1>2. /\ rest \in Seq(Datagram(1..drawn)) /\ in.seen \subseteq Disturbances
      /\ "reorder" \notin in.seen =>
            /\ link[p][n] # <<>> /\ in.buf = link[p][n][1]
            /\ rest = link[p][n] \/ rest = Tail(link[p][n])
  BY <1>1, ArrivalForm
<1>3. /\ Step(n, p, u, event, rest, x) /\ LinksOK' /\ sends' = sends
      /\ seen \cup in.seen \subseteq seen' /\ seen' \subseteq seen \cup in.seen \cup {"late", "overwrite"}
  BY DEF Handles
<1> HIDE DEF rest
<1>4. Seq(Datagram(1..drawn)) \subseteq Seq(Datagram(1..D))
  <2>1. drawn \in Nat /\ sends \in Nat /\ sends <= sends
    BY <1>1, HandshakeLimits DEF VariablesOK
  <2> QED
    BY <2>1, EntriesGrow
<1>5. ASSUME Orderly'
      PROVE  /\ Guarded(u, session[p][n], link[n][p] \o x, rest)
             /\ Guarded(session[p][n], u, rest, link[n][p] \o x)
  <2>1. Orderly /\ "reorder" \notin in.seen
    BY <1>3, <1>5 DEF Orderly
  <2>2. GuardedPair(n, p) /\ GuardedPair(p, n)
    BY <2>1 DEF HInv, HandshakesGuarded
  <2>3. PICK out \in Seq(Datagram(1..D)) : out = link[n][p]
    BY <1>1, <1>4 DEF VariablesOK
  <2>4. PICK q \in Seq(Datagram(1..D)) : q = link[p][n]
    BY <1>1, <1>4 DEF VariablesOK
  <2>5. q # <<>> /\ Replies(q[1], session[n][p], u, session[p][n], out, x)
    BY <1>2, <2>1, <2>2, <2>3, <2>4
  <2>6. Guarded(session[n][p], session[p][n], out, q) /\ Guarded(session[p][n], session[n][p], q, out)
    BY <2>2, <2>3, <2>4 DEF GuardedPair
  <2>7. CASE rest = q
    BY <2>3, <2>5, <2>6, <2>7, SpeaksGuarded DEF Replies
  <2>8. CASE rest = Tail(q)
    BY <2>3, <2>5, <2>6, <2>8, RepliesGuarded
  <2> QED
    BY <1>2, <2>1, <2>4, <2>7, <2>8
<1>6. /\ drawn' \in Nat /\ drawn <= drawn' /\ sends' \in 0..MaxSends /\ sends <= sends'
      /\ seen' \subseteq Marks /\ seen \subseteq seen'
  BY <1>1, <1>2, <1>3, HandshakeLimits DEF VariablesOK, Marks
<1>7. u \in Entries(drawn', sends') /\ x \in Seq(Datagram(1..drawn')) /\ rest \in Seq(Datagram(1..drawn'))
  BY <1>2, <1>3, <1>4
<1> QED
  BY <1>3, <1>5, <1>6, <1>7, StepKeepsInv

(* The same, for a reply of the usual kind. *)
LEMMA ReplyKeepsInv ==
  ASSUME HInv, NEW n \in Nodes, NEW p \in Nodes, n # p, NEW in \in Arrivals(n, p),
         NEW u \in Entries(drawn, sends), NEW event \in Told, NEW x \in Seq(Datagram(1..drawn)),
         Reply(n, p, in, u, event, x),
         u # None /\ u.state = "Established" => event = "Connected",
         (GuardedPair(n, p) /\ GuardedPair(p, n) /\ link[p][n] # <<>> /\ in.buf = link[p][n][1]) =>
            Replies(in.buf, session[n][p], u, session[p][n], link[n][p], x)
  PROVE  HInv'
<1>1. Handles(n, p, in, u, event, x) /\ drawn' = drawn
  BY ReplyHandles
<1>2. drawn \in Nat /\ drawn <= drawn
  BY DEF HInv, VariablesOK
<1> QED
  BY <1>1, <1>2, ArrivalKeepsInv

LEMMA ActKeepsInv ==
  ASSUME HInv, NEW n \in Nodes, NEW p \in Nodes, n # p,
         NEW u \in Entries(drawn, sends'), NEW event \in Told, NEW x \in Seq(Datagram(1..drawn)),
         NEW disturbance \in SUBSET Marks,
         Acts(n, p, u, event, x, disturbance),
         drawn' = drawn, sends' \in 0..MaxSends, sends <= sends',
         u # None /\ u.state = "Established" => event = "Connected",
         (GuardedPair(n, p) /\ GuardedPair(p, n)) =>
            Speaks(session[n][p], u, session[p][n], link[n][p], x)
  PROVE  HInv'
<1>1. VariablesOK
  BY DEF HInv
<1>2. PICK out \in Seq(Datagram(1..drawn)) : out = link[n][p]
  BY <1>1 DEF VariablesOK
<1>3. PICK q \in Seq(Datagram(1..drawn)) : q = link[p][n]
  BY <1>1 DEF VariablesOK
<1>4. /\ Step(n, p, u, event, q, x) /\ LinksOK'
      /\ seen \subseteq seen' /\ seen' \subseteq seen \cup disturbance \cup {"late"}
  BY <1>3 DEF Acts
<1>5. ASSUME Orderly'
      PROVE  /\ Guarded(u, session[p][n], link[n][p] \o x, q)
             /\ Guarded(session[p][n], u, q, link[n][p] \o x)
  <2>1. Orderly
    BY <1>4, <1>5 DEF Orderly
  <2>2. GuardedPair(n, p) /\ GuardedPair(p, n)
    BY <2>1 DEF HInv, HandshakesGuarded
  <2> QED
    BY <1>2, <1>3, <2>2, SpeaksGuarded DEF GuardedPair
<1>6. drawn' \in Nat /\ drawn <= drawn' /\ seen' \subseteq Marks
  BY <1>1, <1>4 DEF VariablesOK, Marks
<1>7. u \in Entries(drawn', sends') /\ x \in Seq(Datagram(1..drawn')) /\ q \in Seq(Datagram(1..drawn'))
  OBVIOUS
<1> QED
  BY <1>4, <1>5, <1>6, <1>7, StepKeepsInv

-----------------------------------------------------------------------------
(* What is said in one step. *)

(* The data in x is of conversation c. *)
OnlyDataOf(x, c) == \A k \in DOMAIN x : x[k][1] = 0 => x[k][2] = c

LEMMA SayNothing ==
  ASSUME NEW D, NEW c
  PROVE  <<>> \in Seq(Datagram(D)) /\ OnlyDataOf(<<>>, c)
  BY DEF OnlyDataOf

LEMMA SayControl ==
  ASSUME NEW D, NEW v \in D, NEW b \in 1..3, NEW e \in Control(b, v)
  PROVE  /\ <<e>> \in Seq(Datagram(D))
         /\ \A c : OnlyDataOf(<<e>>, c)
         /\ \A k \in DOMAIN <<e>> : \A c : ~DataOf(<<e>>[k], c)
         /\ b = 2 => Completed(<<e>>, v)
<1>1. e \in Datagram(D) /\ e[1] = b /\ e[2] = v
  BY Spoken DEF Control, Datagram
<1>2. <<e>> \in Seq(Datagram(D)) /\ DOMAIN <<e>> = {1} /\ <<e>>[1] = e
  BY <1>1
<1>3. \A c : OnlyDataOf(<<e>>, c)
  BY <1>1, <1>2 DEF OnlyDataOf
<1>4. b = 2 => Completed(<<e>>, v)
  BY <1>1, <1>2 DEF Completed, Completes
<1>5. \A k \in DOMAIN <<e>> : \A c : ~DataOf(<<e>>[k], c)
  BY <1>1, <1>2 DEF DataOf
<1> QED
  BY <1>2, <1>3, <1>4, <1>5

LEMMA SayData ==
  ASSUME NEW D, NEW c \in D, NEW x \in Seq(Data(c))
  PROVE  x \in Seq(Datagram(D)) /\ OnlyDataOf(x, c)
<1>1. x \in Seq(Datagram(D))
  BY Spoken
<1>2. ASSUME NEW k \in DOMAIN x PROVE x[k][2] = c
  <2>1. x[k] \in Data(c)
    BY LenProperties, ElementOfSeq
  <2> QED
    BY <2>1 DEF Data, Datagram
<1> QED
  BY <1>1, <1>2 DEF OnlyDataOf

LEMMA SayBoth ==
  ASSUME NEW D, NEW x \in Seq(Datagram(D)), NEW y \in Seq(Datagram(D)), NEW c,
         OnlyDataOf(x, c), OnlyDataOf(y, c)
  PROVE  x \o y \in Seq(Datagram(D)) /\ OnlyDataOf(x \o y, c)
<1> DEFINE z == x \o y
<1>1. /\ z \in Seq(Datagram(D))
      /\ \A i \in DOMAIN x : i \in DOMAIN z /\ z[i] = x[i]
      /\ \A i \in DOMAIN z : i \notin DOMAIN x => \E k \in DOMAIN y : i = Len(x) + k /\ z[i] = y[k]
  BY ConcatIndices
<1> HIDE DEF z
<1>2. ASSUME NEW i \in DOMAIN z, z[i][1] = 0 PROVE z[i][2] = c
  <2>1. CASE i \in DOMAIN x
    BY <1>1, <1>2, <2>1 DEF OnlyDataOf
  <2>2. CASE i \notin DOMAIN x
    <3>1. PICK k \in DOMAIN y : z[i] = y[k]
      BY <1>1, <2>2
    <3> QED
      BY <1>2, <3>1 DEF OnlyDataOf
  <2> QED
    BY <2>1, <2>2
<1> QED
  BY <1>1, <1>2 DEF z, OnlyDataOf

(* An entry of the map, and an entry to be. *)
LEMMA EntryFacts ==
  ASSUME HInv, NEW n \in Nodes, NEW p \in Nodes
  PROVE  /\ session[n][p] \in Entries(drawn, sends)
         /\ told[n][p] \in Told
         /\ drawn \in Nat /\ sends \in Nat /\ sends <= MaxSends
         /\ session[n][p] # None =>
               /\ Sound(session[n][p], drawn, sends)
               /\ session[n][p].conv_id \in 1..drawn
               /\ session[n][p].state \in {"SynSent", "Established"}
               /\ session[n][p].acks \in SUBSET (1..MaxSends)
               /\ session[n][p].rcv_nxt \in 1..(MaxSends + 1)
               /\ session[n][p].state = "Established" => told[n][p] = "Connected"
<1>1. /\ session[n][p] \in Entries(drawn, sends) /\ told[n][p] \in Told
      /\ drawn \in Nat /\ sends \in Nat /\ sends <= MaxSends
  BY HandshakeLimits DEF HInv, VariablesOK
<1>2. session[n][p] # None => Sound(session[n][p], drawn, sends)
  BY <1>1 DEF Entries
<1>3. session[n][p] # None /\ session[n][p].state = "Established" => told[n][p] = "Connected"
  BY DEF HInv, EstablishedIsTold
<1> QED
  BY <1>1, <1>2, <1>3 DEF Sound, Records

LEMMA SoundIsEntry == ASSUME NEW D, NEW K, NEW s, Sound(s, D, K) PROVE s \in Entries(D, K)
  BY DEF Entries, Sound

(* Conversation and data that were the session's before it spoke. *)
LEMMA SpeaksOwn ==
  ASSUME NEW s, NEW u, NEW t, NEW out, NEW in, NEW x, Guarded(t, s, in, out),
         s # None, OnlyDataOf(x, s.conv_id), u # None => u.conv_id = s.conv_id,
         Waiting(u) => Waiting(s) /\ u.rcv_nxt = 1
  PROVE  Speaks(s, u, t, out, x)
<1>1. Waiting(t) /\ s.conv_id = t.conv_id => Completed(out, t.conv_id)
  BY DEF Guarded
<1>2. \A k \in DOMAIN x : DataOf(x[k], t.conv_id) => s.conv_id = t.conv_id
  BY DEF OnlyDataOf, DataOf
<1> QED
  BY <1>1, <1>2 DEF Speaks, Waiting

-----------------------------------------------------------------------------
(* The handlers. *)

(* A datagram that changes nothing and is not answered. *)
LEMMA IgnoreKeepsInv ==
  ASSUME HInv, NEW n \in Nodes, NEW p \in Nodes, n # p, NEW in \in Arrivals(n, p),
         Ignore(n, p, in), in.buf[1] # 1,
         Waiting(session[n][p]) => ~Completes(in.buf, session[n][p].conv_id)
  PROVE  HInv'
<1> DEFINE s == session[n][p]
           t == session[p][n]
<1>1. Reply(n, p, in, s, told[n][p], <<>>)
  BY DEF Ignore
<1>2. ASSUME GuardedPair(n, p), GuardedPair(p, n) PROVE Replies(in.buf, s, s, t, link[n][p], <<>>)
  <2>1. Speaks(s, s, t, link[n][p], <<>>)
    <3>1. CASE s = None
      BY <3>1 DEF Speaks, Waiting
    <3>2. CASE s # None
      BY <1>2, <3>2, SpeaksOwn, SayNothing DEF GuardedPair, Guarded
    <3> QED
      BY <3>1, <3>2
  <2> QED
    BY <2>1 DEF Replies, SynOf
<1>3. s \in Entries(drawn, sends) /\ told[n][p] \in Told /\ <<>> \in Seq(Datagram(1..drawn))
  BY EntryFacts, SayNothing
<1>4. s # None /\ s.state = "Established" => told[n][p] = "Connected"
  BY EntryFacts
<1> QED
  BY <1>1, <1>2, <1>3, <1>4, ReplyKeepsInv

LEMMA DataArrives ==
  ASSUME HInv, NEW n \in Nodes, NEW p \in Nodes, n # p, NEW in \in Arrivals(n, p),
         NEW conv, conv = in.buf[2], in.buf[1] = 0,
         \/ RxDataOrphan(n, p, in, conv) \/ RxDataRefused(n, p, in, conv)
         \/ RxData(n, p, in, conv)
  PROVE  HInv'
<1> DEFINE s == session[n][p]
           t == session[p][n]
<1>1. /\ conv \in 1..drawn /\ conv \in Nat
      /\ in.buf[4] \in 1..MaxSends /\ in.buf[5] \in 1..(MaxSends + 1)
  <2>1. in.buf \in Datagram(1..drawn) /\ drawn \in Nat
    BY ArrivalForm DEF HInv, VariablesOK
  <2>2. in.buf[2] \in 1..drawn /\ in.buf[4] \in 1..MaxSends /\ in.buf[5] \in 1..(MaxSends + 1)
    BY <2>1, Zenon DEF Datagram
  <2> QED
    BY <2>1, <2>2
<1>2. \A c : ~Completes(in.buf, c) /\ ~SynOf(in.buf, c)
  BY DEF Completes, SynOf
<1>3. CASE RxDataOrphan(n, p, in, conv)
  <2> DEFINE x == <<encode_control("Reset", conv)>>
  <2>1. x \in Seq(Datagram(1..drawn)) /\ \A k \in DOMAIN x : \A c : ~DataOf(x[k], c)
    <3>1. encode_control("Reset", conv) \in Control(3, conv)
      BY <1>1, ControlForm
    <3> QED
      BY <1>1, <3>1, SayControl, 3 \in 1..3
  <2> HIDE DEF x
  <2>2. Replies(in.buf, s, None, t, link[n][p], x)
    BY <1>2, <2>1 DEF Replies, Speaks, Waiting
  <2>3. Reply(n, p, in, None, told[n][p], x) /\ None \in Entries(drawn, sends) /\ told[n][p] \in Told
    BY <1>3, EntryFacts DEF RxDataOrphan, Entries, x
  <2> QED
    BY <2>1, <2>2, <2>3, ReplyKeepsInv
<1>4. CASE RxDataRefused(n, p, in, conv)
  BY <1>2, <1>4, IgnoreKeepsInv DEF RxDataRefused
<1>5. CASE RxData(n, p, in, conv)
  <2>1. s # None /\ s.conv_id = conv
    BY <1>5 DEF RxData
  <2> DEFINE ack == 1..(in.buf[5] - 1)
             u == IF in.buf[3] = "push" THEN Arrived(Acknowledge(s, ack), in.buf[4])
                  ELSE Acknowledge(s, ack \cup {in.buf[4]})
  <2>2. Reply(n, p, in, u, told[n][p], <<>>)
    BY <1>5 DEF RxData
  <2>3. Sound(s, drawn, sends) /\ drawn \in Nat /\ sends \in Nat
    BY <2>1, EntryFacts
  <2>4. Sound(u, drawn, sends) /\ u.conv_id = s.conv_id /\ u.state = s.state
    <3>1. ASSUME NEW X
          PROVE  /\ Sound(Acknowledge(s, X), drawn, sends)
                 /\ Acknowledge(s, X).conv_id = s.conv_id /\ Acknowledge(s, X).state = s.state
      BY <2>3, AcknowledgeIsSound
    <3>2. LET a == Acknowledge(s, ack)
          IN  /\ Sound(Arrived(a, in.buf[4]), drawn, sends)
              /\ Arrived(a, in.buf[4]).conv_id = a.conv_id /\ Arrived(a, in.buf[4]).state = a.state
      BY <1>1, <2>3, <3>1, ArrivedIsSound
    <3> QED
      BY <3>1, <3>2
  <2> HIDE DEF u, ack
  <2>5. ASSUME GuardedPair(n, p), GuardedPair(p, n), link[p][n] # <<>>, in.buf = link[p][n][1]
        PROVE  Replies(in.buf, s, u, t, link[n][p], <<>>)
    <3>1. ~Waiting(s)
      <4> SUFFICES ASSUME Waiting(s) PROVE FALSE
        OBVIOUS
      <4>1. DataWaits(link[p][n], s.conv_id)
        BY <2>5 DEF GuardedPair, Guarded
      <4>2. 1 \in DOMAIN link[p][n]
        BY <2>5, TailIndices DEF HInv, VariablesOK
      <4>3. DataOf(link[p][n][1], s.conv_id)
        BY <2>1, <2>5 DEF DataOf
      <4> QED
        BY <4>1, <4>2, <4>3 DEF DataWaits
    <3>2. ~Waiting(u)
      BY <2>1, <2>4, <3>1 DEF Waiting
    <3>3. Speaks(s, u, t, link[n][p], <<>>)
      BY <2>1, <2>4, <2>5, <3>2, SpeaksOwn, SayNothing DEF GuardedPair
    <3> QED
      BY <1>2, <3>2, <3>3 DEF Replies
  <2>6. u.state = "Established" => told[n][p] = "Connected"
    BY <2>1, <2>4, EntryFacts
  <2>7. u \in Entries(drawn, sends) /\ told[n][p] \in Told /\ <<>> \in Seq(Datagram(1..drawn))
    BY <2>4, SoundIsEntry, SayNothing, EntryFacts
  <2> QED
    BY <2>2, <2>5, <2>6, <2>7, ReplyKeepsInv
<1> QED
  BY <1>3, <1>4, <1>5

LEMMA ResetArrives ==
  ASSUME HInv, NEW n \in Nodes, NEW p \in Nodes, n # p, NEW in \in Arrivals(n, p),
         NEW conv, in.buf[1] = 3, RxReset(n, p, in, conv)
  PROVE  HInv'
<1> DEFINE s == session[n][p]
           t == session[p][n]
<1>1. \A c : ~Completes(in.buf, c) /\ ~SynOf(in.buf, c)
  BY DEF Completes, SynOf
<1>2. <<>> \in Seq(Datagram(1..drawn))
  BY SayNothing
<1>3. CASE s # None /\ s.conv_id = conv
  <2>1. Reply(n, p, in, None, "Disconnected", <<>>)
    BY <1>3 DEF RxReset
  <2>2. Replies(in.buf, s, None, t, link[n][p], <<>>)
    BY <1>1 DEF Replies, Speaks, Waiting
  <2>3. None \in Entries(drawn, sends) /\ "Disconnected" \in Told
    BY DEF Entries, Told
  <2> QED
    BY <1>2, <2>1, <2>2, <2>3, ReplyKeepsInv
<1>4. CASE ~(s # None /\ s.conv_id = conv)
  BY <1>1, <1>4, IgnoreKeepsInv DEF RxReset
<1> QED
  BY <1>3, <1>4

(* A handshake completes in conversation c: what was queued goes out. *)
LEMMA CompletionForm ==
  ASSUME HInv, NEW n \in Nodes, NEW p \in Nodes, Waiting(session[n][p]), NEW c \in 1..drawn
  PROVE  LET w == Established(session[n][p], c)
             u == Flushed(w, Unacked(w))
         IN  /\ u \in Entries(drawn, sends) /\ Sound(u, drawn, sends)
             /\ u.conv_id = c /\ u.state = "Established" /\ w.conv_id = c
             /\ Segments(w, Unacked(w)) \in Seq(Data(c))
<1> DEFINE s == session[n][p]
           w == Established(s, c)
           u == Flushed(w, Unacked(w))
<1>1. Sound(s, drawn, sends) /\ drawn \in Nat /\ sends \in Nat /\ s.state = "SynSent"
  BY EntryFacts DEF Waiting
<1>2. /\ Sound(w, drawn, sends)
      /\ w.conv_id = c /\ w.state = "Established" /\ w.snd_buf = s.snd_buf
  BY <1>1, EstablishedIsSound
<1>3. \A sn \in Unacked(w) : w.snd_buf[sn] = 0
  BY <1>1, <1>2 DEF Sound, Unacked
<1> HIDE DEF w
<1>4. Sound(u, drawn, sends) /\ u.conv_id = c /\ u.state = "Established"
  <2>1. \A sn \in Unacked(w) : sn \in Unacked(w) => w.snd_buf[sn] + 1 < DeadLink
    BY <1>3, HandshakeLimits
  <2> QED
    BY <1>1, <1>2, <2>1, FlushedIsSound
<1>5. Segments(w, Unacked(w)) \in Seq(Data(c))
  <2>1. w.acks \in SUBSET (1..MaxSends) /\ w.rcv_nxt \in 1..(MaxSends + 1) /\ w.snd_buf \in Buffers
    BY <1>2 DEF Sound, Records
  <2>2. Unacked(w) \in SUBSET (1..MaxSends)
    BY <2>1, BufferForm DEF Unacked
  <2>3. w.conv_id \in Nat
    BY <1>1, <1>2
  <2> QED
    BY <1>2, <2>1, <2>2, <2>3, SegmentsForm
<1> QED
  BY <1>2, <1>4, <1>5, SoundIsEntry DEF w

LEMMA SynAckArrives ==
  ASSUME HInv, NEW n \in Nodes, NEW p \in Nodes, n # p, NEW in \in Arrivals(n, p),
         NEW conv, conv = in.buf[2], in.buf[1] = 2,
         RxSynAck(n, p, in, conv) \/ RxSynAckIgnored(n, p, in, conv)
  PROVE  HInv'
<1> DEFINE s == session[n][p]
           t == session[p][n]
<1>1. CASE RxSynAck(n, p, in, conv)
  <2> DEFINE w == Established(s, conv)
             u == Flushed(w, Unacked(w))
             x == Segments(w, Unacked(w))
  <2>1. Waiting(s) /\ s.conv_id = conv /\ Reply(n, p, in, u, "Connected", x)
    BY <1>1 DEF RxSynAck, Answered, Waiting
  <2>2. conv \in 1..drawn
    BY <2>1, EntryFacts DEF Waiting
  <2>3. /\ u \in Entries(drawn, sends) /\ u.conv_id = conv /\ u.state = "Established"
        /\ x \in Seq(Data(conv))
    BY <2>1, <2>2, CompletionForm
  <2> HIDE DEF u, x
  <2>4. x \in Seq(Datagram(1..drawn)) /\ OnlyDataOf(x, conv)
    BY <2>2, <2>3, SayData
  <2>5. ASSUME GuardedPair(n, p), GuardedPair(p, n) PROVE Replies(in.buf, s, u, t, link[n][p], x)
    <3>1. ~Waiting(u)
      BY <2>3 DEF Waiting
    <3>2. Speaks(s, u, t, link[n][p], x)
      BY <2>1, <2>3, <2>4, <2>5, <3>1, SpeaksOwn DEF GuardedPair, Waiting
    <3> QED
      BY <3>1, <3>2 DEF Replies, SynOf
  <2> QED
    BY <2>1, <2>3, <2>4, <2>5, ReplyKeepsInv DEF Told
<1>2. CASE RxSynAckIgnored(n, p, in, conv)
  <2>1. Waiting(s) => ~Completes(in.buf, s.conv_id)
    BY <1>2 DEF RxSynAckIgnored, Answered, Waiting, Completes
  <2> QED
    BY <1>2, <2>1, IgnoreKeepsInv DEF RxSynAckIgnored
<1> QED
  BY <1>1, <1>2

(* The handlers of a SYN that hold something back. *)
LEMMA SameHandles ==
  ASSUME HInv, NEW n \in Nodes, NEW p \in Nodes, n # p, NEW in \in Arrivals(n, p),
         NEW conv \in 1..drawn, RxSynSame(n, p, in, conv)
  PROVE  Handles(n, p, in, session[n][p], told[n][p],
                 IF session[n][p].state = "Established" THEN <<encode_control("SynAck", conv)>> ELSE <<>>)
<1> DEFINE s == session[n][p]
           d == encode_control("SynAck", conv)
<1>1. drawn' = drawn /\ drawn \in Nat /\ conv \in Nat
  BY DEF RxSynSame, HInv, VariablesOK
<1>2. d \in Datagram(1..drawn) /\ <<d>> \in Seq(Datagram(1..drawn)) /\ <<>> \o <<d>> = <<d>>
  <2>1. d \in Control(2, conv)
    BY <1>1, ControlForm
  <2>2. d \in Datagram(1..drawn)
    BY <2>1, Spoken
  <2> HIDE DEF d
  <2> QED
    BY <2>2, ConcatEmptySeq
<1>3. CASE s.state = "Established"
  <2>1. Handle(n, p, in, s, told[n][p], <<>>, unsent[n][p] \o Awaiting("receive", d))
    BY <1>3 DEF RxSynSame
  <2>2. PICK first \in Seq(Held(1..drawn)) : first = unsent[n][p]
    BY LinkForm DEF HInv
  <2> HIDE DEF d
  <2>3. Handle(n, p, in, s, told[n][p], <<>>, first \o Awaiting("receive", d)) /\ "receive" \in Tasks
        /\ Len(first) = Len(unsent[n][p]) /\ <<>> \in Seq(Datagram(1..drawn))
    BY <2>1, <2>2 DEF Tasks
  <2>4. Handles(n, p, in, s, told[n][p], <<>> \o <<d>>)
    BY <1>1, <1>2, <2>3, HeldHandles
  <2> QED
    BY <1>2, <1>3, <2>4 DEF d
<1>4. CASE s.state # "Established"
  <2>1. Reply(n, p, in, s, told[n][p], <<>>) /\ <<>> \in Seq(Datagram(1..drawn))
    BY <1>4 DEF RxSynSame, Ignore
  <2> QED
    BY <1>4, <2>1, ReplyHandles
<1> QED
  BY <1>3, <1>4

LEMMA FirstSynForm ==
  ASSUME HInv, NEW n \in Nodes, NEW p \in Nodes, NEW own, NEW conv \in 1..drawn,
         NEW held \in FirstSyn(n, p, own, conv)
  PROVE  held \in Seq(Held(1..drawn)) /\ Len(held) = Len(unsent[n][p])
<1>1. PICK q \in Seq(Held(1..drawn)) : q = unsent[n][p]
  BY LinkForm DEF HInv
<1>2. PICK d \in Datagram(1..drawn) : d = encode_control("Syn", conv)
  <2>1. conv \in Nat
    BY DEF HInv, VariablesOK
  <2> QED
    BY <2>1, ControlForm, Spoken
<1>3. CASE held = q
  BY <1>1, <1>3
<1> DEFINE first == [task |-> "send", buf |-> encode_control("Syn", own)]
           moved == [first EXCEPT !.buf = encode_control("Syn", conv)]
<1>4. moved \in Held(1..drawn)
  <2>1. moved = [task |-> "send", buf |-> d]
    BY <1>2
  <2> HIDE DEF moved
  <2> QED
    BY <2>1 DEF Held, Tasks
<1> HIDE DEF moved, first
<1>5. CASE held = [i \in DOMAIN q |-> IF q[i] = first THEN moved ELSE q[i]]
  <2>1. DOMAIN q = 1..Len(q) /\ Len(q) \in Nat /\ \A i \in 1..Len(q) : q[i] \in Held(1..drawn)
    BY LenProperties, ElementOfSeq
  <2>2. held \in [1..Len(q) -> Held(1..drawn)]
    BY <1>4, <1>5, <2>1
  <2>3. held \in Seq(Held(1..drawn))
    BY <2>1, <2>2, SeqDef, Zenon
  <2> QED
    BY <1>1, <2>1, <2>2, <2>3, LenProperties
<1> QED
  BY <1>1, <1>3, <1>5 DEF FirstSyn, first, moved

LEMMA SimultaneousHandles ==
  ASSUME HInv, NEW n \in Nodes, NEW p \in Nodes, n # p, NEW in \in Arrivals(n, p),
         NEW conv \in 1..drawn, RxSynSimultaneous(n, p, in, conv)
  PROVE  LET w == Established(session[n][p], TieBreak(n, p, session[n][p].conv_id, conv))
         IN  /\ Handles(n, p, in, Flushed(w, Unacked(w)), "Connected",
                        Segments(w, Unacked(w)) \o <<encode_control("SynAck", w.conv_id)>>)
             /\ drawn' = drawn
<1> DEFINE s == session[n][p]
           c == TieBreak(n, p, s.conv_id, conv)
           w == Established(s, c)
           segs == Segments(w, Unacked(w))
           d == encode_control("SynAck", w.conv_id)
<1>1. Waiting(s) /\ drawn' = drawn /\ drawn \in Nat
  BY DEF RxSynSimultaneous, Waiting, HInv, VariablesOK
<1>2. c \in 1..drawn /\ c \in Nat
  BY <1>1, EntryFacts DEF TieBreak, Waiting
<1>3. PICK held \in FirstSyn(n, p, s.conv_id, w.conv_id) :
         Handle(n, p, in, Flushed(w, Unacked(w)), "Connected", segs, held \o Awaiting("receive", d))
  BY DEF RxSynSimultaneous
<1> HIDE DEF c
<1>4. w.conv_id = c /\ segs \in Seq(Data(c))
  BY <1>1, <1>2, CompletionForm
<1>5. segs \in Seq(Datagram(1..drawn)) /\ d \in Datagram(1..drawn)
  BY <1>2, <1>4, Spoken, ControlForm
<1>6. held \in Seq(Held(1..drawn)) /\ Len(held) = Len(unsent[n][p]) /\ "receive" \in Tasks
  BY <1>2, <1>3, <1>4, FirstSynForm DEF Tasks
<1> HIDE DEF w, segs, d
<1>7. Handles(n, p, in, Flushed(w, Unacked(w)), "Connected", segs \o <<d>>)
  BY <1>1, <1>3, <1>5, <1>6, HeldHandles
<1> QED
  BY <1>1, <1>7 DEF c, w, segs, d

LEMMA OverwriteHandles ==
  ASSUME HInv, NEW n \in Nodes, NEW p \in Nodes, n # p, NEW in \in Arrivals(n, p),
         NEW conv \in 1..drawn, RxSynOverwrites(n, p, in, conv)
  PROVE  /\ drawn' = drawn + 1 /\ "overwrite" \in seen'
         /\ \E x \in {<<encode_control("Syn", drawn + 1), encode_control("SynAck", conv)>>,
                       <<encode_control("SynAck", conv), encode_control("Syn", drawn + 1)>>} :
                Handles(n, p, in, NewSession(conv, "Established"), "Connected", x)
<1> DEFINE D == drawn + 1
           syn == encode_control("Syn", D)
           syn_ack == encode_control("SynAck", conv)
           new == NewSession(conv, "Established")
           arrival == [in EXCEPT !.seen = @ \cup {"overwrite"}]
<1>1. drawn' = D /\ drawn \in Nat /\ D \in Nat /\ drawn <= D /\ D \in 1..D /\ conv \in 1..D /\ conv \in Nat
  BY DEF RxSynOverwrites, HInv, VariablesOK
<1>2. \/ Handle(n, p, arrival, new, "Connected", <<syn, syn_ack>>, unsent[n][p])
      \/ Handle(n, p, arrival, new, "Connected", <<syn_ack>>, unsent[n][p] \o Awaiting("send", syn))
  BY <1>1 DEF RxSynOverwrites
<1>3. syn \in Datagram(1..D) /\ syn_ack \in Datagram(1..D)
  BY <1>1, ControlForm, Spoken
<1>4. in.rest \in Seq(Datagram(1..drawn)) /\ unsent[n][p] \in Seq(Held(1..drawn))
  BY ArrivalForm, LinkForm DEF HInv
<1>5. in.rest \in Seq(Datagram(1..D)) /\ unsent[n][p] \in Seq(Held(1..D))
  <2>1. 1..drawn \subseteq 1..D
    BY <1>1
  <2>2. Datagram(1..drawn) \subseteq Datagram(1..D)
    BY <2>1, Zenon DEF Datagram
  <2>3. Held(1..drawn) \subseteq Held(1..D)
    BY <2>2 DEF Held
  <2> QED
    BY <1>4, <2>2, <2>3, SeqMonotonic
<1>6. arrival.rest = in.rest /\ arrival.seen = in.seen \cup {"overwrite"}
  <2>1. PICK buf, rest, marks : in = [buf |-> buf, rest |-> rest, seen |-> marks]
    BY DEF Arrivals
  <2> QED
    BY <2>1
<1> HIDE DEF arrival, syn, syn_ack, new, D
<1>20. PICK two \in Seq(Datagram(1..D)) : two = <<syn, syn_ack>>
  BY <1>3, OneAndOne, Zenon
<1>21. <<syn_ack>> \in Seq(Datagram(1..D)) /\ <<syn_ack>> \o <<syn>> = <<syn_ack, syn>>
  BY <1>3, OneAndOne
<1>7. PICK first \in Seq(Held(1..D)) : first = unsent[n][p]
  BY <1>5
<1>8. ASSUME NEW x, Handles(n, p, arrival, new, "Connected", x)
      PROVE  Handles(n, p, in, new, "Connected", x) /\ "overwrite" \in seen'
  BY <1>6, <1>8 DEF Handles, Rest
<1>9. CASE Handle(n, p, arrival, new, "Connected", <<syn, syn_ack>>, unsent[n][p])
  <2>1. <<>> \in Seq(Held(1..D)) /\ first \o <<>> = first /\ two \o Bufs(<<>>) = two
    BY BufsOfEmpty, ConcatEmptySeq
  <2>2. Handle(n, p, arrival, new, "Connected", two, first \o <<>>)
    BY <1>7, <1>9, <1>20, <2>1
  <2>3. Handles(n, p, arrival, new, "Connected", two \o Bufs(<<>>))
    BY <1>1, <1>5, <1>6, <1>7, <2>1, <2>2, HandleHandles
  <2>4. Handles(n, p, in, new, "Connected", <<syn, syn_ack>>) /\ "overwrite" \in seen'
    BY <1>8, <1>20, <2>1, <2>3
  <2> QED
    BY <1>1, <2>4 DEF syn, syn_ack, new, D
<1>10. CASE Handle(n, p, arrival, new, "Connected", <<syn_ack>>, unsent[n][p] \o Awaiting("send", syn))
  <2>1. PICK more \in Seq(Held(1..D)) : more = Awaiting("send", syn) /\ Bufs(more) = <<syn>>
    BY <1>3, BufsOfOne DEF Tasks
  <2>3. Handle(n, p, arrival, new, "Connected", <<syn_ack>>, first \o more)
    BY <1>7, <1>10, <2>1
  <2>4. Handles(n, p, arrival, new, "Connected", <<syn_ack>> \o Bufs(more))
    BY <1>1, <1>5, <1>6, <1>7, <1>21, <2>3, HandleHandles
  <2>5. Handles(n, p, in, new, "Connected", <<syn_ack, syn>>) /\ "overwrite" \in seen'
    BY <1>8, <1>21, <2>1, <2>4
  <2> QED
    BY <1>1, <2>5 DEF syn, syn_ack, new, D
<1> QED
  BY <1>2, <1>9, <1>10

LEMMA SynArrives ==
  ASSUME HInv, NEW n \in Nodes, NEW p \in Nodes, n # p, NEW in \in Arrivals(n, p),
         NEW conv, conv = in.buf[2], in.buf[1] = 1,
         \/ RxSynCreate(n, p, in, conv) \/ RxSynOverwrites(n, p, in, conv)
         \/ RxSynSame(n, p, in, conv) \/ RxSynSimultaneous(n, p, in, conv)
  PROVE  HInv'
<1> DEFINE s == session[n][p]
           t == session[p][n]
           ack(c) == <<encode_control("SynAck", c)>>
<1>1. conv \in 1..drawn /\ drawn \in Nat /\ sends \in Nat
  <2>1. in.buf \in Datagram(1..drawn)
    BY ArrivalForm DEF HInv
  <2>2. in.buf[2] \in 1..drawn
    BY <2>1, Zenon DEF Datagram
  <2> QED
    BY <2>2, EntryFacts
<1>2. ASSUME NEW c \in 1..drawn
      PROVE  /\ encode_control("SynAck", c) \in Datagram(1..drawn)
             /\ ack(c) \in Seq(Datagram(1..drawn)) /\ Completed(ack(c), c)
             /\ \A v : OnlyDataOf(ack(c), v)
             /\ \A k \in DOMAIN ack(c) : \A v : ~DataOf(ack(c)[k], v)
  <2>1. encode_control("SynAck", c) \in Control(2, c)
    BY <1>1, ControlForm
  <2>2. encode_control("SynAck", c) \in Datagram(1..drawn)
    BY <2>1, Spoken
  <2> QED
    BY <2>1, <2>2, SayControl, 2 \in 1..3
<1> HIDE DEF ack
<1>3. CASE RxSynCreate(n, p, in, conv)
  <2> DEFINE u == NewSession(conv, "Established")
  <2>1. Reply(n, p, in, u, "Connected", ack(conv))
    BY <1>3 DEF RxSynCreate, ack
  <2>2. Sound(u, drawn, sends) /\ u.conv_id = conv /\ u.state = "Established"
    BY <1>1, NewIsSound
  <2> HIDE DEF u
  <2>3. Replies(in.buf, s, u, t, link[n][p], ack(conv))
    BY <1>1, <1>2, <2>2 DEF Replies, Speaks, Waiting, SynOf
  <2> QED
    BY <1>1, <1>2, <2>1, <2>2, <2>3, SoundIsEntry, ReplyKeepsInv DEF Told
<1>4. CASE RxSynSame(n, p, in, conv)
  <2> DEFINE x == IF s.state = "Established" THEN ack(conv) ELSE <<>>
  <2>1. s # None /\ s.conv_id = conv /\ drawn' = drawn
    BY <1>4 DEF RxSynSame
  <2>2. x \in Seq(Datagram(1..drawn)) /\ OnlyDataOf(x, conv)
    BY <1>1, <1>2, SayNothing
  <2>10. Handles(n, p, in, s, told[n][p], x)
    BY <1>1, <1>2, <1>4, SameHandles DEF ack
  <2>3. s.state = "Established" => Completed(x, conv)
    BY <1>1, <1>2
  <2> HIDE DEF x
  <2>4. ASSUME GuardedPair(n, p), GuardedPair(p, n) PROVE Replies(in.buf, s, s, t, link[n][p], x)
    <3>1. Speaks(s, s, t, link[n][p], x)
      BY <2>1, <2>2, <2>4, SpeaksOwn DEF GuardedPair, Guarded
    <3>2. Waiting(s) => ~Completes(in.buf, s.conv_id)
      BY <2>1 DEF Completes
    <3>3. s.state \in {"SynSent", "Established"}
      BY <2>1, EntryFacts
    <3>4. ASSUME Waiting(t), SynOf(in.buf, t.conv_id) PROVE ~Waiting(s) /\ Completed(x, t.conv_id)
      <4>1. t.conv_id = s.conv_id
        BY <2>1, <3>4 DEF SynOf
      <4>2. ~Waiting(s)
        BY <2>4, <3>4, <4>1 DEF GuardedPair, Guarded
      <4> QED
        BY <2>1, <2>3, <3>3, <4>1, <4>2 DEF Waiting
    <3> QED
      BY <3>1, <3>2, <3>4 DEF Replies
  <2>5. s \in Entries(drawn, sends) /\ told[n][p] \in Told
    BY EntryFacts
  <2>6. s.state = "Established" => told[n][p] = "Connected"
    BY <2>1, EntryFacts
  <2> QED
    BY <1>1, <2>1, <2>2, <2>4, <2>5, <2>6, <2>10, ArrivalKeepsInv
<1>5. CASE RxSynSimultaneous(n, p, in, conv)
  <2> DEFINE c == TieBreak(n, p, s.conv_id, conv)
             w == Established(s, c)
             u == Flushed(w, Unacked(w))
             segs == Segments(w, Unacked(w))
             x == segs \o ack(c)
  <2>1. Waiting(s) /\ s.conv_id # conv
    BY <1>5 DEF RxSynSimultaneous, Waiting
  <2>2. c \in 1..drawn /\ (c = conv \/ c = s.conv_id)
    BY <1>1, <2>1, EntryFacts DEF TieBreak, Waiting
  <2> HIDE DEF c
  <2>3. /\ u \in Entries(drawn, sends) /\ u.conv_id = c /\ u.state = "Established"
        /\ w.conv_id = c /\ segs \in Seq(Data(c))
    BY <2>1, <2>2, CompletionForm
  <2>4. Handles(n, p, in, u, "Connected", segs \o <<encode_control("SynAck", w.conv_id)>>) /\ drawn' = drawn
    BY <1>1, <1>5, SimultaneousHandles DEF c
  <2>5. Handles(n, p, in, u, "Connected", x) /\ drawn' = drawn
    BY <2>3, <2>4 DEF ack
  <2> HIDE DEF u, segs, w
  <2>6. x \in Seq(Datagram(1..drawn)) /\ OnlyDataOf(x, c)
    <3>1. segs \in Seq(Datagram(1..drawn)) /\ OnlyDataOf(segs, c)
      BY <2>2, <2>3, SayData
    <3>2. ack(c) \in Seq(Datagram(1..drawn)) /\ OnlyDataOf(ack(c), c)
      BY <1>2, <2>2
    <3> QED
      BY <3>1, <3>2, SayBoth
  <2> HIDE DEF x
  <2>7. ASSUME GuardedPair(n, p), GuardedPair(p, n), link[p][n] # <<>>, in.buf = link[p][n][1]
        PROVE  Replies(in.buf, s, u, t, link[n][p], x)
    <3>1. PICK out \in Seq(Datagram(1..drawn)) : out = link[n][p]
      BY DEF HInv, VariablesOK
    <3>2. PICK q \in Seq(Datagram(1..drawn)) : q = link[p][n]
      BY DEF HInv, VariablesOK
    <3>3. Guarded(s, t, out, q)
      BY <2>7, <3>1, <3>2 DEF GuardedPair
    <3>4. ASSUME Waiting(t), conv = t.conv_id PROVE Completed(out, t.conv_id)
      <4>1. q # <<>> /\ SynOf(q[1], t.conv_id)
        BY <2>7, <3>2, <3>4 DEF SynOf
      <4> QED
        BY <2>1, <3>3, <3>4, <4>1, SynsCross
    <3>5. Waiting(t) => t.conv_id # s.conv_id
      BY <2>1, <3>3 DEF Guarded
    <3>6. Waiting(t) /\ c = t.conv_id => Completed(out, t.conv_id)
      BY <2>2, <3>4, <3>5
    <3>7. ~Waiting(u)
      BY <2>3 DEF Waiting
    <3>8. Speaks(s, u, t, out, x)
      BY <2>3, <2>6, <3>6, <3>7 DEF Speaks, OnlyDataOf, DataOf
    <3> QED
      BY <3>1, <3>4, <3>7, <3>8 DEF Replies, SynOf
  <2> QED
    BY <1>1, <2>3, <2>5, <2>6, <2>7, ArrivalKeepsInv DEF Told
<1>6. CASE RxSynOverwrites(n, p, in, conv)
  <2> DEFINE D == drawn + 1
             u == NewSession(conv, "Established")
             syn == encode_control("Syn", D)
             syn_ack == encode_control("SynAck", conv)
  <2>1. PICK x \in {<<syn, syn_ack>>, <<syn_ack, syn>>} : Handles(n, p, in, u, "Connected", x) /\ drawn' = D
    BY <1>1, <1>6, OverwriteHandles
  <2>2. D \in Nat /\ drawn <= D /\ conv \in 1..D /\ D \in 1..D
    BY <1>1
  <2>3. syn \in Control(1, D) /\ syn_ack \in Control(2, conv)
    BY <1>1, <2>2, ControlForm
  <2>4. syn \in Datagram(1..D) /\ syn[1] = 1 /\ syn_ack \in Datagram(1..D) /\ syn_ack[1] = 2 /\ syn_ack[2] = conv
    BY <2>2, <2>3, Spoken DEF Control, Datagram
  <2>5. Sound(u, D, sends) /\ u.conv_id = conv /\ u.state = "Established"
    BY <1>1, <2>2, NewIsSound
  <2> HIDE DEF D, u, syn, syn_ack
  <2>6. /\ x \in Seq(Datagram(1..D)) /\ DOMAIN x = {1, 2}
        /\ \E k \in DOMAIN x : x[k] = syn_ack
        /\ \A k \in DOMAIN x : x[k][1] # 0
    <3>1. ASSUME NEW d \in Datagram(1..D), NEW e \in Datagram(1..D), x = <<d, e>>
          PROVE  x \in Seq(Datagram(1..D)) /\ DOMAIN x = {1, 2} /\ x[1] = d /\ x[2] = e
      BY <3>1, OneAndOne
    <3>2. CASE x = <<syn, syn_ack>>
      <4>1. x \in Seq(Datagram(1..D)) /\ DOMAIN x = {1, 2} /\ x[1] = syn /\ x[2] = syn_ack
        BY <2>4, <3>1, <3>2
      <4> QED
        BY <2>4, <4>1
    <3>3. CASE x = <<syn_ack, syn>>
      <4>1. x \in Seq(Datagram(1..D)) /\ DOMAIN x = {1, 2} /\ x[1] = syn_ack /\ x[2] = syn
        BY <2>4, <3>1, <3>3
      <4> QED
        BY <2>4, <4>1
    <3> QED
      BY <2>1, <3>2, <3>3
  <2>7. Completed(x, conv) /\ \A k \in DOMAIN x : \A v : ~DataOf(x[k], v)
    BY <2>4, <2>6 DEF Completed, Completes, DataOf
  <2>8. Replies(in.buf, s, u, t, link[n][p], x)
    BY <1>1, <2>5, <2>7 DEF Replies, Speaks, Waiting, SynOf
  <2> QED
    BY <2>1, <2>2, <2>5, <2>6, <2>8, SoundIsEntry, ArrivalKeepsInv DEF Told
<1> QED
  BY <1>3, <1>4, <1>5, <1>6

LEMMA DeliverKeepsInv ==
  ASSUME HInv, NEW n \in Nodes, NEW p \in Nodes, n # p, Deliver(n, p)
  PROVE  HInv'
<1>1. PICK in \in Arrivals(n, p) : handle_incoming(n, p, in)
  BY DEF Deliver
<1>2. in.buf \in Datagram(1..drawn)
  BY ArrivalForm DEF HInv
<1>3. PICK pkt \in split_packet(in.buf) :
         LET conv == Head(pkt.payload)
         IN  \/ /\ pkt.typ = "KcpData"
                /\ RxDataOrphan(n, p, in, conv) \/ RxDataRefused(n, p, in, conv) \/ RxData(n, p, in, conv)
             \/ /\ pkt.typ = "Syn"
                /\ \/ RxSynCreate(n, p, in, conv) \/ RxSynOverwrites(n, p, in, conv)
                   \/ RxSynSame(n, p, in, conv) \/ RxSynSimultaneous(n, p, in, conv)
             \/ /\ pkt.typ = "SynAck"
                /\ RxSynAck(n, p, in, conv) \/ RxSynAckIgnored(n, p, in, conv)
             \/ /\ pkt.typ = "Reset"
                /\ RxReset(n, p, in, conv)
  BY <1>1 DEF handle_incoming
<1> DEFINE conv == Head(pkt.payload)
<1>4. conv = in.buf[2] /\ in.buf[1] = Byte[pkt.typ]
  BY <1>2, SplitForm
<1> HIDE DEF conv
<1>5. /\ pkt.typ = "KcpData" => in.buf[1] = 0
      /\ pkt.typ = "Syn" => in.buf[1] = 1
      /\ pkt.typ = "SynAck" => in.buf[1] = 2
      /\ pkt.typ = "Reset" => in.buf[1] = 3
  BY <1>4 DEF Byte
<1>6. CASE pkt.typ = "KcpData" /\ (RxDataOrphan(n, p, in, conv) \/ RxDataRefused(n, p, in, conv)
                                   \/ RxData(n, p, in, conv))
  BY <1>4, <1>5, <1>6, DataArrives
<1>7. CASE pkt.typ = "Syn" /\ (\/ RxSynCreate(n, p, in, conv) \/ RxSynOverwrites(n, p, in, conv)
                               \/ RxSynSame(n, p, in, conv) \/ RxSynSimultaneous(n, p, in, conv))
  BY <1>4, <1>5, <1>7, SynArrives
<1>8. CASE pkt.typ = "SynAck" /\ (RxSynAck(n, p, in, conv) \/ RxSynAckIgnored(n, p, in, conv))
  BY <1>4, <1>5, <1>8, SynAckArrives
<1>9. CASE pkt.typ = "Reset" /\ RxReset(n, p, in, conv)
  BY <1>4, <1>5, <1>9, ResetArrives
<1> QED
  BY <1>3, <1>6, <1>7, <1>8, <1>9 DEF conv

-----------------------------------------------------------------------------
(* What a peer does of its own accord. *)

(* A session goes: out, of its conversation, and then the RESET go out. *)
LEMMA TeardownKeepsInv ==
  ASSUME HInv, NEW n \in Nodes, NEW p \in Nodes, n # p, session[n][p] # None,
         NEW out \in Seq(Data(session[n][p].conv_id)),
         NEW disturbance \in SUBSET Marks,
         Teardown(n, p, out, disturbance)
  PROVE  HInv'
<1> DEFINE s == session[n][p]
           t == session[p][n]
           c == s.conv_id
           reset == <<encode_control("Reset", c)>>
           x == out \o reset
<1>1. c \in 1..drawn /\ drawn \in Nat /\ sends \in 0..MaxSends /\ sends <= sends
  BY EntryFacts, HandshakeLimits
<1>2. Act(n, p, None, "Disconnected", x, disturbance) /\ drawn' = drawn /\ sends' = sends
  BY DEF Teardown
<1>3. out \in Seq(Datagram(1..drawn)) /\ OnlyDataOf(out, c)
  <2> HIDE DEF c
  <2> QED
    BY <1>1, SayData DEF c
<1>4. reset \in Seq(Datagram(1..drawn)) /\ OnlyDataOf(reset, c)
  <2>1. encode_control("Reset", c) \in Control(3, c)
    BY <1>1, ControlForm
  <2> QED
    BY <1>1, <2>1, SayControl, 3 \in 1..3
<1> HIDE DEF reset
<1>5. x \in Seq(Datagram(1..drawn)) /\ OnlyDataOf(x, c)
  BY <1>3, <1>4, SayBoth
<1> HIDE DEF x
<1>6. (GuardedPair(n, p) /\ GuardedPair(p, n)) => Speaks(s, None, t, link[n][p], x)
  BY <1>5, SpeaksOwn DEF GuardedPair, Waiting
<1>7. None \in Entries(drawn, sends') /\ "Disconnected" \in Told
  BY DEF Entries, Told
<1> QED
  BY <1>1, <1>2, <1>5, <1>6, <1>7, ActActs, ActKeepsInv

(* A session goes on in its conversation, and says x. *)
LEMMA OwnActKeepsInv ==
  ASSUME HInv, NEW n \in Nodes, NEW p \in Nodes, n # p, session[n][p] # None,
         NEW u, Sound(u, drawn, sends'), u.conv_id = session[n][p].conv_id,
         u.state = session[n][p].state, Waiting(session[n][p]) => u.rcv_nxt = session[n][p].rcv_nxt,
         NEW x \in Seq(Datagram(1..drawn)), OnlyDataOf(x, session[n][p].conv_id),
         NEW disturbance \in SUBSET Marks,
         Acts(n, p, u, told[n][p], x, disturbance),
         drawn' = drawn, sends' \in 0..MaxSends, sends <= sends'
  PROVE  HInv'
<1> DEFINE s == session[n][p]
           t == session[p][n]
<1>1. (GuardedPair(n, p) /\ GuardedPair(p, n)) => Speaks(s, u, t, link[n][p], x)
  <2> SUFFICES ASSUME GuardedPair(n, p), GuardedPair(p, n) PROVE Speaks(s, u, t, link[n][p], x)
    OBVIOUS
  <2>1. Waiting(u) => Waiting(s) /\ u.rcv_nxt = 1
    BY DEF GuardedPair, Guarded, Waiting
  <2> QED
    BY <2>1, SpeaksOwn DEF GuardedPair
<1>2. u.state = "Established" => told[n][p] = "Connected"
  BY EntryFacts
<1>3. u \in Entries(drawn, sends') /\ told[n][p] \in Told
  BY SoundIsEntry, EntryFacts
<1> QED
  BY <1>1, <1>2, <1>3, ActKeepsInv

LEMMA SegmentsSay ==
  ASSUME NEW D \in Nat, NEW K \in Nat, NEW s, Sound(s, D, K), NEW sns \in SUBSET (1..MaxSends)
  PROVE  /\ Segments(s, sns) \in Seq(Data(s.conv_id))
         /\ Segments(s, sns) \in Seq(Datagram(1..D))
         /\ OnlyDataOf(Segments(s, sns), s.conv_id)
<1>1. /\ s.conv_id \in 1..D /\ s.conv_id \in Nat
      /\ s.acks \in SUBSET (1..MaxSends) /\ s.rcv_nxt \in 1..(MaxSends + 1)
  BY DEF Sound, Records
<1>2. Segments(s, sns) \in Seq(Data(s.conv_id))
  BY <1>1, SegmentsForm
<1> QED
  BY <1>1, <1>2, SayData

LEMMA SendDataKeepsInv ==
  ASSUME HInv, NEW n \in Nodes, NEW p \in Nodes, n # p, SendData(n, p)
  PROVE  HInv'
<1> DEFINE s == session[n][p]
           u == Queue(s)
<1>1. s # None /\ drawn' = drawn /\ sends' = sends + 1 /\ sends + 1 <= MaxSends
  BY EntryFacts, HandshakeLimits DEF SendData
<1>2. Sound(s, drawn, sends) /\ drawn \in Nat /\ sends \in Nat
  BY <1>1, EntryFacts
<1>3. /\ Sound(u, drawn, sends + 1)
      /\ u.conv_id = s.conv_id /\ u.state = s.state /\ u.rcv_nxt = s.rcv_nxt
      /\ u.snd \in Unacked(u) /\ u.snd_buf[u.snd] = 0
  BY <1>1, <1>2, QueueIsSound
<1>4. sends' \in 0..MaxSends /\ sends <= sends' /\ sends + 1 \in Nat
  BY <1>1, <1>2, HandshakeLimits
<1>5. CASE s.state = "Established"
  <2> DEFINE v == Flushed(u, {u.snd})
             x == Segments(u, {u.snd})
  <2>1. Act(n, p, v, told[n][p], x, {})
    BY <1>5 DEF SendData
  <2> HIDE DEF u
  <2>2. Sound(v, drawn, sends + 1) /\ v.conv_id = u.conv_id /\ v.state = "Established"
    <3>1. \A sn \in Unacked(u) : sn \in {u.snd} => u.snd_buf[sn] + 1 < DeadLink
      BY <1>3, HandshakeLimits
    <3> QED
      BY <1>2, <1>3, <1>4, <1>5, <3>1, FlushedIsSound
  <2>3. u.snd \in 1..MaxSends
    <3>1. u.snd_buf \in Buffers
      BY <1>3 DEF Sound, Records
    <3> QED
      BY <1>3, <3>1, BufferForm DEF Unacked
  <2>4. x \in Seq(Datagram(1..drawn)) /\ OnlyDataOf(x, u.conv_id)
    BY <1>2, <1>3, <1>4, <2>3, SegmentsSay
  <2> HIDE DEF v, x
  <2>5. /\ Sound(v, drawn, sends') /\ v.conv_id = s.conv_id /\ v.state = s.state
        /\ Waiting(s) => v.rcv_nxt = s.rcv_nxt
    BY <1>1, <1>3, <1>5, <2>2 DEF Waiting
  <2>6. OnlyDataOf(x, s.conv_id) /\ {} \in SUBSET Marks
    BY <1>3, <2>4
  <2> QED
    <3>1. Acts(n, p, v, told[n][p], x, {})
      BY <1>1, <2>1, <2>4, ActActs
    <3> QED
      BY <1>1, <1>4, <2>4, <2>5, <2>6, <3>1, OwnActKeepsInv
<1>6. CASE s.state # "Established"
  <2>1. Act(n, p, u, told[n][p], <<>>, {})
    BY <1>6 DEF SendData
  <2>2. <<>> \in Seq(Datagram(1..drawn)) /\ OnlyDataOf(<<>>, s.conv_id)
    BY SayNothing
  <2> HIDE DEF u
  <2>3. Sound(u, drawn, sends') /\ {} \in SUBSET Marks
    BY <1>1, <1>3
  <2> QED
    <3>1. Acts(n, p, u, told[n][p], <<>>, {})
      BY <1>1, <2>1, <2>2, ActActs
    <3> QED
      BY <1>1, <1>3, <1>4, <2>2, <2>3, <3>1, OwnActKeepsInv
<1> QED
  BY <1>5, <1>6

LEMMA RetrySynKeepsInv ==
  ASSUME HInv, NEW n \in Nodes, NEW p \in Nodes, n # p, RetrySyn(n, p)
  PROVE  HInv'
<1> DEFINE s == session[n][p]
           u == [s EXCEPT !.syn_retries = @ + 1]
           x == <<encode_control("Syn", s.conv_id)>>
<1>1. /\ s # None /\ s.syn_retries < SynMaxRetries /\ drawn' = drawn /\ sends' = sends
      /\ Do(n, p, u, told[n][p], <<>>,
            unsent[n][p] \o Awaiting("update", encode_control("Syn", s.conv_id)), {"retry"})
  BY DEF RetrySyn
<1>2. Sound(s, drawn, sends) /\ s.conv_id \in 1..drawn /\ drawn \in Nat /\ sends \in Nat /\ sends <= MaxSends
  BY <1>1, EntryFacts
<1>3. /\ x \in Seq(Datagram(1..drawn)) /\ OnlyDataOf(x, s.conv_id)
      /\ Acts(n, p, u, told[n][p], x, {"retry"})
  <2>1. encode_control("Syn", s.conv_id) \in Control(1, s.conv_id)
    BY <1>2, ControlForm
  <2>2. encode_control("Syn", s.conv_id) \in Datagram(1..drawn)
    BY <1>2, <2>1, Spoken
  <2>3. drawn <= drawn /\ "update" \in Tasks
    BY <1>2 DEF Tasks
  <2>4. Acts(n, p, u, told[n][p], x, {"retry"})
    <3> HIDE DEF u
    <3> QED
      BY <1>1, <1>2, <2>2, <2>3, DoHeldActs
  <2> QED
    BY <1>2, <2>1, <2>4, SayControl, 1 \in 1..3
<1> HIDE DEF x
<1>4. /\ Sound(u, drawn, sends)
      /\ u.conv_id = s.conv_id /\ u.state = s.state /\ u.rcv_nxt = s.rcv_nxt
  <2>1. s \in Records(drawn) /\ s.syn_retries \in 0..SynMaxRetries
    BY <1>2 DEF Sound, Records
  <2>2. s.syn_retries + 1 \in 0..SynMaxRetries
    BY <1>1, <2>1, HandshakeLimits
  <2>3. u = [s EXCEPT !.syn_retries = s.syn_retries + 1]
    OBVIOUS
  <2> HIDE DEF u
  <2>4. u \in Records(drawn)
    BY <2>1, <2>2, <2>3 DEF Records
  <2>5. /\ u.conv_id = s.conv_id /\ u.state = s.state /\ u.rcv_nxt = s.rcv_nxt
        /\ u.snd = s.snd /\ u.snd_buf = s.snd_buf
    BY <2>1, <2>3 DEF Records
  <2> QED
    BY <1>2, <2>4, <2>5 DEF Sound, Unacked
<1> HIDE DEF u
<1>5. sends' \in 0..MaxSends /\ sends <= sends' /\ Sound(u, drawn, sends') /\ {"retry"} \in SUBSET Marks
  BY <1>1, <1>2, <1>4, HandshakeLimits DEF Marks
<1> QED
  BY <1>1, <1>3, <1>4, <1>5, OwnActKeepsInv

(* FlushAcks and Resend: a flush of the messages sns, none for the last time. *)
LEMMA FlushKeepsInv ==
  ASSUME HInv, NEW n \in Nodes, NEW p \in Nodes, n # p, session[n][p] # None,
         session[n][p].state = "Established", NEW sns \in SUBSET Unacked(session[n][p]),
         \A sn \in sns : session[n][p].snd_buf[sn] + 1 < DeadLink,
         Act(n, p, Flushed(session[n][p], sns), told[n][p], Segments(session[n][p], sns), {}),
         UNCHANGED <<drawn, sends>>
  PROVE  HInv'
<1> DEFINE s == session[n][p]
           u == Flushed(s, sns)
           x == Segments(s, sns)
<1>1. Sound(s, drawn, sends) /\ drawn \in Nat /\ sends \in Nat /\ sends <= MaxSends
  BY EntryFacts
<1>2. sns \in SUBSET (1..MaxSends)
  <2>1. s.snd_buf \in Buffers
    BY <1>1 DEF Sound, Records
  <2> QED
    BY <2>1, BufferForm DEF Unacked
<1>3. Sound(u, drawn, sends) /\ u.conv_id = s.conv_id /\ u.state = "Established"
  BY <1>1, FlushedIsSound
<1>4. x \in Seq(Datagram(1..drawn)) /\ OnlyDataOf(x, s.conv_id)
  BY <1>1, <1>2, SegmentsSay
<1> HIDE DEF u, x
<1>5. /\ sends' \in 0..MaxSends /\ sends <= sends' /\ Sound(u, drawn, sends') /\ drawn' = drawn
      /\ ~Waiting(s) /\ u.state = s.state /\ {} \in SUBSET Marks
  BY <1>1, <1>3, HandshakeLimits DEF Waiting
<1>6. Act(n, p, u, told[n][p], x, {})
  BY DEF u, x
<1>7. Acts(n, p, u, told[n][p], x, {})
  BY <1>4, <1>5, <1>6, ActActs
<1> QED
  BY <1>3, <1>4, <1>5, <1>7, OwnActKeepsInv

LEMMA VisitKeepsInv ==
  ASSUME HInv, NEW n \in Nodes, NEW p \in Nodes, n # p,
         UpdateVisit(n, p) \/ Disconnect(n, p) \/ Idle(n, p)
  PROVE  HInv'
<1> DEFINE s == session[n][p]
<1>1. CASE RetrySyn(n, p)
  BY <1>1, RetrySynKeepsInv
<1>2. <<>> \in Seq(Data(s.conv_id))
  OBVIOUS
<1>3. CASE Abandon(n, p)
  <2>1. s # None /\ Teardown(n, p, <<>>, {}) /\ {} \in SUBSET Marks
    BY <1>3 DEF Abandon
  <2> QED
    BY <1>2, <2>1, TeardownKeepsInv
<1>4. CASE Disconnect(n, p) \/ Idle(n, p)
  <2>1. s # None /\ Teardown(n, p, <<>>, {"close"}) /\ {"close"} \in SUBSET Marks
    BY <1>4 DEF Disconnect, Idle, Pending, Marks
  <2> QED
    BY <1>2, <2>1, TeardownKeepsInv
<1>5. CASE FlushAcks(n, p)
  <2>1. {} \in SUBSET Unacked(s) /\ \A sn \in {} : s.snd_buf[sn] + 1 < DeadLink
    OBVIOUS
  <2> QED
    BY <1>5, <2>1, FlushKeepsInv DEF FlushAcks
<1>6. ASSUME NEW sn \in 1..MaxSends, Resend(n, p, sn) PROVE HInv'
  <2>1. {sn} \in SUBSET Unacked(s) /\ \A k \in {sn} : s.snd_buf[k] + 1 < DeadLink
    BY <1>6 DEF Resend
  <2> QED
    BY <1>6, <2>1, FlushKeepsInv DEF Resend
<1>7. ASSUME NEW sn \in 1..MaxSends, GiveUp(n, p, sn) PROVE HInv'
  <2>1. /\ s # None /\ Teardown(n, p, Segments(s, {sn}), {})
        /\ {} \in SUBSET Marks
    BY <1>7 DEF GiveUp
  <2>2. Segments(s, {sn}) \in Seq(Data(s.conv_id))
    BY <2>1, EntryFacts, SegmentsSay
  <2> QED
    BY <2>1, <2>2, TeardownKeepsInv
<1> QED
  BY <1>1, <1>3, <1>4, <1>5, <1>6, <1>7 DEF UpdateVisit

(* The one who connects: its conversation is new, and its SYN goes out last. *)
LEMMA ConnecterGuarded ==
  ASSUME NEW D \in Nat, NEW out \in Seq(Datagram(1..D)), NEW in \in Seq(Datagram(1..D)),
         NEW e \in Control(1, D + 1), NEW t, t # None => t.conv_id \in 1..D,
         NEW u, u.conv_id = D + 1, u.rcv_nxt = 1,
         Guarded(t, None, in, out)
  PROVE  Guarded(u, t, out \o <<e>>, in) /\ Guarded(t, u, in, out \o <<e>>)
<1> DEFINE S == Datagram(1..(D + 1))
           more == out \o <<e>>
<1>1. ASSUME NEW q \in Seq(Datagram(1..D)), NEW i \in DOMAIN q PROVE q[i][2] # D + 1
  <2>1. q[i] \in Datagram(1..D)
    BY LenProperties, ElementOfSeq
  <2>2. q[i][2] \in 1..D
    BY <2>1, Zenon DEF Datagram
  <2> QED
    BY <2>2
<1>2. out \in Seq(S) /\ <<e>> \in Seq(S) /\ SynOf(e, D + 1) /\ \A c : ~DataOf(e, c)
  <2>1. Datagram(1..D) \subseteq S
    <3>1. 1..D \subseteq 1..(D + 1)
      OBVIOUS
    <3> QED
      BY <3>1, Zenon DEF Datagram
  <2>2. out \in Seq(S)
    BY <2>1, SeqMonotonic
  <2>3. D + 1 \in 1..(D + 1) /\ 1 \in 1..3
    OBVIOUS
  <2>4. <<e>> \in Seq(S)
    BY <2>3, SayControl
  <2>5. e[1] = 1 /\ e[2] = D + 1
    BY DEF Control, Datagram
  <2> QED
    BY <2>2, <2>4, <2>5 DEF SynOf, DataOf
<1>3. /\ DOMAIN <<e>> = {1} /\ <<e>>[1] = e /\ Len(out) \in Nat
      /\ DOMAIN out = 1..Len(out)
  BY LenProperties
<1>4. PICK x \in Seq(S) : x = <<e>>
  BY <1>2
<1>5. /\ \A i \in DOMAIN out : i \in DOMAIN (out \o x) /\ (out \o x)[i] = out[i]
      /\ \A i \in DOMAIN (out \o x) : i \notin DOMAIN out =>
            \E k \in DOMAIN x : i = Len(out) + k /\ (out \o x)[i] = x[k]
      /\ \A k \in DOMAIN x : Len(out) + k \in DOMAIN (out \o x) /\ (out \o x)[Len(out) + k] = x[k]
  BY <1>2, ConcatIndices
<1>6. /\ \A i \in DOMAIN out : i \in DOMAIN more /\ more[i] = out[i]
      /\ \A i \in DOMAIN more : i \notin DOMAIN out => i = Len(out) + 1
      /\ Len(out) + 1 \in DOMAIN more /\ more[Len(out) + 1] = e
  BY <1>3, <1>4, <1>5
<1> HIDE DEF more
<1>7. Guarded(u, t, more, in)
  <2>1. t # None => t.conv_id # u.conv_id
    OBVIOUS
  <2>2. DataWaits(in, u.conv_id)
    BY <1>1 DEF DataWaits, DataOf
  <2>3. SynIsAnswered(u, t, more, in)
    BY <1>2, <1>6 DEF SynIsAnswered
  <2> QED
    BY <2>1, <2>2, <2>3 DEF Guarded, Waiting
<1>8. Guarded(t, u, in, more)
  <2> SUFFICES ASSUME Waiting(t)
               PROVE  /\ t.rcv_nxt = 1
                      /\ u.conv_id # t.conv_id
                      /\ DataWaits(more, t.conv_id)
                      /\ SynIsAnswered(t, u, in, more)
    BY DEF Guarded
  <2>1. t.rcv_nxt = 1 /\ DataWaits(out, t.conv_id) /\ SynIsAnswered(t, None, in, out)
    BY DEF Guarded
  <2>2. u.conv_id # t.conv_id
    BY DEF Waiting
  <2>3. DataWaits(more, t.conv_id)
    <3>1. \A k \in DOMAIN <<e>> : ~DataOf(<<e>>[k], t.conv_id)
      BY <1>2, <1>3
    <3> QED
      BY <1>2, <2>1, <3>1, DataWaitsGrows DEF more
  <2>4. SynIsAnswered(t, u, in, more)
    <3>1. ASSUME NEW j \in DOMAIN out, Completes(out[j], t.conv_id)
          PROVE  SynIsAnswered(t, u, in, more)
      <4>1. j \in DOMAIN more /\ Completes(more[j], t.conv_id)
        BY <1>6, <3>1
      <4>2. ASSUME NEW k \in DOMAIN more, SynOf(more[k], u.conv_id) PROVE j < k
        <5>1. k \notin DOMAIN out
          BY <1>1, <1>6, <4>2 DEF SynOf
        <5> QED
          BY <1>3, <1>6, <5>1
      <4> QED
        BY <4>1, <4>2, Zenon DEF SynIsAnswered
    <3> QED
      BY <2>1, <3>1, Zenon DEF SynIsAnswered
  <2> QED
    BY <2>1, <2>2, <2>3, <2>4
<1> QED
  BY <1>7, <1>8 DEF more

LEMMA ConnectActs ==
  ASSUME HInv, NEW n \in Nodes, NEW p \in Nodes, n # p, SendConnect(n, p)
  PROVE  /\ session[n][p] = None /\ drawn' = drawn + 1 /\ sends' = sends
         /\ Acts(n, p, NewSession(drawn + 1, "SynSent"), told[n][p],
                 <<encode_control("Syn", drawn + 1)>>, {})
<1> DEFINE D == drawn + 1
           u == NewSession(D, "SynSent")
           e == encode_control("Syn", D)
<1>1. /\ session[n][p] = None /\ drawn' = D /\ sends' = sends
      /\ Do(n, p, u, told[n][p], <<>>, unsent[n][p] \o Awaiting("send", e), {})
  BY DEF SendConnect
<1>2. D \in Nat /\ drawn <= D /\ D \in 1..D /\ "send" \in Tasks
  BY DEF HInv, VariablesOK, Tasks
<1>3. e \in Datagram(1..D)
  BY <1>2, ControlForm, Spoken
<1> HIDE DEF D, u, e
<1>4. Acts(n, p, u, told[n][p], <<e>>, {})
  BY <1>1, <1>2, <1>3, DoHeldActs
<1> QED
  BY <1>1, <1>4 DEF D, u, e

LEMMA SendConnectKeepsInv ==
  ASSUME HInv, NEW n \in Nodes, NEW p \in Nodes, n # p, SendConnect(n, p)
  PROVE  HInv'
<1> DEFINE t == session[p][n]
           D == drawn + 1
           u == NewSession(D, "SynSent")
           e == encode_control("Syn", D)
<1>1. /\ session[n][p] = None /\ drawn' = D /\ sends' = sends
      /\ Acts(n, p, u, told[n][p], <<e>>, {})
  BY ConnectActs
<1>2. /\ drawn \in Nat /\ sends \in Nat /\ D \in Nat /\ drawn <= D /\ D \in 1..D
      /\ sends <= sends /\ sends \in 0..MaxSends
  BY EntryFacts, HandshakeLimits
<1>3. Sound(u, D, sends) /\ u.conv_id = D /\ u.state = "SynSent" /\ u.rcv_nxt = 1
  BY <1>2, NewIsSound
<1>4. e \in Control(1, D)
  BY <1>2, ControlForm
<1>5. <<e>> \in Seq(Datagram(1..D))
  BY <1>2, <1>4, SayControl, 1 \in 1..3
<1>6. PICK out \in Seq(Datagram(1..drawn)) : out = link[n][p]
  BY DEF HInv, VariablesOK
<1>7. PICK q \in Seq(Datagram(1..drawn)) : q = link[p][n]
  BY DEF HInv, VariablesOK
<1> HIDE DEF e, u
<1>8. /\ Step(n, p, u, told[n][p], q, <<e>>) /\ LinksOK'
      /\ seen \subseteq seen' /\ seen' \subseteq seen \cup {"late"}
  BY <1>1, <1>7 DEF Acts
<1>9. ASSUME Orderly'
      PROVE  Guarded(u, t, link[n][p] \o <<e>>, q) /\ Guarded(t, u, q, link[n][p] \o <<e>>)
  <2>1. Orderly
    BY <1>8, <1>9 DEF Orderly
  <2>2. Guarded(t, None, q, out)
    BY <1>1, <1>6, <1>7, <2>1 DEF HInv, HandshakesGuarded, GuardedPair
  <2>3. t # None => t.conv_id \in 1..drawn
    BY EntryFacts
  <2>4. Guarded(u, t, out \o <<e>>, q) /\ Guarded(t, u, q, out \o <<e>>)
    BY <1>2, <1>3, <1>4, <2>2, <2>3, ConnecterGuarded
  <2> QED
    BY <1>6, <2>4
<1>10. /\ u \in Entries(drawn', sends') /\ told[n][p] \in Told
       /\ <<e>> \in Seq(Datagram(1..drawn')) /\ q \in Seq(Datagram(1..drawn'))
  <2>1. u \in Entries(D, sends)
    BY <1>3, SoundIsEntry
  <2>2. Seq(Datagram(1..drawn)) \subseteq Seq(Datagram(1..D))
    BY <1>2, EntriesGrow
  <2> QED
    BY <1>1, <1>5, <2>1, <2>2, EntryFacts
<1>11. /\ drawn' \in Nat /\ drawn <= drawn' /\ sends' \in 0..MaxSends /\ sends <= sends'
       /\ seen' \subseteq Marks
  BY <1>1, <1>2, <1>8 DEF HInv, VariablesOK, Marks
<1> QED
  BY <1>3, <1>8, <1>9, <1>10, <1>11, StepKeepsInv

(* What was about to be sent: the link stays as it is if it was the first. *)
LEMMA TransmitLinks ==
  ASSUME HInv, NEW n \in Nodes, NEW p \in Nodes, NEW i \in DOMAIN unsent[n][p], Transmit(n, p, i)
  PROVE  /\ LinksOK' /\ UNCHANGED <<session, told, drawn, sends, delivered>>
         /\ seen \subseteq seen' /\ seen' \subseteq seen \cup {"late"}
         /\ "late" \notin seen' => link' = link
<1>1. /\ net' = [net EXCEPT ![n][p] = Append(@, unsent[n][p][i].buf)]
      /\ unsent' = [unsent EXCEPT ![n][p] = RemoveAt(@, i)]
      /\ seen' = seen \cup {late \in {"late"} : i > 1}
      /\ UNCHANGED <<session, told, drawn, sends, delivered>>
  BY DEF Transmit
<1>2. PICK k \in Seq(Datagram(1..drawn)) : k = net[n][p]
  BY LinkForm DEF HInv
<1>3. PICK q \in Seq(Held(1..drawn)) : q = unsent[n][p]
  BY LinkForm DEF HInv
<1>4. RemoveAt(q, i) \in Seq(Held(1..drawn)) /\ q # <<>> /\ (i = 1 => RemoveAt(q, i) = Tail(q))
  BY <1>3, RemoveAtForm
<1>5. PICK left \in Seq(Held(1..drawn)) : left = RemoveAt(q, i)
  BY <1>4
<1>6. DOMAIN q = 1..Len(q) /\ Len(q) \in Nat /\ q[i] \in Held(1..drawn)
  BY <1>3, LenProperties, ElementOfSeq
<1>7. PICK d \in Datagram(1..drawn) : d = q[i].buf
  BY <1>6 DEF Held
<1>8. PICK said \in Seq(Datagram(1..drawn)) : said = k \o <<d>> /\ said = Append(k, d)
  BY AppendIsConcat, AppendProperties
<1>9. net' = [net EXCEPT ![n][p] = said] /\ unsent' = [unsent EXCEPT ![n][p] = left]
  BY <1>1, <1>2, <1>3, <1>5, <1>7, <1>8
<1>10. PICK N \in [Nodes -> [Nodes -> Seq(Datagram(1..drawn))]] : N = net
  BY DEF HInv, VariablesOK, LinksOK
<1>11. PICK U \in [Nodes -> [Nodes -> Seq(Held(1..drawn))]] : U = unsent
  BY DEF HInv, VariablesOK, LinksOK
<1>12. PICK M \in [Nodes -> [Nodes -> Seq(Datagram(1..drawn))]] :
          M = net' /\ \A a, b \in Nodes : M[a][b] = IF a = n /\ b = p THEN said ELSE N[a][b]
  <2>1. [N EXCEPT ![n][p] = said] \in [Nodes -> [Nodes -> Seq(Datagram(1..drawn))]]
    OBVIOUS
  <2> QED
    BY <1>9, <1>10, <2>1, UpdateAt
<1>13. PICK V \in [Nodes -> [Nodes -> Seq(Held(1..drawn))]] :
          V = unsent' /\ \A a, b \in Nodes : V[a][b] = IF a = n /\ b = p THEN left ELSE U[a][b]
  <2>1. [U EXCEPT ![n][p] = left] \in [Nodes -> [Nodes -> Seq(Held(1..drawn))]]
    OBVIOUS
  <2> QED
    BY <1>9, <1>11, <2>1, UpdateAt
<1>14. LinksOK'
  BY <1>1, <1>12, <1>13 DEF LinksOK
<1>15. ASSUME "late" \notin seen' PROVE link' = link
  <2>1. i = 1 /\ left = Tail(q)
    <3>1. ~(i > 1)
      BY <1>1, <1>15
    <3>2. i \in 1..Len(q)
      BY <1>3, <1>6
    <3>3. i = 1
      BY <1>6, <3>1, <3>2
    <3> QED
      BY <1>4, <1>5, <3>3
  <2>2. said \o Bufs(left) = k \o Bufs(q)
    <3>1. PICK r \in Seq(Datagram(1..drawn)) : r = Bufs(left)
      BY BufsForm
    <3>2. PICK one \in Seq(Held(1..drawn)) : one = <<q[1]>> /\ Len(one) = 1 /\ one[1] = q[1]
      <4>1. PICK h \in Held(1..drawn) : h = q[1]
        BY <1>6, <2>1
      <4>2. <<h>> \in Seq(Held(1..drawn)) /\ Len(<<h>>) = 1 /\ <<h>>[1] = h
        OBVIOUS
      <4> QED
        BY <4>1, <4>2
    <3>3. q = one \o left
      <4>1. PICK c \in Seq(Held(1..drawn)) :
               /\ c = one \o left /\ Len(c) = Len(one) + Len(left)
               /\ \A j \in 1..(Len(one) + Len(left)) : c[j] = IF j <= Len(one) THEN one[j] ELSE left[j - Len(one)]
        BY Concatenation, Zenon
      <4>2. Len(q) \in Nat \ {0} /\ Len(left) = Len(q) - 1 /\ \A j \in 1..(Len(q) - 1) : left[j] = q[j + 1]
        BY <1>4, <2>1, TailIndices, HeadTailProperties
      <4>3. Len(c) = Len(q)
        BY <3>2, <4>1, <4>2
      <4>4. ASSUME NEW j \in 1..Len(q) PROVE c[j] = q[j]
        <5>1. CASE j = 1
          BY <3>2, <4>1, <4>2, <5>1
        <5>2. CASE j # 1
          <6>1. j - 1 \in 1..(Len(q) - 1) /\ (j - 1) + 1 = j
            <7>1. Len(q) \in Nat
              BY <1>6
            <7> QED
              BY <5>2, <7>1
          <6> QED
            BY <3>2, <4>1, <4>2, <5>2, <6>1
        <5> QED
          BY <5>1, <5>2
      <4> QED
        BY <4>1, <4>3, <4>4, SeqEqual
    <3>4. Bufs(one) = <<d>>
      <4>1. Bufs(one) \in Seq(Datagram(1..drawn)) /\ Len(Bufs(one)) = 1 /\ Bufs(one)[1] = d
        <5>1. PICK b \in Seq(Datagram(1..drawn)) :
                 b = Bufs(one) /\ Len(b) = Len(one) /\ \A j \in 1..Len(one) : b[j] = one[j].buf
          BY BufsForm
        <5>2. 1 \in 1..Len(one) /\ Len(one) = 1
          BY <3>2
        <5>4. Len(b) = 1 /\ b[1] = one[1].buf
          BY <5>1, <5>2, Zenon
        <5>3. one[1].buf = d
          BY <1>7, <2>1, <3>2
        <5> QED
          BY <5>1, <5>3, <5>4
      <4>2. <<d>> \in Seq(Datagram(1..drawn)) /\ Len(<<d>>) = 1 /\ <<d>>[1] = d
        OBVIOUS
      <4> QED
        BY <4>1, <4>2, SeqEqual
    <3>5. Bufs(q) = <<d>> \o r
      BY <3>1, <3>3, <3>4, BufsOfConcat
    <3>6. PICK e \in Seq(Datagram(1..drawn)) : e = <<d>>
      <4>1. <<d>> \in Seq(Datagram(1..drawn))
        OBVIOUS
      <4> QED
        BY <4>1
    <3>7. Associate(k, e, r)
      BY Association, Zenon
    <3> QED
      BY <1>8, <3>1, <3>5, <3>6, <3>7, Zenon DEF Associate
  <2>3. \A a, b \in Nodes : M[a][b] \o Bufs(V[a][b]) = N[a][b] \o Bufs(U[a][b])
    BY <1>2, <1>3, <1>10, <1>11, <1>12, <1>13, <2>2
  <2>4. Joined(M, V) = Joined(N, U)
    BY <2>3 DEF Joined
  <2> QED
    BY <1>10, <1>11, <1>12, <1>13, <2>4, LinkJoins
<1> QED
  BY <1>1, <1>14, <1>15

LEMMA TransmitKeepsInv ==
  ASSUME HInv, NEW n \in Nodes, NEW p \in Nodes, NEW i \in DOMAIN unsent[n][p], Transmit(n, p, i)
  PROVE  HInv'
<1>1. /\ LinksOK' /\ UNCHANGED <<session, told, drawn, sends>>
      /\ seen \subseteq seen' /\ seen' \subseteq seen \cup {"late"}
      /\ "late" \notin seen' => link' = link
  BY TransmitLinks
<1>2. VariablesOK'
  <2>1. link' \in [Nodes -> [Nodes -> Seq(Datagram(1..drawn'))]]
    BY <1>1, LinkJoins, JoinedForm DEF LinksOK
  <2> QED
    BY <1>1, <2>1 DEF HInv, VariablesOK, Marks
<1>3. EstablishedIsTold'
  BY <1>1 DEF HInv, EstablishedIsTold
<1>4. HandshakesGuarded'
  BY <1>1 DEF HInv, HandshakesGuarded, GuardedPair, Orderly
<1> QED
  BY <1>2, <1>3, <1>4 DEF HInv

-----------------------------------------------------------------------------
(* The environment. *)

LEMMA RemoveAtConcat ==
  ASSUME NEW S, NEW q \in Seq(S), NEW r \in Seq(S), NEW i \in DOMAIN q
  PROVE  i \in DOMAIN (q \o r) /\ RemoveAt(q \o r, i) = RemoveAt(q, i) \o r
<1>1. /\ DOMAIN q = 1..Len(q) /\ Len(q) \in Nat /\ Len(r) \in Nat
      /\ q \o r \in Seq(S) /\ Len(q \o r) = Len(q) + Len(r) /\ DOMAIN (q \o r) = 1..Len(q \o r)
  BY ConcatProperties, LenProperties
<1>2. i \in 1..Len(q) /\ i \in DOMAIN (q \o r)
  BY <1>1
<1>3. SubSeq(q \o r, 1, i - 1) = SubSeq(q, 1, i - 1)
  <2>1. PICK c \in Seq(S) : c = q \o r
    BY <1>1
  <2>2. SubSeq(c, 1, Len(q)) = q
    BY <2>1, SubSeqOfConcat1
  <2>3. SubSeq(SubSeq(c, 1, Len(q)), 1, i - 1) = SubSeq(c, 1, i - 1)
    <3>1. i - 1 \in 0..Len(q) /\ 1..(i - 1) \subseteq 1..Len(q)
      BY <1>2, <1>1
    <3> QED
      BY <1>1, <1>2, <2>1, <3>1
  <2> QED
    BY <2>1, <2>2, <2>3
<1>4. SubSeq(q \o r, i + 1, Len(q \o r)) = SubSeq(q, i + 1, Len(q)) \o r
  <2>1. PICK c \in Seq(S) : c = q \o r /\ Len(c) = Len(q) + Len(r)
    BY <1>1
  <2>2. i + 1 \in 1..(Len(c) + 1) /\ Len(q) \in ((i + 1) - 1)..Len(c) /\ Len(c) \in Len(q)..Len(c)
    BY <1>1, <1>2, <2>1
  <2>3. SubSeq(c, i + 1, Len(q)) \o SubSeq(c, Len(q) + 1, Len(c)) = SubSeq(c, i + 1, Len(c))
    BY <2>2, ConcatAdjacentSubSeq
  <2>4. SubSeq(c, i + 1, Len(q)) = SubSeq(q, i + 1, Len(q))
    <3>1. CASE i + 1 \in 1..Len(q)
      <4>1. Len(q) \in 1..Len(q)
        BY <1>1, <1>2
      <4> QED
        BY <2>1, <3>1, <4>1, SubSeqOfConcat1
    <3>2. CASE ~(i + 1 \in 1..Len(q))
      <4>1. i + 1 \in Int /\ Len(q) \in Int /\ Len(q) < i + 1
        BY <1>1, <1>2, <3>2
      <4> QED
        BY <4>1, SubSeqEmpty
    <3> QED
      BY <3>1, <3>2
  <2>5. SubSeq(c, Len(q) + 1, Len(c)) = r
    <3>1. CASE Len(r) = 0
      <4>1. r = <<>> /\ Len(q) + 1 \in Int /\ Len(c) \in Int /\ Len(c) < Len(q) + 1
        BY <1>1, <2>1, <3>1, EmptySeq
      <4> QED
        BY <4>1, SubSeqEmpty
    <3>2. CASE Len(r) # 0
      <4>1. /\ Len(q) + 1 \in (Len(q) + 1)..(Len(q) + Len(r)) /\ Len(c) \in (Len(q) + 1)..(Len(q) + Len(r))
            /\ (Len(q) + 1) - Len(q) = 1 /\ Len(c) - Len(q) = Len(r)
        BY <1>1, <2>1, <3>2
      <4>2. SubSeq(c, Len(q) + 1, Len(c)) = SubSeq(r, (Len(q) + 1) - Len(q), Len(c) - Len(q))
        BY <2>1, <4>1, SubSeqOfConcat2
      <4> QED
        BY <4>1, <4>2, SubSeqFull
    <3> QED
      BY <3>1, <3>2
  <2> QED
    BY <2>1, <2>3, <2>4, <2>5
<1>5. SubSeq(q, 1, i - 1) \in Seq(S) /\ SubSeq(q, i + 1, Len(q)) \in Seq(S)
  <2>1. \A j \in 1..Len(q) : q[j] \in S
    BY ElementOfSeq
  <2>2. /\ i - 1 \in Int /\ i + 1 \in Int /\ Len(q) \in Int /\ 1 \in Int
        /\ 1..(i - 1) \subseteq 1..Len(q) /\ (i + 1)..Len(q) \subseteq 1..Len(q)
    BY <1>1, <1>2
  <2> QED
    BY <2>1, <2>2, SubSeqProperties
<1> QED
  <2>1. PICK x \in Seq(S) : x = SubSeq(q, 1, i - 1)
    BY <1>5
  <2>2. PICK y \in Seq(S) : y = SubSeq(q, i + 1, Len(q))
    BY <1>5
  <2>3. Associate(x, y, r)
    BY Association, Zenon
  <2> QED
    BY <1>2, <1>3, <1>4, <2>1, <2>2, <2>3, Zenon DEF RemoveAt, Associate

(* A loss takes a datagram from the link. *)
LEMMA LoseLinks ==
  ASSUME HInv, NEW n \in Nodes, NEW p \in Nodes, NEW i \in DOMAIN net[n][p], Lose(n, p, i)
  PROVE  /\ LinksOK' /\ UNCHANGED <<session, told, drawn, sends, delivered>>
         /\ seen' = seen \cup {"loss"} /\ "loss" \in Pending
         /\ i \in DOMAIN link[n][p]
         /\ link' = [link EXCEPT ![n][p] = RemoveAt(link[n][p], i)]
<1>1. /\ net' = [net EXCEPT ![n][p] = RemoveAt(@, i)]
      /\ seen' = seen \cup {"loss"} /\ "loss" \in Pending
      /\ UNCHANGED <<session, unsent, told, drawn, sends, delivered>>
  BY DEF Lose
<1>2. PICK k \in Seq(Datagram(1..drawn)) : k = net[n][p]
  BY LinkForm DEF HInv
<1>3. PICK left \in Seq(Datagram(1..drawn)) : left = RemoveAt(k, i)
  BY <1>2, RemoveAtForm
<1>4. PICK r \in Seq(Datagram(1..drawn)) : r = Bufs(unsent[n][p]) /\ link[n][p] = k \o r
  BY <1>2, LinkForm DEF HInv
<1>5. i \in DOMAIN (k \o r) /\ RemoveAt(k \o r, i) = left \o r
  BY <1>2, <1>3, RemoveAtConcat
<1>6. PICK N \in [Nodes -> [Nodes -> Seq(Datagram(1..drawn))]] : N = net
  BY DEF HInv, VariablesOK, LinksOK
<1>7. PICK M \in [Nodes -> [Nodes -> Seq(Datagram(1..drawn))]] :
         M = net' /\ \A a, b \in Nodes : M[a][b] = IF a = n /\ b = p THEN left ELSE N[a][b]
  <2>1. [N EXCEPT ![n][p] = left] \in [Nodes -> [Nodes -> Seq(Datagram(1..drawn))]]
    OBVIOUS
  <2> QED
    BY <1>1, <1>2, <1>3, <1>6, <2>1, UpdateAt
<1>8. LinksOK'
  BY <1>1, <1>7 DEF HInv, VariablesOK, LinksOK
<1>9. link' = [link EXCEPT ![n][p] = left \o r]
  <2>1. PICK L \in [Nodes -> [Nodes -> Seq(Datagram(1..drawn))]] : L = link
    BY DEF HInv, VariablesOK
  <2>2. \A a, b \in Nodes : L[a][b] = N[a][b] \o Bufs(unsent[a][b])
    BY <1>6, <2>1, LinkJoins DEF Joined
  <2>3. \A a, b \in Nodes : M[a][b] \o Bufs(unsent[a][b]) = IF a = n /\ b = p THEN left \o r ELSE L[a][b]
    BY <1>4, <1>7, <2>2
  <2>4. link' = Joined(M, unsent)
    BY <1>1, <1>7, LinkJoins
  <2>5. Joined(M, unsent) = [L EXCEPT ![n][p] = left \o r]
    <3>1. PICK v : v = left \o r
      OBVIOUS
    <3>2. Joined(M, unsent) = [a \in Nodes |-> [b \in Nodes |-> IF a = n /\ b = p THEN v ELSE L[a][b]]]
      BY <2>3, <3>1 DEF Joined
    <3>3. [L EXCEPT ![n][p] = v] = [a \in Nodes |-> [b \in Nodes |-> IF a = n /\ b = p THEN v ELSE L[a][b]]]
      OBVIOUS
    <3> QED
      BY <3>1, <3>2, <3>3
  <2> QED
    BY <2>1, <2>4, <2>5
<1> QED
  BY <1>1, <1>4, <1>5, <1>8, <1>9

LEMMA LoseKeepsInv ==
  ASSUME HInv, NEW n \in Nodes, NEW p \in Nodes, NEW i \in DOMAIN net[n][p], Lose(n, p, i)
  PROVE  HInv'
<1>1. /\ LinksOK' /\ UNCHANGED <<session, told, drawn, sends>>
      /\ seen' = seen \cup {"loss"} /\ "loss" \in Disturbances
  BY LoseLinks DEF Pending
<1>2. VariablesOK'
  <2>1. link' \in [Nodes -> [Nodes -> Seq(Datagram(1..drawn'))]]
    BY <1>1, LinkJoins, JoinedForm DEF LinksOK
  <2> QED
    BY <1>1, <2>1 DEF HInv, VariablesOK, Marks
<1>3. EstablishedIsTold'
  BY <1>1 DEF HInv, EstablishedIsTold
<1>4. HandshakesGuarded'
  BY <1>1 DEF HandshakesGuarded, Orderly
<1> QED
  BY <1>2, <1>3, <1>4 DEF HInv

LEMMA CrashLinks ==
  ASSUME HInv, NEW n \in Nodes, Crash(n)
  PROVE  /\ session' = [session EXCEPT ![n] = [p \in Nodes |-> None]]
         /\ told' = [told EXCEPT ![n] = [p \in Nodes |-> "none"]]
         /\ LinksOK' /\ UNCHANGED <<drawn, sends, delivered>>
         /\ "crash" \in Pending
         /\ seen \cup {"crash"} \subseteq seen' /\ seen' \subseteq seen \cup {"crash", "late"}
         /\ "late" \notin seen' => link' = link
<1>1. /\ session' = [session EXCEPT ![n] = [p \in Nodes |-> None]]
      /\ told' = [told EXCEPT ![n] = [p \in Nodes |-> "none"]]
      /\ unsent' = [unsent EXCEPT ![n] = [p \in Nodes |-> <<>>]]
      /\ seen' = seen \cup {"crash"} \cup {late \in {"late"} : \E p \in Nodes : unsent[n][p] # <<>>}
      /\ "crash" \in Pending
      /\ UNCHANGED <<net, drawn, sends, delivered>>
  BY DEF Crash
<1>2. LinksOK'
  <2>1. [p \in Nodes |-> <<>>] \in [Nodes -> Seq(Held(1..drawn))]
    OBVIOUS
  <2> QED
    BY <1>1, <2>1 DEF HInv, VariablesOK, LinksOK
<1>3. ASSUME "late" \notin seen' PROVE link' = link
  <2>1. PICK U \in [Nodes -> [Nodes -> Seq(Held(1..drawn))]] : U = unsent
    BY DEF HInv, VariablesOK, LinksOK
  <2>2. \A p \in Nodes : U[n][p] = <<>>
    BY <1>1, <1>3, <2>1
  <2>3. U[n] = [p \in Nodes |-> <<>>]
    BY <2>2
  <2>4. unsent' = unsent
    BY <1>1, <2>1, <2>3
  <2> QED
    BY <1>1, <2>4, LinkJoins
<1> QED
  BY <1>1, <1>2, <1>3

LEMMA CrashKeepsInv ==
  ASSUME HInv, NEW n \in Nodes, Crash(n)
  PROVE  HInv'
<1>1. /\ session' = [session EXCEPT ![n] = [p \in Nodes |-> None]]
      /\ told' = [told EXCEPT ![n] = [p \in Nodes |-> "none"]]
      /\ LinksOK' /\ UNCHANGED <<drawn, sends>>
      /\ "crash" \in Disturbances /\ seen \subseteq seen' /\ seen' \subseteq seen \cup {"crash", "late"}
      /\ "late" \notin seen' => link' = link
  BY CrashLinks DEF Pending
<1>2. \A a, b \in Nodes : session'[a][b] = IF a = n THEN None ELSE session[a][b]
  BY <1>1 DEF HInv, VariablesOK
<1>3. VariablesOK'
  <2>1. None \in Entries(drawn, sends) /\ "none" \in Told
    BY DEF Entries, Told
  <2>2. link' \in [Nodes -> [Nodes -> Seq(Datagram(1..drawn'))]]
    BY <1>1, LinkJoins, JoinedForm DEF LinksOK
  <2>3. session' \in [Nodes -> [Nodes -> Entries(drawn', sends')]] /\ told' \in [Nodes -> [Nodes -> Told]]
    BY <1>1, <2>1 DEF HInv, VariablesOK
  <2>4. seen' \subseteq Marks
    BY <1>1 DEF HInv, VariablesOK, Marks
  <2> QED
    BY <1>1, <2>2, <2>3, <2>4 DEF HInv, VariablesOK
<1>4. EstablishedIsTold'
  <2> SUFFICES ASSUME NEW a \in Nodes, NEW b \in Nodes, session'[a][b] # None,
                      session'[a][b].state = "Established"
               PROVE  told'[a][b] = "Connected"
    BY DEF EstablishedIsTold
  <2>1. a # n /\ session'[a][b] = session[a][b]
    BY <1>2
  <2>2. told'[a][b] = told[a][b]
    BY <1>1, <2>1 DEF HInv, VariablesOK
  <2> QED
    BY <2>1, <2>2 DEF HInv, EstablishedIsTold
<1>5. HandshakesGuarded'
  <2> SUFFICES ASSUME Orderly', NEW a \in Nodes, NEW b \in Nodes, a # b
               PROVE  Guarded(session'[a][b], session'[b][a], link'[a][b], link'[b][a])
    BY DEF HandshakesGuarded, GuardedPair
  <2>0. Orderly /\ link' = link
    BY <1>1 DEF Orderly
  <2>1. Guarded(session[a][b], session[b][a], link'[a][b], link'[b][a])
    BY <2>0 DEF HInv, HandshakesGuarded, GuardedPair
  <2>2. CASE a = n
    BY <1>2, <2>2 DEF Guarded, Waiting
  <2>3. CASE a # n /\ b # n
    BY <1>2, <2>1, <2>3
  <2>4. CASE a # n /\ b = n
    <3>1. session'[a][b] = session[a][b] /\ session'[b][a] = None
      BY <1>2, <2>4
    <3>2. ASSUME NEW s, NEW t, NEW out, NEW in, Guarded(s, t, out, in)
          PROVE  Guarded(s, None, out, in)
      BY <3>2 DEF Guarded, Waiting, SynIsAnswered
    <3> QED
      BY <2>1, <3>1, <3>2
  <2> QED
    BY <2>2, <2>3, <2>4
<1> QED
  BY <1>3, <1>4, <1>5 DEF HInv

-----------------------------------------------------------------------------

LEMMA InitLinks ==
  ASSUME Init, NEW n \in Nodes, NEW p \in Nodes
  PROVE  link[n][p] = <<>>
<1>1. net[n][p] = <<>> /\ unsent[n][p] = <<>>
  BY DEF Init
<1>2. link[n][p] = net[n][p] \o Bufs(unsent[n][p])
  BY LinkJoins, Zenon DEF Joined
<1>3. <<>> \in Seq({}) /\ <<>> \o <<>> = <<>>
  BY ConcatEmptySeq
<1> QED
  BY <1>1, <1>2, <1>3, BufsOfEmpty, Zenon

LEMMA InitInv == Init => HInv
<1> SUFFICES ASSUME Init PROVE HInv
  OBVIOUS
<1>1. VariablesOK
  <2>1. None \in Entries(drawn, sends) /\ "none" \in Told
    BY DEF Entries, Told
  <2>2. <<>> \in Seq(Datagram(1..drawn)) /\ <<>> \in Seq(Held(1..drawn))
    OBVIOUS
  <2>3. LinksOK
    BY <2>2 DEF Init, LinksOK
  <2>4. link \in [Nodes -> [Nodes -> Seq(Datagram(1..drawn))]]
    BY <2>3, LinkJoins, JoinedForm DEF LinksOK
  <2> QED
    BY <2>1, <2>3, <2>4, HandshakeLimits DEF Init, VariablesOK
<1>2. EstablishedIsTold
  BY DEF Init, EstablishedIsTold
<1>3. HandshakesGuarded
  BY DEF Init, HandshakesGuarded, GuardedPair, Guarded, Waiting
<1> QED
  BY <1>1, <1>2, <1>3 DEF HInv

LEMMA InvStep == HInv /\ [Next]_vars => HInv'
<1> SUFFICES ASSUME HInv, [Next]_vars PROVE HInv'
  OBVIOUS
<1>1. ASSUME NEW np \in Pairs,
             LET n == np[1]
                 p == np[2]
             IN  \/ Deliver(n, p)
                 \/ SendConnect(n, p) \/ SendData(n, p) \/ Disconnect(n, p)
                 \/ UpdateVisit(n, p) \/ Idle(n, p)
                 \/ \E i \in DOMAIN unsent[n][p] : Transmit(n, p, i)
                 \/ \E i \in DOMAIN net[n][p] : Lose(n, p, i)
      PROVE  HInv'
  <2>1. PICK n \in Nodes, p \in Nodes : n # p /\ np[1] = n /\ np[2] = p
    BY DEF Pairs
  <2>2. CASE Deliver(n, p)
    BY <2>1, <2>2, DeliverKeepsInv
  <2>3. CASE SendConnect(n, p)
    BY <2>1, <2>3, SendConnectKeepsInv
  <2>4. CASE SendData(n, p)
    BY <2>1, <2>4, SendDataKeepsInv
  <2>5. CASE UpdateVisit(n, p) \/ Disconnect(n, p) \/ Idle(n, p)
    BY <2>1, <2>5, VisitKeepsInv
  <2>6. ASSUME NEW i \in DOMAIN net[n][p], Lose(n, p, i) PROVE HInv'
    BY <2>6, LoseKeepsInv
  <2>7. ASSUME NEW i \in DOMAIN unsent[n][p], Transmit(n, p, i) PROVE HInv'
    BY <2>7, TransmitKeepsInv
  <2> QED
    BY <1>1, <2>1, <2>2, <2>3, <2>4, <2>5, <2>6, <2>7
<1>2. ASSUME NEW n \in Nodes, Crash(n) PROVE HInv'
  BY <1>2, CrashKeepsInv
<1>3. CASE UNCHANGED vars
  <2>1. link' = link
    BY <1>3, LinkJoins DEF vars
  <2> QED
    BY <1>3, <2>1 DEF vars, HInv, VariablesOK, LinksOK, EstablishedIsTold, HandshakesGuarded, GuardedPair,
                      Orderly
<1> QED
  BY <1>1, <1>2, <1>3 DEF Next

LEMMA Invariance == Spec => []HInv
  BY InitInv, InvStep, PTL DEF Spec

(* Every peer's sessions, links and events keep their types, whatever the  *)
(* network does: a conversation in use was drawn, a SYN retry stays within *)
(* syn_max_retries (session.rs:304), no message is transmitted as often as *)
(* the dead link allows, and split_packet understands everything a peer    *)
(* sends (packet.rs:38-53).                                                *)
THEOREM HandshakeTyped == Spec => []TypeOK
<1>1. HInv => TypeOK
  <2> SUFFICES ASSUME HInv PROVE TypeOK
    OBVIOUS
  <2>1. \A n, p \in Nodes : session[n][p] # None => session[n][p] \in Sessions(1..drawn)
    BY DEF HInv, VariablesOK, Entries, Sound, Records, Buffers, Sessions
  <2>2. \A n, p \in Nodes : told[n][p] \in {"none", "Connected", "Disconnected"}
    BY DEF HInv, VariablesOK, Told
  <2>3. ASSUME NEW n \in Nodes, NEW p \in Nodes, NEW i \in DOMAIN link[n][p]
        PROVE  split_packet(link[n][p][i]) # {}
    <3>1. PICK q \in Seq(Datagram(1..drawn)) : q = link[n][p]
      BY DEF HInv, VariablesOK
    <3>2. q[i] \in Datagram(1..drawn)
      BY <3>1, LenProperties, ElementOfSeq
    <3> QED
      BY <3>1, <3>2, Splits
  <2>4. ASSUME NEW n \in Nodes, NEW p \in Nodes, NEW i \in DOMAIN unsent[n][p]
        PROVE  unsent[n][p][i].task \in Tasks
    <3>1. PICK q \in Seq(Held(1..drawn)) : q = unsent[n][p]
      BY LinkForm DEF HInv
    <3>2. q[i] \in Held(1..drawn)
      BY <3>1, LenProperties, ElementOfSeq
    <3> QED
      BY <3>1, <3>2 DEF Held
  <2> QED
    BY <2>1, <2>2, <2>3, <2>4 DEF HInv, VariablesOK, Marks, TypeOK
<1> QED
  BY <1>1, Invariance, PTL

(* recv() yields no data of a session before its Connected event           *)
(* (transport.rs:28-31), although a session in SynSent takes data          *)
(* (transport.rs:632) and the loser of a tie flushes before its SYN_ACK    *)
(* (transport.rs:707-713): for any number of peers and messages, with      *)
(* duplicates, SYN retries, overwritten sessions and disconnections at any *)
(* time, and crashes of peers that have nothing left to send.  As long as  *)
(* nothing is lost or overtaken, in the network or by what its own sender  *)
(* sends while it waits to be sent: where the first SYN is                 *)
(* (transport.rs:306-312), the claim is false.                             *)
THEOREM DataComesAfterConnected == Spec => []DataFollowsConnected
<1>1. HInv => DataFollowsConnected
  <2> SUFFICES ASSUME HInv, Orderly, NEW np \in Pairs,
                      session[np[1]][np[2]] # None, session[np[1]][np[2]].rcv_nxt > 1
               PROVE  told[np[1]][np[2]] = "Connected"
    BY DEF DataFollowsConnected, Orderly
  <2>1. PICK n \in Nodes, p \in Nodes : n # p /\ np[1] = n /\ np[2] = p
    BY DEF Pairs
  <2>2. Guarded(session[n][p], session[p][n], link[n][p], link[p][n])
    BY <2>1 DEF HInv, HandshakesGuarded, GuardedPair
  <2>3. ~Waiting(session[n][p])
    BY <2>1, <2>2 DEF Guarded
  <2>4. session[n][p].state = "Established" /\ told[n][p] = "Connected"
    BY <2>1, <2>3, EntryFacts DEF Waiting
  <2> QED
    BY <2>1, <2>4
<1> QED
  BY <1>1, Invariance, PTL

=============================================================================
