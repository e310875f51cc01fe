---------------------------- MODULE DeliveryProofs ---------------------------
(***************************************************************************)
(* What is acknowledged was delivered (Handshake).                         *)
(*                                                                         *)
(* Messages flow from n to p: s and t are the sessions of n and p, or      *)
(* None, out is what is on its way from n to p and in what is on its way   *)
(* from p to n, with the acknowledgements.  Everything up to The inductive *)
(* invariant is about such sessions and links.                             *)
(***************************************************************************)
EXTENDS AgreementProofs

Numbers == 1..(MaxSends + 1)

In(s, c) == s # None /\ s.conv_id = c

(* Nothing has been received. *)
Untouched(s) == s.rcv_nxt = 1 /\ s.rcv_buf = {} /\ s.acks = {}

(* Datagram d acknowledges message k of conversation c. *)
Acks(d, c, k) == DataOf(d, c) /\ (k < d[5] \/ (d[3] = "ack" /\ d[4] = k))

(* Message k of conversation c is acknowledged, or will be. *)
Acked(s, t, in, c, k) ==
    \/ In(s, c) /\ k <= s.snd /\ k \notin Unacked(s)
    \/ \E j \in DOMAIN in : Acks(in[j], c, k)
    \/ In(t, c) /\ k \in t.acks

Has(t, k) == k < t.rcv_nxt \/ k \in t.rcv_buf

(* A SYN of conversation c may still arrive. *)
Opening(s, out, c) ==
    (Waiting(s) /\ s.conv_id = c) \/ \E i \in DOMAIN out : SynOf(out[i], c)

(* The SYNs come before the data. *)
InOrder(s, out, c) ==
    /\ (Waiting(s) /\ s.conv_id = c) => \A i \in DOMAIN out : ~DataOf(out[i], c)
    /\ \A i, j \in DOMAIN out : SynOf(out[i], c) /\ DataOf(out[j], c) => i < j

(* There is a message that no acknowledgement passes: all before it were   *)
(* delivered.  While the receiver is in conversation c that is the one it  *)
(* expects next; when its session goes, what was acknowledged does not     *)
(* become more.  And a SYN that would make the receiver start anew finds   *)
(* that nothing has been received yet.                                     *)
Flow(n, p, dl, s, t, out, in, c) ==
    /\ \E g \in Numbers :
          ~Acked(s, t, in, c, g) /\ \A k \in Numbers : k < g => <<p, n, c, k>> \in dl
    /\ In(t, c) =>
          /\ t.rcv_nxt \notin t.rcv_buf
          /\ \A k \in Numbers : k < t.rcv_nxt => <<p, n, c, k>> \in dl
          /\ \A k \in Numbers : Acked(s, t, in, c, k) => Has(t, k)
    /\ Opening(s, out, c) =>
          /\ \A k \in Numbers : ~Acked(s, t, in, c, k)
          /\ In(t, c) => Untouched(t)
    /\ InOrder(s, out, c)

-----------------------------------------------------------------------------
(* How a flow changes. *)

(* Less is acknowledged, and the receiver goes on as it was or is gone. *)
LEMMA FlowShrinks ==
  ASSUME NEW n, NEW p, NEW dl, NEW s, NEW t, NEW out, NEW in, NEW c,
         Flow(n, p, dl, s, t, out, in, c),
         NEW dk, dl \subseteq dk, NEW v, NEW w, NEW more, NEW rest,
         \A k \in Numbers : Acked(v, w, rest, c, k) => Acked(s, t, in, c, k),
         In(w, c) => /\ In(t, c) /\ w.rcv_nxt = t.rcv_nxt /\ w.rcv_buf = t.rcv_buf
                     /\ w.acks \subseteq t.acks,
         Opening(v, more, c) => Opening(s, out, c),
         InOrder(v, more, c)
  PROVE  Flow(n, p, dk, v, w, more, rest, c)
<1>1. PICK g \in Numbers : ~Acked(s, t, in, c, g) /\ \A k \in Numbers : k < g => <<p, n, c, k>> \in dl
  BY DEF Flow
<1>2. ~Acked(v, w, rest, c, g) /\ \A k \in Numbers : k < g => <<p, n, c, k>> \in dk
  BY <1>1
<1>3. ASSUME In(w, c)
      PROVE  /\ w.rcv_nxt \notin w.rcv_buf
             /\ \A k \in Numbers : k < w.rcv_nxt => <<p, n, c, k>> \in dk
             /\ \A k \in Numbers : Acked(v, w, rest, c, k) => Has(w, k)
  BY <1>3 DEF Flow, Has
<1>4. ASSUME Opening(v, more, c)
      PROVE  /\ \A k \in Numbers : ~Acked(v, w, rest, c, k)
             /\ In(w, c) => Untouched(w)
  BY <1>4 DEF Flow, Untouched
<1> QED
  BY <1>2, <1>3, <1>4 DEF Flow

(* The receiver takes the conversation of a SYN. *)
LEMMA FlowStarts ==
  ASSUME NEW n, NEW p, NEW dl, NEW s, NEW t, NEW out, NEW in, NEW c,
         Flow(n, p, dl, s, t, out, in, c), Opening(s, out, c),
         NEW w, Untouched(w)
  PROVE  Flow(n, p, dl, s, w, out, in, c)
<1>1. \A k \in Numbers : ~Acked(s, w, in, c, k)
  BY DEF Flow, Acked, Untouched
<1>2. 1 \in Numbers /\ \A k \in Numbers : ~(k < 1)
  BY HandshakeLimits DEF Numbers
<1>3. \E g \in Numbers : ~Acked(s, w, in, c, g) /\ \A k \in Numbers : k < g => <<p, n, c, k>> \in dl
  BY <1>1, <1>2
<1>4. /\ w.rcv_nxt \notin w.rcv_buf
      /\ \A k \in Numbers : k < w.rcv_nxt => <<p, n, c, k>> \in dl
  BY <1>2 DEF Untouched
<1> QED
  BY <1>1, <1>3, <1>4 DEF Flow

(* The receiver acknowledges what it has. *)
LEMMA FlowAcks ==
  ASSUME NEW n, NEW p, NEW dl, NEW s, NEW t, NEW out, NEW in, NEW c,
         Flow(n, p, dl, s, t, out, in, c), In(t, c) => t.rcv_nxt \in Numbers, NEW more,
         \A k \in Numbers : Acked(s, t, more, c, k) =>
            Acked(s, t, in, c, k) \/ (In(t, c) /\ k < t.rcv_nxt)
  PROVE  Flow(n, p, dl, s, t, out, more, c)
<1>1. CASE In(t, c)
  <2>1. \A k \in Numbers : Acked(s, t, more, c, k) => Has(t, k)
    BY <1>1 DEF Flow, Has
  <2>2. ~Has(t, t.rcv_nxt)
    BY <1>1 DEF Flow, Has, Numbers
  <2>3. \E g \in Numbers : ~Acked(s, t, more, c, g) /\ \A k \in Numbers : k < g => <<p, n, c, k>> \in dl
    BY <1>1, <2>1, <2>2 DEF Flow
  <2>4. ASSUME Opening(s, out, c), NEW k \in Numbers PROVE ~Acked(s, t, more, c, k)
    BY <1>1, <2>4 DEF Flow, Untouched, Numbers
  <2> QED
    BY <1>1, <2>1, <2>3, <2>4 DEF Flow
<1>2. CASE ~In(t, c)
  BY <1>2 DEF Flow
<1> QED
  BY <1>1, <1>2

(* Data of conversation c has come to the receiver, which becomes w: no    *)
(* SYN can come after it.                                                  *)
LEMMA FlowGrows ==
  ASSUME NEW n, NEW p, NEW dl, NEW s, NEW t, NEW out, NEW in, NEW c,
         Flow(n, p, dl, s, t, out, in, c), DOMAIN out \subseteq Nat \ {0},
         1 \in DOMAIN out, DataOf(out[1], c), In(t, c),
         NEW w, In(w, c), w.rcv_nxt \in Numbers, w.rcv_nxt \notin w.rcv_buf,
         \A k \in Numbers : Has(t, k) => Has(w, k),
         \A k \in Numbers : k \in w.acks => k \in t.acks \/ Has(w, k),
         NEW dk, \A k \in Numbers : k < w.rcv_nxt => <<p, n, c, k>> \in dk
  PROVE  Flow(n, p, dk, s, w, out, in, c)
<1>1. ~Opening(s, out, c)
  <2>1. ASSUME NEW i \in DOMAIN out, SynOf(out[i], c) PROVE FALSE
    BY <2>1 DEF Flow, InOrder
  <2> QED
    BY <2>1 DEF Flow, InOrder, Opening
<1>2. \A k \in Numbers : Acked(s, w, in, c, k) => Has(w, k)
  BY DEF Flow, Acked
<1>3. ~Has(w, w.rcv_nxt)
  BY DEF Has, Numbers
<1>4. \E g \in Numbers : ~Acked(s, w, in, c, g) /\ \A k \in Numbers : k < g => <<p, n, c, k>> \in dk
  BY <1>2, <1>3
<1> QED
  BY <1>1, <1>2, <1>4 DEF Flow

-----------------------------------------------------------------------------
(* What a session in its handshake can still meet. *)

ResetOf(d, c) == d[1] = 3 /\ d[2] = c

(* Nothing of what it queued has been sent, it has not said that it is     *)
(* gone, and before the SYN of another conversation gets to the other side *)
(* that side has not taken this one.                                       *)
Lone(s, t, out) ==
    Waiting(s) =>
        /\ Unacked(s) = 1..s.snd
        /\ Waiting(t) => t.conv_id # s.conv_id
        /\ \A i \in DOMAIN out : ~ResetOf(out[i], s.conv_id)
        /\ \A i \in DOMAIN out : (out[i][1] = 1 /\ out[i][2] # s.conv_id) =>
              ~In(t, s.conv_id) /\ \A j \in DOMAIN out : SynOf(out[j], s.conv_id) => i < j

(* After place j of in, no SYN comes without a RESET of conversation c     *)
(* before it; and the RESET comes if the other side has left c.            *)
Shielded(t, in, c, j) ==
    /\ \A k \in DOMAIN in : (j < k /\ in[k][1] = 1) =>
          \E m \in DOMAIN in : j < m /\ m < k /\ ResetOf(in[m], c)
    /\ In(t, c) \/ \E m \in DOMAIN in : j < m /\ ResetOf(in[m], c)

CompletedBefore(in, c, j) == \E i \in DOMAIN in : i < j /\ Completes(in[i], c)

(* A session that has received data must not be given another conversation *)
(* by the tie-break: from then on, and already from the place of the data  *)
(* in the link, it is shielded from the SYNs that would do it.  Unless     *)
(* something was lost, no data arrives during a handshake at all.          *)
Sheltered(S, s, t, out, in) ==
    /\ Lone(s, t, out)
    /\ Waiting(s) =>
        /\ "loss" \notin S => Untouched(s)
        /\ "loss" \notin S /\ "crash" \notin S =>
              \A j \in DOMAIN in : DataOf(in[j], s.conv_id) => Shielded(t, in, s.conv_id, j)
        /\ "loss" \in S =>
              /\ Untouched(s) \/ Shielded(t, in, s.conv_id, 0)
              /\ \A j \in DOMAIN in : DataOf(in[j], s.conv_id) =>
                    CompletedBefore(in, s.conv_id, j) \/ Shielded(t, in, s.conv_id, j)

Half(n, p, dl, D, S, s, t, out, in) ==
    /\ \A c \in 1..D : Flow(n, p, dl, s, t, out, in, c)
    /\ Sheltered(S, s, t, out, in)

(* Both directions: D conversations are drawn, S is what has happened. *)
Bond(n, p, dl, D, S, s, t, out, in) ==
    Half(n, p, dl, D, S, s, t, out, in) /\ Half(p, n, dl, D, S, t, s, in, out)

LEMMA BondIsMutual ==
  ASSUME NEW n, NEW p, NEW dl, NEW D, NEW S, NEW s, NEW t, NEW out, NEW in,
         Bond(n, p, dl, D, S, s, t, out, in)
  PROVE  Bond(p, n, dl, D, S, t, s, in, out)
BY DEF Bond

LEMMA NoneIsQuiet == ~Waiting(None) /\ \A c : ~In(None, c)
BY DEF Waiting, In

(* Only losses and crashes matter. *)
LEMMA ShelterStays ==
  ASSUME NEW S, NEW Z, "loss" \in Z <=> "loss" \in S, "crash" \in Z <=> "crash" \in S,
         NEW s, NEW t, NEW out, NEW in, Sheltered(S, s, t, out, in)
  PROVE  Sheltered(Z, s, t, out, in)
BY DEF Sheltered

(* The session goes on: it may have queued more, or acknowledged what it   *)
(* had to, or completed its handshake in its own conversation.             *)
LEMMA GoesOn ==
  ASSUME NEW n, NEW p, NEW dl, NEW D, NEW S, NEW s, NEW t, NEW out, NEW in,
         Bond(n, p, dl, D, S, s, t, out, in),
         NEW u, s # None, u # None, u.conv_id = s.conv_id,
         u.rcv_nxt = s.rcv_nxt, u.rcv_buf = s.rcv_buf, u.acks \subseteq s.acks,
         \A k \in Numbers : (k <= u.snd /\ k \notin Unacked(u)) => (k <= s.snd /\ k \notin Unacked(s)),
         Waiting(u) => Waiting(s) /\ Unacked(u) = 1..u.snd
  PROVE  Bond(n, p, dl, D, S, u, t, out, in)
<1>1. \A c : In(u, c) <=> In(s, c)
  BY DEF In
<1>2. ASSUME NEW c \in 1..D PROVE Flow(n, p, dl, u, t, out, in, c)
  <2>1. Flow(n, p, dl, s, t, out, in, c)
    BY DEF Bond, Half
  <2>2. \A k \in Numbers : Acked(u, t, in, c, k) => Acked(s, t, in, c, k)
    BY <1>1 DEF Acked
  <2>3. Opening(u, out, c) => Opening(s, out, c)
    BY DEF Opening
  <2>4. InOrder(u, out, c)
    BY <2>1 DEF Flow, InOrder
  <2> QED
    BY <2>1, <2>2, <2>3, <2>4, FlowShrinks
<1>3. ASSUME NEW c \in 1..D PROVE Flow(p, n, dl, t, u, in, out, c)
  <2>1. Flow(p, n, dl, t, s, in, out, c)
    BY DEF Bond, Half
  <2>2. \A k \in Numbers : Acked(t, u, out, c, k) => Acked(t, s, out, c, k)
    BY <1>1 DEF Acked
  <2>3. InOrder(t, in, c)
    BY <2>1 DEF Flow
  <2> QED
    BY <1>1, <2>1, <2>2, <2>3, FlowShrinks
<1>4. Sheltered(S, u, t, out, in)
  BY DEF Bond, Half, Sheltered, Lone, Untouched
<1>5. Sheltered(S, t, u, in, out)
  <2>1. Lone(t, u, in)
    BY <1>1 DEF Bond, Half, Sheltered, Lone
  <2>2. \A c, j : Shielded(s, out, c, j) => Shielded(u, out, c, j)
    BY <1>1 DEF Shielded
  <2> QED
    BY <2>1, <2>2 DEF Bond, Half, Sheltered
<1> QED
  BY <1>2, <1>3, <1>4, <1>5 DEF Bond, Half

(* What a session, or a peer without one, may say. *)
Tells(s, x) ==
    \A k \in DOMAIN x :
        /\ x[k][1] # 1
        /\ x[k][1] = 0 =>
              /\ s # None /\ ~Waiting(s) /\ x[k][2] = s.conv_id /\ x[k][5] = s.rcv_nxt
              /\ x[k][3] = "ack" => x[k][4] \in s.acks
        /\ x[k][1] = 3 => ~(Waiting(s) /\ s.conv_id = x[k][2])

LEMMA Says ==
  ASSUME NEW n, NEW p, NEW dl, NEW D, NEW S, NEW s, NEW t, NEW out, NEW in,
         Bond(n, p, dl, D, S, s, t, out, in), s # None => s.rcv_nxt \in Numbers,
         NEW x, NEW more, Extended(out, x, more), Tells(s, x),
         DOMAIN out \subseteq Nat, DOMAIN more \subseteq Nat
  PROVE  Bond(n, p, dl, D, S, s, t, more, in)
<1>1. /\ \A i \in DOMAIN out : i \in DOMAIN more /\ more[i] = out[i]
      /\ \A i \in DOMAIN more : more[i][1] = 1 => i \in DOMAIN out
      /\ \A i \in DOMAIN more : i \notin DOMAIN out => \A j \in DOMAIN out : j < i
  BY DEF Extended, Tells
<1>2. ASSUME NEW i \in DOMAIN more, more[i][1] = 0, i \notin DOMAIN out
      PROVE  /\ s # None /\ ~Waiting(s) /\ more[i][2] = s.conv_id /\ more[i][5] = s.rcv_nxt
             /\ more[i][3] = "ack" => more[i][4] \in s.acks
  BY <1>2 DEF Extended, Tells
<1>3. ASSUME NEW i \in DOMAIN more, more[i][1] = 3, i \notin DOMAIN out
      PROVE  ~(Waiting(s) /\ s.conv_id = more[i][2])
  BY <1>3 DEF Extended, Tells
<1>4. ASSUME NEW c \in 1..D PROVE Flow(n, p, dl, s, t, more, in, c)
  <2>1. Flow(n, p, dl, s, t, out, in, c)
    BY DEF Bond, Half
  <2>2. Opening(s, more, c) => Opening(s, out, c)
    BY <1>1 DEF Opening, SynOf
  <2>3. InOrder(s, more, c)
    <3>1. ASSUME Waiting(s), s.conv_id = c, NEW i \in DOMAIN more PROVE ~DataOf(more[i], c)
      BY <1>1, <1>2, <2>1, <3>1 DEF Flow, InOrder, DataOf
    <3>2. ASSUME NEW i \in DOMAIN more, NEW j \in DOMAIN more, SynOf(more[i], c), DataOf(more[j], c)
          PROVE  i < j
      BY <1>1, <2>1, <3>2 DEF Flow, InOrder, SynOf
    <3> QED
      BY <3>1, <3>2 DEF InOrder
  <2> QED
    BY <2>1, <2>2, <2>3, FlowShrinks
<1>5. ASSUME NEW c \in 1..D PROVE Flow(p, n, dl, t, s, in, more, c)
  <2>1. Flow(p, n, dl, t, s, in, out, c)
    BY DEF Bond, Half
  <2>2. ASSUME NEW k \in Numbers, Acked(t, s, more, c, k)
        PROVE  Acked(t, s, out, c, k) \/ (In(s, c) /\ k < s.rcv_nxt)
    <3>1. ASSUME NEW j \in DOMAIN more, Acks(more[j], c, k)
          PROVE  (\E i \in DOMAIN out : Acks(out[i], c, k)) \/ (In(s, c) /\ (k < s.rcv_nxt \/ k \in s.acks))
      BY <1>1, <1>2, <3>1 DEF Acks, DataOf, In
    <3> QED
      BY <2>2, <3>1 DEF Acked
  <2>3. In(s, c) => s.rcv_nxt \in Numbers
    BY DEF In
  <2> QED
    BY <2>1, <2>2, <2>3, FlowAcks
<1>6. Sheltered(S, s, t, more, in)
  <2>1. Lone(s, t, more)
    BY <1>1, <1>3 DEF Bond, Half, Sheltered, Lone, ResetOf, SynOf
  <2> QED
    BY <2>1 DEF Bond, Half, Sheltered
<1>7. Sheltered(S, t, s, in, more)
  <2>1. ASSUME NEW c, NEW j, Shielded(s, out, c, j) PROVE Shielded(s, more, c, j)
    BY <1>1, <2>1 DEF Shielded
  <2>2. ASSUME NEW c, NEW j \in DOMAIN more, DataOf(more[j], c)
        PROVE  (j \in DOMAIN out /\ DataOf(out[j], c)) \/ Shielded(s, more, c, j)
    <3>1. CASE j \in DOMAIN out
      BY <1>1, <2>2, <3>1
    <3>2. CASE j \notin DOMAIN out
      <4>1. In(s, c)
        BY <1>2, <2>2, <3>2 DEF In, DataOf
      <4>2. \A k \in DOMAIN more : more[k][1] = 1 => k < j
        BY <1>1, <3>2
      <4> QED
        BY <4>1, <4>2 DEF Shielded
    <3> QED
      BY <3>1, <3>2
  <2>3. ASSUME NEW c, NEW j, CompletedBefore(out, c, j) PROVE CompletedBefore(more, c, j)
    BY <1>1, <2>3 DEF CompletedBefore
  <2> QED
    BY <2>1, <2>2, <2>3 DEF Bond, Half, Sheltered
<1> QED
  BY <1>4, <1>5, <1>6, <1>7 DEF Bond, Half

(* r is what is left of q when its head is gone, and nothing else is. *)
Behead(q, r) ==
    /\ Headless(q, r)
    /\ DOMAIN q \subseteq Nat \ {0} /\ DOMAIN r \subseteq Nat \ {0}
    /\ \A k \in DOMAIN q : k # 1 => k - 1 \in DOMAIN r /\ r[k - 1] = q[k]

LEMMA TailBeheads ==
  ASSUME NEW C, NEW q \in Seq(C), q # <<>>
  PROVE  Behead(q, Tail(q))
<1>1. /\ Len(q) \in Nat \ {0} /\ DOMAIN q = 1..Len(q) /\ DOMAIN Tail(q) = 1..(Len(q) - 1)
      /\ \A i \in 1..(Len(q) - 1) : Tail(q)[i] = q[i + 1]
  BY TailIndices
<1>2. ASSUME NEW k \in DOMAIN q, k # 1 PROVE k - 1 \in DOMAIN Tail(q) /\ Tail(q)[k - 1] = q[k]
  <2>1. k - 1 \in 1..(Len(q) - 1) /\ (k - 1) + 1 = k
    BY <1>1, <1>2
  <2> QED
    BY <1>1, <2>1
<1> QED
  BY <1>1, <1>2, TailThinned DEF Behead

(* The head of the link has had its effect, if any. *)
LEMMA Hears ==
  ASSUME NEW n, NEW p, NEW dl, NEW D, NEW S, NEW s, NEW t, NEW out, NEW in,
         Bond(n, p, dl, D, S, s, t, out, in), NEW rest, Behead(in, rest),
         Waiting(s) => ~Completes(in[1], s.conv_id) /\ ~ResetOf(in[1], s.conv_id)
  PROVE  Bond(n, p, dl, D, S, s, t, out, rest)
<1>1. /\ \A k \in DOMAIN rest : k \in Nat \ {0} /\ k + 1 \in DOMAIN in /\ rest[k] = in[k + 1]
      /\ \A k \in DOMAIN in : k \in Nat \ {0} /\ (k # 1 => k - 1 \in DOMAIN rest /\ rest[k - 1] = in[k])
  BY DEF Behead, Headless
<1>2. ASSUME NEW c \in 1..D PROVE Flow(n, p, dl, s, t, out, rest, c)
  <2>1. Flow(n, p, dl, s, t, out, in, c)
    BY DEF Bond, Half
  <2>2. \A k \in Numbers : Acked(s, t, rest, c, k) => Acked(s, t, in, c, k)
    BY <1>1 DEF Acked
  <2>3. InOrder(s, out, c)
    BY <2>1 DEF Flow
  <2> QED
    BY <2>1, <2>2, <2>3, FlowShrinks
<1>3. ASSUME NEW c \in 1..D PROVE Flow(p, n, dl, t, s, rest, out, c)
  <2>1. Flow(p, n, dl, t, s, in, out, c)
    BY DEF Bond, Half
  <2>2. Opening(t, rest, c) => Opening(t, in, c)
    BY <1>1 DEF Opening
  <2>3. InOrder(t, rest, c)
    <3>1. ASSUME NEW i \in DOMAIN rest, NEW j \in DOMAIN rest, SynOf(rest[i], c), DataOf(rest[j], c)
          PROVE  i < j
      <4>1. i + 1 < j + 1
        BY <1>1, <2>1, <3>1 DEF Flow, InOrder
      <4> QED
        BY <1>1, <4>1
    <3> QED
      BY <1>1, <2>1, <3>1 DEF Flow, InOrder
  <2> QED
    BY <2>1, <2>2, <2>3, FlowShrinks
<1>4. Sheltered(S, s, t, out, rest)
  <2> SUFFICES ASSUME Waiting(s)
               PROVE  /\ "loss" \notin S => Untouched(s)
                      /\ "loss" \notin S /\ "crash" \notin S =>
                            \A j \in DOMAIN rest : DataOf(rest[j], s.conv_id) => Shielded(t, rest, s.conv_id, j)
                      /\ "loss" \in S =>
                            /\ Untouched(s) \/ Shielded(t, rest, s.conv_id, 0)
                            /\ \A j \in DOMAIN rest : DataOf(rest[j], s.conv_id) =>
                                  CompletedBefore(rest, s.conv_id, j) \/ Shielded(t, rest, s.conv_id, j)
    BY DEF Bond, Half, Sheltered
  <2> DEFINE c == s.conv_id
  <2> HIDE DEF c
  <2>1. ASSUME NEW j \in Nat, Shielded(t, in, c, j + 1) PROVE Shielded(t, rest, c, j)
    <3>1. ASSUME NEW k \in DOMAIN rest, j < k, rest[k][1] = 1
          PROVE  \E m \in DOMAIN rest : j < m /\ m < k /\ ResetOf(rest[m], c)
      <4>1. PICK m \in DOMAIN in : j + 1 < m /\ m < k + 1 /\ ResetOf(in[m], c)
        BY <1>1, <2>1, <3>1 DEF Shielded
      <4>2. m - 1 \in DOMAIN rest /\ j < m - 1 /\ m - 1 < k /\ ResetOf(rest[m - 1], c)
        BY <1>1, <4>1
      <4> QED
        BY <4>2
    <3>2. ASSUME ~In(t, c) PROVE \E m \in DOMAIN rest : j < m /\ ResetOf(rest[m], c)
      <4>1. PICK m \in DOMAIN in : j + 1 < m /\ ResetOf(in[m], c)
        BY <2>1, <3>2 DEF Shielded
      <4>2. m - 1 \in DOMAIN rest /\ j < m - 1 /\ ResetOf(rest[m - 1], c)
        BY <1>1, <4>1
      <4> QED
        BY <4>2
    <3> QED
      BY <3>1, <3>2 DEF Shielded
  <2>2. ASSUME Shielded(t, in, c, 0) PROVE Shielded(t, in, c, 0 + 1)
    <3>1. ASSUME NEW m \in DOMAIN in, ResetOf(in[m], c) PROVE 0 + 1 < m
      BY <1>1, <3>1 DEF c
    <3> QED
      BY <1>1, <2>2, <3>1 DEF Shielded
  <2>3. ASSUME NEW j \in DOMAIN rest, CompletedBefore(in, c, j + 1) PROVE CompletedBefore(rest, c, j)
    <3>1. PICK i \in DOMAIN in : i < j + 1 /\ Completes(in[i], c)
      BY <2>3 DEF CompletedBefore
    <3>2. i # 1
      BY <3>1 DEF c
    <3>3. i - 1 \in DOMAIN rest /\ i - 1 < j /\ Completes(rest[i - 1], c)
      BY <1>1, <3>1, <3>2
    <3> QED
      BY <3>3 DEF CompletedBefore
  <2>4. \A j \in DOMAIN rest : j \in Nat /\ j + 1 \in DOMAIN in /\ rest[j] = in[j + 1]
    BY <1>1
  <2>5. 0 \in Nat
    OBVIOUS
  <2> QED
    BY <2>1, <2>2, <2>3, <2>4, <2>5 DEF c, Bond, Half, Sheltered
<1>5. Sheltered(S, t, s, rest, out)
  <2>1. Lone(t, s, rest)
    <3> SUFFICES ASSUME Waiting(t), NEW i \in DOMAIN rest, rest[i][1] = 1, rest[i][2] # t.conv_id,
                        NEW j \in DOMAIN rest, SynOf(rest[j], t.conv_id)
                 PROVE  i < j
      BY <1>1 DEF Bond, Half, Sheltered, Lone
    <3>1. i + 1 < j + 1
      BY <1>1 DEF Bond, Half, Sheltered, Lone
    <3> QED
      BY <1>1, <3>1
  <2> QED
    BY <2>1 DEF Bond, Half, Sheltered
<1> QED
  BY <1>2, <1>3, <1>4, <1>5 DEF Bond, Half

(* The SYN goes out, once or again. *)
LEMMA SaysSyn ==
  ASSUME NEW n, NEW p, NEW dl, NEW D, NEW S, NEW s, NEW t, NEW out, NEW in,
         Bond(n, p, dl, D, S, s, t, out, in), Waiting(s),
         NEW x, NEW more, Extended(out, x, more), \A k \in DOMAIN x : SynOf(x[k], s.conv_id),
         DOMAIN out \subseteq Nat, DOMAIN more \subseteq Nat
  PROVE  Bond(n, p, dl, D, S, s, t, more, in)
<1>1. /\ \A i \in DOMAIN out : i \in DOMAIN more /\ more[i] = out[i]
      /\ \A i \in DOMAIN more : i \notin DOMAIN out => SynOf(more[i], s.conv_id)
      /\ \A i \in DOMAIN more : i \notin DOMAIN out => \A j \in DOMAIN out : j < i
  BY DEF Extended
<1>2. \A i \in DOMAIN more : more[i][1] # 1 => i \in DOMAIN out
  BY <1>1 DEF SynOf
<1>3. ASSUME NEW c \in 1..D PROVE Flow(n, p, dl, s, t, more, in, c)
  <2>1. Flow(n, p, dl, s, t, out, in, c)
    BY DEF Bond, Half
  <2>2. Opening(s, more, c) => Opening(s, out, c)
    BY <1>1 DEF Opening, SynOf
  <2>3. InOrder(s, more, c)
    <3>1. \A i \in DOMAIN more : DataOf(more[i], c) => i \in DOMAIN out /\ more[i] = out[i]
      BY <1>1, <1>2 DEF DataOf
    <3>2. ASSUME NEW i \in DOMAIN more, NEW j \in DOMAIN more, SynOf(more[i], c), DataOf(more[j], c)
          PROVE  i < j
      <4>1. i \notin DOMAIN out => s.conv_id = c
        BY <1>1, <3>2 DEF SynOf
      <4> QED
        BY <1>1, <2>1, <3>1, <3>2, <4>1 DEF Flow, InOrder
    <3> QED
      BY <2>1, <3>1, <3>2 DEF Flow, InOrder
  <2> QED
    BY <2>1, <2>2, <2>3, FlowShrinks
<1>4. ASSUME NEW c \in 1..D PROVE Flow(p, n, dl, t, s, in, more, c)
  <2>1. Flow(p, n, dl, t, s, in, out, c)
    BY DEF Bond, Half
  <2>2. \A k \in Numbers : Acked(t, s, more, c, k) => Acked(t, s, out, c, k)
    BY <1>1, <1>2 DEF Acked, Acks, DataOf
  <2>3. InOrder(t, in, c)
    BY <2>1 DEF Flow
  <2> QED
    BY <2>1, <2>2, <2>3, FlowShrinks
<1>5. Sheltered(S, s, t, more, in)
  <2>1. Lone(s, t, more)
    BY <1>1, <1>2 DEF Bond, Half, Sheltered, Lone, ResetOf, SynOf
  <2> QED
    BY <2>1 DEF Bond, Half, Sheltered
<1>6. Sheltered(S, t, s, in, more)
  <2>1. Waiting(t) => ~In(s, t.conv_id)
    BY DEF Bond, Half, Sheltered, Lone, In
  <2>2. ASSUME NEW c, NEW j, ~In(s, c), Shielded(s, out, c, j) PROVE Shielded(s, more, c, j)
    <3>1. PICK m \in DOMAIN out : j < m /\ ResetOf(out[m], c)
      BY <2>2 DEF Shielded
    <3>2. m \in DOMAIN more /\ ResetOf(more[m], c)
      BY <1>1, <3>1
    <3>3. ASSUME NEW k \in DOMAIN more, j < k, more[k][1] = 1
          PROVE  \E l \in DOMAIN more : j < l /\ l < k /\ ResetOf(more[l], c)
      BY <1>1, <2>2, <3>1, <3>2, <3>3 DEF Shielded
    <3> QED
      BY <3>1, <3>2, <3>3 DEF Shielded
  <2>3. ASSUME NEW c, NEW j, CompletedBefore(out, c, j) PROVE CompletedBefore(more, c, j)
    BY <1>1, <2>3 DEF CompletedBefore
  <2>4. ASSUME NEW c, NEW j \in DOMAIN more, DataOf(more[j], c) PROVE j \in DOMAIN out /\ DataOf(out[j], c)
    BY <1>1, <1>2, <2>4 DEF DataOf
  <2> QED
    BY <2>1, <2>2, <2>3, <2>4 DEF Bond, Half, Sheltered
<1> QED
  BY <1>3, <1>4, <1>5, <1>6 DEF Bond, Half

(* A handshake begins, in a conversation that nobody has heard of. *)
LEMMA Begins ==
  ASSUME NEW n, NEW p, NEW dl, NEW D \in Nat, NEW S, NEW t, NEW out, NEW in,
         Bond(n, p, dl, D, S, None, t, out, in),
         NEW u, Waiting(u), u.conv_id = D + 1, Untouched(u), Unacked(u) = 1..u.snd, u.snd \in Nat,
         Unheard(out, D + 1), Unheard(in, D + 1), ~In(t, D + 1)
  PROVE  Bond(n, p, dl, D + 1, S, u, t, out, in)
<1>1. u # None /\ ~Waiting(None) /\ \A c : ~In(None, c)
  BY NoneIsQuiet DEF Waiting
<1>2. \A c : In(u, c) <=> c = D + 1
  BY <1>1 DEF In
<1>3. /\ \A i \in DOMAIN out : out[i][2] # D + 1
      /\ \A i \in DOMAIN in : in[i][2] # D + 1
  BY DEF Unheard
<1>4. 1 \in Numbers /\ \A k \in Numbers : k \in Nat /\ 1 <= k /\ ~(k < 1)
  BY HandshakeLimits DEF Numbers
<1>5. ASSUME NEW c \in 1..(D + 1), c # D + 1
      PROVE  Flow(n, p, dl, u, t, out, in, c) /\ Flow(p, n, dl, t, u, in, out, c)
  <2>1. c \in 1..D
    BY <1>5
  <2>2. Flow(n, p, dl, None, t, out, in, c) /\ Flow(p, n, dl, t, None, in, out, c)
    BY <2>1 DEF Bond, Half
  <2>3. ~In(u, c) /\ ~(Waiting(u) /\ u.conv_id = c)
    BY <1>2, <1>5
  <2>4. /\ \A k \in Numbers : Acked(u, t, in, c, k) => Acked(None, t, in, c, k)
        /\ \A k \in Numbers : Acked(t, u, out, c, k) => Acked(t, None, out, c, k)
    BY <2>3 DEF Acked
  <2>5. Opening(u, out, c) => Opening(None, out, c)
    BY <2>3 DEF Opening
  <2>6. InOrder(u, out, c) /\ InOrder(t, in, c)
    BY <2>2, <2>3 DEF Flow, InOrder
  <2>7. Flow(n, p, dl, u, t, out, in, c)
    BY <2>2, <2>4, <2>5, <2>6, FlowShrinks
  <2>8. Flow(p, n, dl, t, u, in, out, c)
    BY <2>2, <2>3, <2>4, <2>6, FlowShrinks
  <2> QED
    BY <2>7, <2>8
<1>6. Flow(n, p, dl, u, t, out, in, D + 1)
  <2>1. \A k \in Numbers : ~Acked(u, t, in, D + 1, k)
    BY <1>3, <1>4 DEF Acked, Acks, DataOf
  <2>2. InOrder(u, out, D + 1)
    BY <1>3 DEF InOrder, SynOf, DataOf
  <2> QED
    BY <1>4, <2>1, <2>2 DEF Flow
<1>7. Flow(p, n, dl, t, u, in, out, D + 1)
  <2>1. \A k \in Numbers : ~Acked(t, u, out, D + 1, k)
    BY <1>3 DEF Acked, Acks, DataOf, Untouched
  <2>2. InOrder(t, in, D + 1)
    BY <1>3 DEF InOrder, SynOf, DataOf, In, Waiting
  <2>3. u.rcv_nxt = 1 /\ u.rcv_buf = {}
    BY DEF Untouched
  <2> QED
    BY <1>4, <2>1, <2>2, <2>3 DEF Flow
<1>8. Sheltered(S, u, t, out, in)
  <2>1. Lone(u, t, out)
    BY <1>3 DEF Lone, ResetOf, SynOf, In, Waiting
  <2> QED
    BY <1>3, <2>1 DEF Sheltered, DataOf
<1>9. Sheltered(S, t, u, in, out)
  <2>1. Waiting(t) => ~In(u, t.conv_id)
    BY <1>2 DEF In, Waiting
  <2>2. Lone(t, u, in)
    BY <1>1, <2>1 DEF Bond, Half, Sheltered, Lone, In
  <2>3. \A c, j : Shielded(None, out, c, j) => Shielded(u, out, c, j)
    BY <1>1 DEF Shielded
  <2> QED
    BY <2>2, <2>3 DEF Bond, Half, Sheltered
<1> QED
  BY <1>5, <1>6, <1>7, <1>8, <1>9 DEF Bond, Half

(* The session goes, and says so, or the other side has said it. *)
LEMMA Leaves ==
  ASSUME NEW n, NEW p, NEW dl, NEW D, NEW S, NEW s, NEW t, NEW out, NEW in,
         Bond(n, p, dl, D, S, s, t, out, in), s # None,
         NEW x, NEW more, Extended(out, x, more), \A k \in DOMAIN x : ResetOf(x[k], s.conv_id),
         DOMAIN out \subseteq Nat \ {0}, DOMAIN more \subseteq Nat \ {0},
         (\E m \in DOMAIN more : m \notin DOMAIN out) \/ (Waiting(t) => t.conv_id # s.conv_id)
  PROVE  Bond(n, p, dl, D, S, None, t, more, in)
<1>1. /\ \A i \in DOMAIN out : i \in DOMAIN more /\ more[i] = out[i]
      /\ \A i \in DOMAIN more : i \notin DOMAIN out => ResetOf(more[i], s.conv_id)
      /\ \A i \in DOMAIN more : i \notin DOMAIN out => \A j \in DOMAIN out : j < i
  BY DEF Extended
<1>2. \A i \in DOMAIN more : more[i][1] # 3 => i \in DOMAIN out
  BY <1>1 DEF ResetOf
<1>3. ~Waiting(None) /\ \A c : ~In(None, c)
  BY NoneIsQuiet
<1>4. ASSUME NEW c \in 1..D PROVE Flow(n, p, dl, None, t, more, in, c)
  <2>1. Flow(n, p, dl, s, t, out, in, c)
    BY DEF Bond, Half
  <2>2. \A k \in Numbers : Acked(None, t, in, c, k) => Acked(s, t, in, c, k)
    BY <1>3 DEF Acked
  <2>3. Opening(None, more, c) => Opening(s, out, c)
    BY <1>1, <1>2, <1>3 DEF Opening, SynOf
  <2>4. InOrder(None, more, c)
    <3>1. \A i \in DOMAIN more : SynOf(more[i], c) \/ DataOf(more[i], c) => i \in DOMAIN out /\ more[i] = out[i]
      BY <1>1, <1>2 DEF SynOf, DataOf
    <3> QED
      BY <1>3, <2>1, <3>1 DEF Flow, InOrder
  <2> QED
    BY <2>1, <2>2, <2>3, <2>4, FlowShrinks
<1>5. ASSUME NEW c \in 1..D PROVE Flow(p, n, dl, t, None, in, more, c)
  <2>1. Flow(p, n, dl, t, s, in, out, c)
    BY DEF Bond, Half
  <2>2. \A k \in Numbers : Acked(t, None, more, c, k) => Acked(t, s, out, c, k)
    BY <1>1, <1>2, <1>3 DEF Acked, Acks, DataOf
  <2>3. InOrder(t, in, c)
    BY <2>1 DEF Flow
  <2> QED
    BY <1>3, <2>1, <2>2, <2>3, FlowShrinks
<1>6. Sheltered(S, None, t, more, in)
  BY <1>3 DEF Sheltered, Lone
<1>7. Sheltered(S, t, None, in, more)
  <2>1. Lone(t, None, in)
    BY <1>3 DEF Bond, Half, Sheltered, Lone
  <2>2. ASSUME Waiting(t), NEW j, j = 0 \/ j \in DOMAIN out, Shielded(s, out, t.conv_id, j)
        PROVE  Shielded(None, more, t.conv_id, j)
    <3>1. \E m \in DOMAIN more : j < m /\ ResetOf(more[m], t.conv_id)
      <4>1. CASE In(s, t.conv_id)
        BY <1>1, <2>2, <4>1 DEF In
      <4>2. CASE ~In(s, t.conv_id)
        BY <1>1, <2>2, <4>2 DEF Shielded
      <4> QED
        BY <4>1, <4>2
    <3>2. ASSUME NEW k \in DOMAIN more, j < k, more[k][1] = 1
          PROVE  \E m \in DOMAIN more : j < m /\ m < k /\ ResetOf(more[m], t.conv_id)
      BY <1>1, <1>2, <2>2, <3>2 DEF Shielded
    <3> QED
      BY <3>1, <3>2 DEF Shielded
  <2>3. ASSUME NEW c, NEW j, CompletedBefore(out, c, j) PROVE CompletedBefore(more, c, j)
    BY <1>1, <2>3 DEF CompletedBefore
  <2>4. ASSUME NEW c, NEW j \in DOMAIN more, DataOf(more[j], c) PROVE j \in DOMAIN out /\ DataOf(out[j], c)
    BY <1>1, <1>2, <2>4 DEF DataOf
  <2> QED
    BY <2>1, <2>2, <2>3, <2>4 DEF Bond, Half, Sheltered
<1> QED
  BY <1>4, <1>5, <1>6, <1>7 DEF Bond, Half

(* A SYN is taken: the session is in its conversation, and new to it. *)
LEMMA Takes ==
  ASSUME NEW n, NEW p, NEW dl, NEW D, NEW S, NEW s, NEW t, NEW out, NEW in,
         Bond(n, p, dl, D, S, s, t, out, in), 1 \in DOMAIN in, DOMAIN in \subseteq Nat \ {0},
         NEW conv, SynOf(in[1], conv), ~In(s, conv),
         NEW u, ~Waiting(u), In(u, conv), Untouched(u), \A k \in Numbers : k <= u.snd => k \in Unacked(u)
  PROVE  Bond(n, p, dl, D, S, u, t, out, in)
<1>1. u # None /\ \A c : In(u, c) <=> c = conv
  BY DEF In
<1>2. ASSUME NEW c \in 1..D PROVE Flow(n, p, dl, u, t, out, in, c)
  <2>1. Flow(n, p, dl, s, t, out, in, c)
    BY DEF Bond, Half
  <2>2. \A k \in Numbers : Acked(u, t, in, c, k) => Acked(s, t, in, c, k)
    BY DEF Acked
  <2>3. Opening(u, out, c) => Opening(s, out, c)
    BY DEF Opening
  <2>4. InOrder(u, out, c)
    BY <2>1 DEF Flow, InOrder
  <2> QED
    BY <2>1, <2>2, <2>3, <2>4, FlowShrinks
<1>3. ASSUME NEW c \in 1..D PROVE Flow(p, n, dl, t, u, in, out, c)
  <2>1. Flow(p, n, dl, t, s, in, out, c)
    BY DEF Bond, Half
  <2>2. CASE c = conv
    <3>1. Opening(t, in, c)
      BY <2>2 DEF Opening
    <3> QED
      BY <2>1, <3>1, FlowStarts
  <2>3. CASE c # conv
    <3>1. ~In(u, c)
      BY <1>1, <2>3
    <3>2. \A k \in Numbers : Acked(t, u, out, c, k) => Acked(t, s, out, c, k)
      BY <3>1 DEF Acked
    <3>3. InOrder(t, in, c)
      BY <2>1 DEF Flow
    <3> QED
      BY <2>1, <3>1, <3>2, <3>3, FlowShrinks
  <2> QED
    BY <2>2, <2>3
<1>4. Sheltered(S, u, t, out, in)
  BY DEF Sheltered, Lone
<1>5. Sheltered(S, t, u, in, out)
  <2>1. ASSUME Waiting(t) PROVE ~In(s, t.conv_id)
    BY <2>1 DEF Bond, Half, Sheltered, Lone, SynOf
  <2>2. Lone(t, u, in)
    <3> SUFFICES ASSUME Waiting(t), NEW i \in DOMAIN in, in[i][1] = 1, in[i][2] # t.conv_id
                 PROVE  ~In(u, t.conv_id)
      BY DEF Bond, Half, Sheltered, Lone
    <3>1. SynOf(in[1], t.conv_id) => i < 1
      BY DEF Bond, Half, Sheltered, Lone
    <3> QED
      BY <1>1, <3>1
  <2>3. \A c, j : ~In(s, c) /\ Shielded(s, out, c, j) => Shielded(u, out, c, j)
    BY DEF Shielded
  <2> QED
    BY <2>1, <2>2, <2>3 DEF Bond, Half, Sheltered
<1> QED
  BY <1>2, <1>3, <1>4, <1>5 DEF Bond, Half

(* A SYN that meets a handshake of another conversation finds that nothing *)
(* has been received.                                                      *)
LEMMA SynMeetsUntouched ==
  ASSUME NEW n, NEW p, NEW dl, NEW D, NEW S, NEW s, NEW t, NEW out, NEW in,
         Bond(n, p, dl, D, S, s, t, out, in), Waiting(s), 1 \in DOMAIN in,
         DOMAIN in \subseteq Nat \ {0}, in[1][1] = 1
  PROVE  Untouched(s) /\ Unacked(s) = 1..s.snd
<1>1. ~Shielded(t, in, s.conv_id, 0)
  BY DEF Shielded
<1> QED
  BY <1>1 DEF Bond, Half, Sheltered, Lone

(* Data of the conversation comes, and the session becomes u. *)
LEMMA Receives ==
  ASSUME NEW n, NEW p, NEW dl, NEW D, NEW S, NEW s, NEW t, NEW out, NEW in,
         Bond(n, p, dl, D, S, s, t, out, in), 1 \in DOMAIN in, DOMAIN in \subseteq Nat \ {0},
         NEW conv, DataOf(in[1], conv), In(s, conv),
         "loss" \notin S /\ Waiting(s) => DataWaits(in, conv),
         NEW u, In(u, conv), Waiting(u) <=> Waiting(s), u.snd = s.snd,
         Waiting(u) => Unacked(u) = Unacked(s),
         u.rcv_nxt \in Numbers, u.rcv_nxt \notin u.rcv_buf,
         \A k \in Numbers : Has(s, k) => Has(u, k),
         \A k \in Numbers : k \in u.acks => k \in s.acks \/ Has(u, k),
         \A k \in Numbers : k \notin Unacked(u) => k \notin Unacked(s) \/ Acks(in[1], conv, k),
         NEW dk, dl \subseteq dk, s.rcv_nxt \in Numbers,
         \A k \in Numbers : s.rcv_nxt <= k /\ k < u.rcv_nxt => <<n, p, conv, k>> \in dk
  PROVE  Bond(n, p, dk, D, S, u, t, out, in)
<1>1. \A c : (In(u, c) <=> c = conv) /\ (In(s, c) <=> c = conv)
  BY DEF In
<1>2. ASSUME NEW c \in 1..D PROVE Flow(n, p, dk, u, t, out, in, c)
  <2>1. Flow(n, p, dl, s, t, out, in, c)
    BY DEF Bond, Half
  <2>2. \A k \in Numbers : Acked(u, t, in, c, k) => Acked(s, t, in, c, k)
    BY <1>1 DEF Acked
  <2>3. Opening(u, out, c) => Opening(s, out, c)
    BY DEF Opening, In
  <2>4. InOrder(u, out, c)
    BY <2>1 DEF Flow, InOrder, In
  <2> QED
    BY <2>1, <2>2, <2>3, <2>4, FlowShrinks
<1>3. ASSUME NEW c \in 1..D PROVE Flow(p, n, dk, t, u, in, out, c)
  <2>1. Flow(p, n, dl, t, s, in, out, c)
    BY DEF Bond, Half
  <2>2. CASE c = conv
    <3>1. \A k \in Numbers : k < u.rcv_nxt => <<n, p, c, k>> \in dk
      BY <2>1, <2>2 DEF Flow, Numbers
    <3> QED
      BY <2>1, <2>2, <3>1, FlowGrows
  <2>3. CASE c # conv
    <3>1. ~In(u, c)
      BY <1>1, <2>3
    <3>2. \A k \in Numbers : Acked(t, u, out, c, k) => Acked(t, s, out, c, k)
      BY <3>1 DEF Acked
    <3>3. InOrder(t, in, c)
      BY <2>1 DEF Flow
    <3> QED
      BY <2>1, <3>1, <3>2, <3>3, FlowShrinks
  <2> QED
    BY <2>2, <2>3
<1>4. Sheltered(S, u, t, out, in)
  <2> SUFFICES ASSUME Waiting(u) PROVE Sheltered(S, u, t, out, in)
    BY DEF Sheltered, Lone
  <2>1. Waiting(s) /\ s.conv_id = conv /\ u.conv_id = conv
    BY DEF In
  <2>2. Lone(u, t, out)
    BY <2>1 DEF Bond, Half, Sheltered, Lone
  <2>3. "loss" \in S
    BY <2>1 DEF DataWaits
  <2>4. ~CompletedBefore(in, conv, 1)
    BY DEF CompletedBefore
  <2>5. Shielded(t, in, conv, 1)
    BY <2>1, <2>3, <2>4 DEF Bond, Half, Sheltered
  <2>6. Shielded(t, in, conv, 0)
    <3>1. \A k \in DOMAIN in : in[k][1] = 1 => 1 < k
      BY DEF DataOf
    <3>2. \A m \in DOMAIN in : 0 < m
      OBVIOUS
    <3> QED
      BY <2>5, <3>1, <3>2 DEF Shielded
  <2> QED
    BY <2>1, <2>2, <2>3, <2>6 DEF Bond, Half, Sheltered
<1>5. Sheltered(S, t, u, in, out)
  <2>1. Lone(t, u, in)
    BY <1>1 DEF Bond, Half, Sheltered, Lone, In
  <2>2. \A c, j : Shielded(s, out, c, j) => Shielded(u, out, c, j)
    BY <1>1 DEF Shielded
  <2> QED
    BY <2>1, <2>2 DEF Bond, Half, Sheltered
<1> QED
  BY <1>2, <1>3, <1>4, <1>5 DEF Bond, Half

(* What is at place i of in is lost. *)
LEMMA Loses ==
  ASSUME NEW n, NEW p, NEW dl, NEW D, NEW S, NEW s, NEW t, NEW out, NEW in,
         Bond(n, p, dl, D, S, s, t, out, in), S \cap {"loss", "crash"} = {},
         Waiting(s) => DataWaits(in, s.conv_id), Waiting(t) => DataWaits(out, t.conv_id),
         NEW L \in Nat, DOMAIN in = 1..L, NEW M \in Nat, DOMAIN out = 1..M, NEW i \in DOMAIN in,
         NEW rest, DOMAIN rest = 1..(L - 1),
         \A k \in DOMAIN rest : rest[k] = IF k < i THEN in[k] ELSE in[k + 1]
  PROVE  Bond(n, p, dl, D, S \cup {"loss"}, s, t, out, rest)
<1> DEFINE Z == S \cup {"loss"}
<1>1. "loss" \notin S /\ "crash" \notin S /\ "loss" \in Z
  OBVIOUS
<1> HIDE DEF Z
<1>2. PICK f : /\ \A k \in DOMAIN rest : f[k] \in DOMAIN in /\ f[k] \in Nat /\ rest[k] = in[f[k]]
               /\ \A j, k \in DOMAIN rest : f[j] < f[k] => j < k
  <2>1. \A k \in DOMAIN rest : LET g == [j \in DOMAIN rest |-> IF j < i THEN j ELSE j + 1]
                               IN  g[k] \in DOMAIN in /\ g[k] \in Nat /\ rest[k] = in[g[k]]
    OBVIOUS
  <2>2. LET g == [j \in DOMAIN rest |-> IF j < i THEN j ELSE j + 1]
        IN  \A j, k \in DOMAIN rest : g[j] < g[k] => j < k
    OBVIOUS
  <2> QED
    BY <2>1, <2>2
<1>3. ASSUME NEW c \in 1..D PROVE Flow(n, p, dl, s, t, out, rest, c)
  <2>1. Flow(n, p, dl, s, t, out, in, c)
    BY DEF Bond, Half
  <2>2. \A k \in Numbers : Acked(s, t, rest, c, k) => Acked(s, t, in, c, k)
    BY <1>2 DEF Acked
  <2>3. InOrder(s, out, c)
    BY <2>1 DEF Flow
  <2> QED
    BY <2>1, <2>2, <2>3, FlowShrinks
<1>4. ASSUME NEW c \in 1..D PROVE Flow(p, n, dl, t, s, rest, out, c)
  <2>1. Flow(p, n, dl, t, s, in, out, c)
    BY DEF Bond, Half
  <2>2. Opening(t, rest, c) => Opening(t, in, c)
    BY <1>2 DEF Opening
  <2>3. InOrder(t, rest, c)
    BY <1>2, <2>1 DEF Flow, InOrder
  <2> QED
    BY <2>1, <2>2, <2>3, FlowShrinks
<1>5. Sheltered(Z, s, t, out, rest)
  <2> SUFFICES ASSUME Waiting(s), NEW j \in DOMAIN rest, DataOf(rest[j], s.conv_id),
                      ~CompletedBefore(rest, s.conv_id, j)
               PROVE  Shielded(t, rest, s.conv_id, j)
    BY <1>1 DEF Bond, Half, Sheltered
  <2> DEFINE c == s.conv_id
             k == IF j < i THEN j ELSE j + 1
  <2>1. k \in DOMAIN in /\ DataOf(in[k], c) /\ DataWaits(in, c) /\ rest[j] = in[k]
    OBVIOUS
  <2>2. Shielded(t, in, c, k)
    BY <1>1, <2>1 DEF Bond, Half, Sheltered
  <2>3. PICK h \in 1..(k - 1) : Completes(in[h], c)
    BY <2>1 DEF DataWaits
  <2>4. h = i
    <3>1. ASSUME h < i PROVE FALSE
      <4>1. h \in DOMAIN rest /\ rest[h] = in[h] /\ h < j
        BY <2>3, <3>1
      <4> QED
        BY <2>3, <4>1 DEF CompletedBefore
    <3>2. ASSUME h > i PROVE FALSE
      <4>1. h - 1 \in DOMAIN rest /\ rest[h - 1] = in[h] /\ h - 1 < j
        BY <2>3, <3>2
      <4> QED
        BY <2>3, <4>1 DEF CompletedBefore
    <3> QED
      BY <2>3, <3>1, <3>2
  <2>5. k = j + 1 /\ i <= j
    BY <2>3, <2>4
  <2> HIDE DEF c, k
  <2>6. \A m \in DOMAIN in : k < m => m - 1 \in DOMAIN rest /\ rest[m - 1] = in[m] /\ j < m - 1
    BY <2>5
  <2>7. \A m \in DOMAIN rest : j < m => m + 1 \in DOMAIN in /\ rest[m] = in[m + 1] /\ k < m + 1
    BY <2>5
  <2>8. ASSUME NEW l \in DOMAIN rest, j < l, rest[l][1] = 1
        PROVE  \E m \in DOMAIN rest : j < m /\ m < l /\ ResetOf(rest[m], c)
    <3>1. PICK m \in DOMAIN in : k < m /\ m < l + 1 /\ ResetOf(in[m], c)
      BY <2>2, <2>7, <2>8 DEF Shielded
    <3>2. m - 1 \in DOMAIN rest /\ j < m - 1 /\ m - 1 < l /\ ResetOf(rest[m - 1], c)
      BY <2>6, <3>1
    <3> QED
      BY <3>2
  <2>9. ASSUME ~In(t, c) PROVE \E m \in DOMAIN rest : j < m /\ ResetOf(rest[m], c)
    <3>1. PICK m \in DOMAIN in : k < m /\ ResetOf(in[m], c)
      BY <2>2, <2>9 DEF Shielded
    <3>2. m - 1 \in DOMAIN rest /\ j < m - 1 /\ ResetOf(rest[m - 1], c)
      BY <2>6, <3>1
    <3> QED
      BY <3>2
  <2> QED
    BY <2>8, <2>9 DEF Shielded, c
<1>6. Sheltered(Z, t, s, rest, out)
  <2>1. Lone(t, s, rest)
    <3>1. Lone(t, s, in)
      BY DEF Bond, Half, Sheltered
    <3> SUFFICES ASSUME Waiting(t)
                 PROVE  /\ \A k \in DOMAIN rest : ~ResetOf(rest[k], t.conv_id)
                        /\ \A k \in DOMAIN rest : (rest[k][1] = 1 /\ rest[k][2] # t.conv_id) =>
                              /\ ~In(s, t.conv_id)
                              /\ \A j \in DOMAIN rest : SynOf(rest[j], t.conv_id) => k < j
      BY <3>1 DEF Lone
    <3>2. \A k \in DOMAIN in : ~ResetOf(in[k], t.conv_id)
      BY <3>1 DEF Lone
    <3>3. \A k \in DOMAIN in : (in[k][1] = 1 /\ in[k][2] # t.conv_id) =>
             ~In(s, t.conv_id) /\ \A j \in DOMAIN in : SynOf(in[j], t.conv_id) => k < j
      BY <3>1 DEF Lone
    <3>4. \A k \in DOMAIN rest : ~ResetOf(rest[k], t.conv_id)
      BY <1>2, <3>2
    <3>5. ASSUME NEW k \in DOMAIN rest, rest[k][1] = 1, rest[k][2] # t.conv_id
          PROVE  /\ ~In(s, t.conv_id)
                 /\ \A j \in DOMAIN rest : SynOf(rest[j], t.conv_id) => k < j
      <4>1. f[k] \in DOMAIN in /\ rest[k] = in[f[k]]
        BY <1>2
      <4>2. ~In(s, t.conv_id) /\ \A j \in DOMAIN in : SynOf(in[j], t.conv_id) => f[k] < j
        BY <3>3, <3>5, <4>1
      <4>3. ASSUME NEW j \in DOMAIN rest, SynOf(rest[j], t.conv_id) PROVE k < j
        <5>1. f[j] \in DOMAIN in /\ rest[j] = in[f[j]]
          BY <1>2
        <5>2. f[k] < f[j]
          BY <4>2, <4>3, <5>1
        <5> QED
          BY <1>2, <5>2
      <4> QED
        BY <4>2, <4>3
    <3> QED
      BY <3>4, <3>5
  <2>2. ASSUME Waiting(t), NEW j \in DOMAIN out, DataOf(out[j], t.conv_id)
        PROVE  CompletedBefore(out, t.conv_id, j)
    <3>1. PICK h \in 1..(j - 1) : Completes(out[h], t.conv_id)
      BY <2>2 DEF DataWaits
    <3> QED
      BY <3>1 DEF CompletedBefore
  <2> QED
    BY <1>1, <2>1, <2>2 DEF Bond, Half, Sheltered
<1> QED
  BY <1>3, <1>4, <1>5, <1>6 DEF Bond, Half, Z

(* The session is forgotten, while nothing was lost. *)
LEMMA Forgets ==
  ASSUME NEW n, NEW p, NEW dl, NEW D, NEW S, NEW s, NEW t, NEW out, NEW in,
         Bond(n, p, dl, D, S, s, t, out, in), "loss" \notin S
  PROVE  Bond(n, p, dl, D, S \cup {"crash"}, None, t, out, in)
<1>1. ~Waiting(None) /\ \A c : ~In(None, c)
  BY NoneIsQuiet
<1>2. ASSUME NEW c \in 1..D PROVE Flow(n, p, dl, None, t, out, in, c)
  <2>1. Flow(n, p, dl, s, t, out, in, c)
    BY DEF Bond, Half
  <2>2. \A k \in Numbers : Acked(None, t, in, c, k) => Acked(s, t, in, c, k)
    BY <1>1 DEF Acked
  <2>3. Opening(None, out, c) => Opening(s, out, c)
    BY <1>1 DEF Opening
  <2>4. InOrder(None, out, c)
    BY <1>1, <2>1 DEF Flow, InOrder
  <2> QED
    BY <2>1, <2>2, <2>3, <2>4, FlowShrinks
<1>3. ASSUME NEW c \in 1..D PROVE Flow(p, n, dl, t, None, in, out, c)
  <2>1. Flow(p, n, dl, t, s, in, out, c)
    BY DEF Bond, Half
  <2>2. \A k \in Numbers : Acked(t, None, out, c, k) => Acked(t, s, out, c, k)
    BY <1>1 DEF Acked
  <2>3. InOrder(t, in, c)
    BY <2>1 DEF Flow
  <2> QED
    BY <1>1, <2>1, <2>2, <2>3, FlowShrinks
<1>4. Sheltered(S \cup {"crash"}, None, t, out, in)
  BY <1>1 DEF Sheltered, Lone
<1>5. Sheltered(S \cup {"crash"}, t, None, in, out)
  <2>1. Lone(t, None, in)
    BY <1>1 DEF Bond, Half, Sheltered, Lone
  <2>2. "loss" \notin S \cup {"crash"} /\ "crash" \in S \cup {"crash"}
    OBVIOUS
  <2> QED
    BY <2>1, <2>2 DEF Bond, Half, Sheltered
<1> QED
  BY <1>2, <1>3, <1>4, <1>5 DEF Bond, Half

-----------------------------------------------------------------------------
(* What the operations on a session change and what they keep. *)

LEMMA NewFacts ==
  ASSUME NEW c, NEW st
  PROVE  LET u == NewSession(c, st) IN Untouched(u) /\ u.snd = 0 /\ Unacked(u) = {}
<1>1. DOMAIN <<>> = {}
  OBVIOUS
<1> QED
  BY <1>1 DEF NewSession, Untouched, Unacked

LEMMA QueueFacts ==
  ASSUME NEW D, NEW s \in Records(D)
  PROVE  LET u == Queue(s)
         IN  /\ u.rcv_nxt = s.rcv_nxt /\ u.rcv_buf = s.rcv_buf /\ u.acks = s.acks
             /\ u.snd = s.snd + 1 /\ Unacked(u) = Unacked(s) \cup {s.snd + 1}
<1> DEFINE b == [sn \in DOMAIN s.snd_buf \cup {s.snd + 1} |->
                    IF sn \in DOMAIN s.snd_buf THEN s.snd_buf[sn] ELSE 0]
           u == [s EXCEPT !.snd = s.snd + 1, !.snd_buf = b]
<1>1. Queue(s) = u
  BY DEF Queue
<1>2. DOMAIN b = Unacked(s) \cup {s.snd + 1}
  BY DEF Unacked
<1> HIDE DEF b
<1>3. /\ u.rcv_nxt = s.rcv_nxt /\ u.rcv_buf = s.rcv_buf /\ u.acks = s.acks
      /\ u.snd = s.snd + 1 /\ u.snd_buf = b
  BY DEF Records
<1> QED
  BY <1>1, <1>2, <1>3 DEF Unacked

LEMMA FlushedFacts ==
  ASSUME NEW D, NEW s \in Records(D), NEW sns
  PROVE  LET u == Flushed(s, sns)
         IN  /\ u.rcv_nxt = s.rcv_nxt /\ u.rcv_buf = s.rcv_buf /\ u.acks = {}
             /\ u.snd = s.snd /\ Unacked(u) = Unacked(s)
<1> DEFINE b == [sn \in DOMAIN s.snd_buf |->
                    IF sn \in sns THEN s.snd_buf[sn] + 1 ELSE s.snd_buf[sn]]
           u == [s EXCEPT !.acks = {}, !.snd_buf = b]
<1>1. Flushed(s, sns) = u
  BY DEF Flushed
<1>2. DOMAIN b = Unacked(s)
  BY DEF Unacked
<1> HIDE DEF b
<1>3. /\ u.rcv_nxt = s.rcv_nxt /\ u.rcv_buf = s.rcv_buf /\ u.acks = {}
      /\ u.snd = s.snd /\ u.snd_buf = b
  BY DEF Records
<1> QED
  BY <1>1, <1>2, <1>3 DEF Unacked

LEMMA EstablishedFacts ==
  ASSUME NEW D, NEW s \in Records(D), NEW c
  PROVE  LET u == Established(s, c)
         IN  /\ u.rcv_nxt = s.rcv_nxt /\ u.rcv_buf = s.rcv_buf /\ u.acks = s.acks
             /\ u.snd = s.snd /\ Unacked(u) = Unacked(s)
BY DEF Established, Records, Unacked

(* Only what was transmitted, and is acknowledged, leaves. *)
LEMMA AcknowledgeFacts ==
  ASSUME NEW D, NEW s \in Records(D), NEW sns
  PROVE  LET u == Acknowledge(s, sns)
         IN  /\ u.rcv_nxt = s.rcv_nxt /\ u.rcv_buf = s.rcv_buf /\ u.acks = s.acks
             /\ u.snd = s.snd
             /\ Unacked(u) = {sn \in Unacked(s) : sn \notin sns \/ s.snd_buf[sn] = 0}
<1> DEFINE left == {sn \in DOMAIN s.snd_buf : sn \notin sns \/ s.snd_buf[sn] = 0}
           b == [sn \in left |-> s.snd_buf[sn]]
           u == [s EXCEPT !.snd_buf = b]
<1>1. Acknowledge(s, sns) = u
  BY DEF Acknowledge, Restrict
<1>2. DOMAIN b = left
  OBVIOUS
<1> HIDE DEF b
<1>3. /\ u.rcv_nxt = s.rcv_nxt /\ u.rcv_buf = s.rcv_buf /\ u.acks = s.acks
      /\ u.snd = s.snd /\ u.snd_buf = b
  BY DEF Records
<1> QED
  BY <1>1, <1>2, <1>3 DEF Unacked

(* A message that arrives is there, as are all that were. *)
LEMMA ArrivedFacts ==
  ASSUME NEW D, NEW s \in Records(D), NEW sn \in 1..MaxSends, s.rcv_nxt \notin s.rcv_buf
  PROVE  LET u == Arrived(s, sn)
         IN  /\ u.snd = s.snd /\ Unacked(u) = Unacked(s)
             /\ u.rcv_nxt \in Numbers /\ u.rcv_nxt \notin u.rcv_buf
             /\ u.acks = s.acks \cup {sn} /\ Has(u, sn)
             /\ \A k \in Numbers : Has(s, k) => Has(u, k)
<1> DEFINE u == Arrived(s, sn)
           nxt == NextExpected(s, sn)
<1>1. s.rcv_nxt \in 1..(MaxSends + 1) /\ s.rcv_buf \in SUBSET (1..MaxSends) /\ MaxSends \in Nat
  BY HandshakeLimits DEF Records
<1>2. /\ nxt \in s.rcv_nxt..(MaxSends + 1) /\ nxt \notin s.rcv_buf \cup {sn}
      /\ s.rcv_nxt..(nxt - 1) \subseteq s.rcv_buf \cup {sn}
  BY <1>1, NextExpectedForm
<1>3. u = IF sn < s.rcv_nxt
          THEN [s EXCEPT !.acks = s.acks \cup {sn}]
          ELSE [s EXCEPT !.acks = s.acks \cup {sn}, !.rcv_nxt = nxt,
                         !.rcv_buf = (s.rcv_buf \cup {sn}) \ (1..(nxt - 1))]
  BY DEF Arrived
<1> HIDE DEF u, nxt
<1>4. u.snd = s.snd /\ u.snd_buf = s.snd_buf /\ u.acks = s.acks \cup {sn}
  BY <1>3 DEF Records
<1>5. CASE sn < s.rcv_nxt
  <2>1. u.rcv_nxt = s.rcv_nxt /\ u.rcv_buf = s.rcv_buf
    BY <1>3, <1>5 DEF Records
  <2> QED
    BY <1>1, <1>4, <1>5, <2>1 DEF u, Has, Numbers, Unacked
<1>6. CASE ~(sn < s.rcv_nxt)
  <2>1. u.rcv_nxt = nxt /\ u.rcv_buf = (s.rcv_buf \cup {sn}) \ (1..(nxt - 1))
    BY <1>3, <1>6 DEF Records
  <2>2. u.rcv_nxt \in Numbers /\ u.rcv_nxt \notin u.rcv_buf
    BY <1>1, <1>2, <2>1 DEF Numbers
  <2>3. ASSUME NEW k \in Numbers, Has(s, k) \/ k = sn PROVE Has(u, k)
    BY <1>1, <1>2, <2>1, <2>3 DEF Has, Numbers
  <2>4. sn \in Numbers
    BY <1>1 DEF Numbers
  <2> QED
    BY <1>4, <2>2, <2>3, <2>4 DEF u, Unacked
<1> QED
  BY <1>5, <1>6

-----------------------------------------------------------------------------
(* What is said. *)

LEMMA TellsSegments ==
  ASSUME NEW s, s # None, ~Waiting(s), s.conv_id \in Nat, NEW x \in Seq(Said(s))
  PROVE  Tells(s, x)
<1>1. ASSUME NEW k \in DOMAIN x
      PROVE  /\ x[k][1] = 0 /\ x[k][2] = s.conv_id /\ x[k][5] = s.rcv_nxt
             /\ x[k][3] = "ack" => x[k][4] \in s.acks
  <2>1. x[k] \in Said(s)
    BY LenProperties, ElementOfSeq
  <2> QED
    BY <2>1, Zenon DEF Said, Data, Datagram
<1> QED
  BY <1>1 DEF Tells

LEMMA FlushTells ==
  ASSUME NEW D \in Nat, NEW K \in Nat, NEW s, Sound(s, D, K), s.state = "Established",
         NEW sns \in SUBSET (1..MaxSends)
  PROVE  Segments(s, sns) \in Seq(Datagram(1..D)) /\ Tells(s, Segments(s, sns))
<1>1. /\ s.conv_id \in 1..D /\ s.conv_id \in Nat
      /\ s.acks \in SUBSET (1..MaxSends) /\ s.rcv_nxt \in 1..(MaxSends + 1)
  BY DEF Sound, Records
<1>2. s # None /\ ~Waiting(s)
  BY SoundIsSession DEF Waiting
<1>3. Segments(s, sns) \in Seq(Said(s))
  BY <1>1, SegmentsForm
<1> QED
  BY <1>1, <1>2, <1>3, TellsSegments, SegmentsSay

LEMMA TellsControl ==
  ASSUME NEW s, NEW c \in Nat
  PROVE  /\ Tells(s, <<encode_control("SynAck", c)>>)
         /\ ~(Waiting(s) /\ s.conv_id = c) => Tells(s, <<encode_control("Reset", c)>>)
         /\ Tells(s, <<>>)
<1>1. ASSUME NEW b \in 2..3, NEW e \in Control(b, c), b = 3 => ~(Waiting(s) /\ s.conv_id = c)
      PROVE  Tells(s, <<e>>)
  <2>1. e[1] = b /\ e[2] = c /\ DOMAIN <<e>> = {1} /\ <<e>>[1] = e
    BY DEF Control, Datagram
  <2> QED
    BY <1>1, <2>1 DEF Tells
<1>2. encode_control("SynAck", c) \in Control(2, c) /\ encode_control("Reset", c) \in Control(3, c)
  BY ControlForm
<1>3. 2 \in 2..3 /\ 3 \in 2..3 /\ 2 # 3
  OBVIOUS
<1>4. Tells(s, <<encode_control("SynAck", c)>>)
  BY <1>1, <1>2, <1>3
<1>5. ~(Waiting(s) /\ s.conv_id = c) => Tells(s, <<encode_control("Reset", c)>>)
  BY <1>1, <1>2, <1>3
<1>6. Tells(s, <<>>)
  BY DEF Tells
<1> QED
  BY <1>4, <1>5, <1>6

LEMMA TellsBoth ==
  ASSUME NEW C, NEW x \in Seq(C), NEW y \in Seq(C), NEW s, Tells(s, x), Tells(s, y)
  PROVE  Tells(s, x \o y)
<1>1. Extended(x, y, x \o y)
  BY ConcatExtended
<1>2. PICK z : z = x \o y
  OBVIOUS
<1>3. ASSUME NEW k \in DOMAIN z PROVE (\E j \in DOMAIN x : z[k] = x[j]) \/ \E j \in DOMAIN y : z[k] = y[j]
  BY <1>1, <1>2 DEF Extended
<1> QED
  BY <1>2, <1>3 DEF Tells

LEMMA SaysMore ==
  ASSUME NEW n, NEW p, NEW dl, NEW D, NEW S, NEW s, NEW t, NEW C, NEW out \in Seq(C), NEW in,
         Bond(n, p, dl, D, S, s, t, out, in), s # None => s.rcv_nxt \in Numbers,
         NEW x \in Seq(C), Tells(s, x)
  PROVE  Bond(n, p, dl, D, S, s, t, out \o x, in)
<1>1. Extended(out, x, out \o x) /\ DOMAIN out \subseteq Nat /\ DOMAIN (out \o x) \subseteq Nat
  BY ConcatExtended
<1>2. PICK more : more = out \o x
  OBVIOUS
<1>3. Bond(n, p, dl, D, S, s, t, more, in)
  BY <1>1, <1>2, Says
<1> QED
  BY <1>2, <1>3

-----------------------------------------------------------------------------
(* The inductive invariant. *)

(* The faults under which AckedWasDelivered is claimed. *)
Clean == seen \cap {"dup", "reorder", "late"} = {} /\ ~({"loss", "crash"} \subseteq seen)

BondOf(n, p) ==
    Bond(n, p, delivered, drawn, seen, session[n][p], session[p][n], link[n][p], link[p][n])

DInv == Clean => \A n, p \in Nodes : n # p => BondOf(n, p)

(* Nothing lost, and nobody restarted, by the step. *)
Alike(S, Z) == ("loss" \in Z <=> "loss" \in S) /\ ("crash" \in Z <=> "crash" \in S)

(* What happens to others: more is delivered and more conversations are drawn. *)
LEMMA BondLater ==
  ASSUME NEW n, NEW p, NEW dl, NEW D \in Nat, NEW S, NEW s, NEW t, NEW out, NEW in,
         Bond(n, p, dl, D, S, s, t, out, in),
         NEW dk, dl \subseteq dk, NEW E \in {D, D + 1}, NEW Z, Alike(S, Z),
         Unheard(out, D + 1), Unheard(in, D + 1), ~In(s, D + 1), ~In(t, D + 1)
  PROVE  Bond(n, p, dk, E, Z, s, t, out, in)
<1>1. ASSUME NEW a, NEW b, NEW u, NEW w, NEW x, NEW y, NEW c \in 1..E,
             \A d \in 1..D : Flow(a, b, dl, u, w, x, y, d),
             Unheard(x, D + 1), Unheard(y, D + 1), ~In(u, D + 1), ~In(w, D + 1)
      PROVE  Flow(a, b, dk, u, w, x, y, c)
  <2>1. CASE c = D + 1
    <3>1. \A k \in Numbers : ~Acked(u, w, y, c, k)
      BY <1>1, <2>1 DEF Acked, Acks, DataOf, Unheard
    <3>2. 1 \in Numbers /\ \A k \in Numbers : ~(k < 1)
      BY HandshakeLimits DEF Numbers
    <3>3. InOrder(u, x, c)
      BY <1>1, <2>1 DEF InOrder, SynOf, DataOf, Unheard
    <3> QED
      BY <1>1, <2>1, <3>1, <3>2, <3>3 DEF Flow
  <2>2. CASE c # D + 1
    <3>1. Flow(a, b, dl, u, w, x, y, c)
      BY <1>1, <2>2
    <3>2. InOrder(u, x, c)
      BY <3>1 DEF Flow
    <3> QED
      BY <3>1, <3>2, FlowShrinks
  <2> QED
    BY <2>1, <2>2
<1>2. Sheltered(Z, s, t, out, in) /\ Sheltered(Z, t, s, in, out)
  BY ShelterStays DEF Bond, Half, Alike
<1> QED
  BY <1>1, <1>2 DEF Bond, Half

(* What is on the links and in the map is of conversations drawn before. *)
LEMMA NothingAhead ==
  ASSUME HInv, NEW a \in Nodes, NEW b \in Nodes
  PROVE  Unheard(link[a][b], drawn + 1) /\ ~In(session[a][b], drawn + 1)
<1>1. PICK q \in Seq(Datagram(1..drawn)) : q = link[a][b]
  BY DEF HInv, VariablesOK
<1>2. drawn \in Nat /\ (session[a][b] # None => session[a][b].conv_id \in 1..drawn)
  BY EntryFacts
<1>3. ASSUME NEW i \in DOMAIN q PROVE q[i][2] # drawn + 1
  <2>1. q[i] \in Datagram(1..drawn)
    BY LenProperties, ElementOfSeq
  <2>2. q[i][2] \in 1..drawn
    BY <2>1, Zenon DEF Datagram
  <2> QED
    BY <1>2, <2>2
<1> QED
  BY <1>1, <1>2, <1>3 DEF Unheard, In

LEMMA StepDelivers ==
  ASSUME HInv, DInv, NEW n \in Nodes, NEW p \in Nodes, n # p,
         NEW u, NEW event, NEW rest, NEW x, Step(n, p, u, event, rest, x),
         seen \subseteq seen', Alike(seen, seen'), delivered \subseteq delivered',
         drawn' \in {drawn, drawn + 1},
         Clean' => Bond(n, p, delivered', drawn', seen', u, session[p][n], link[n][p] \o x, rest)
  PROVE  DInv'
<1> DEFINE more == link[n][p] \o x
<1>1. \A a, b \in Nodes :
         /\ session'[a][b] = IF a = n /\ b = p THEN u ELSE session[a][b]
         /\ "late" \notin seen' =>
               link'[a][b] = IF a = p /\ b = n THEN rest
                             ELSE IF a = n /\ b = p THEN more ELSE link[a][b]
  BY StepPoints DEF HInv
<1> SUFFICES ASSUME Clean', NEW a \in Nodes, NEW b \in Nodes, a # b
             PROVE  Bond(a, b, delivered', drawn', seen', session'[a][b], session'[b][a],
                         link'[a][b], link'[b][a])
  BY DEF DInv, BondOf
<1>2. Clean /\ "late" \notin seen'
  BY DEF Clean
<1>3. Bond(n, p, delivered', drawn', seen', u, session[p][n], more, rest)
  OBVIOUS
<1> HIDE DEF more
<1>4. Bond(p, n, delivered', drawn', seen', session[p][n], u, rest, more)
  BY <1>3, BondIsMutual
<1>5. CASE a = n /\ b = p
  <2>1. /\ session'[a][b] = u /\ session'[b][a] = session[p][n]
        /\ link'[a][b] = more /\ link'[b][a] = rest
    BY <1>1, <1>2, <1>5
  <2> QED
    BY <1>3, <1>5, <2>1
<1>6. CASE a = p /\ b = n
  <2>1. /\ session'[a][b] = session[p][n] /\ session'[b][a] = u
        /\ link'[a][b] = rest /\ link'[b][a] = more
    BY <1>1, <1>2, <1>6
  <2> QED
    BY <1>4, <1>6, <2>1
<1>7. CASE ~(a = n /\ b = p) /\ ~(a = p /\ b = n)
  <2>1. /\ session'[a][b] = session[a][b] /\ session'[b][a] = session[b][a]
        /\ link'[a][b] = link[a][b] /\ link'[b][a] = link[b][a]
    BY <1>1, <1>2, <1>7
  <2>2. Bond(a, b, delivered, drawn, seen, session[a][b], session[b][a], link[a][b], link[b][a])
    BY <1>2 DEF DInv, BondOf
  <2>3. /\ Unheard(link[a][b], drawn + 1) /\ Unheard(link[b][a], drawn + 1)
        /\ ~In(session[a][b], drawn + 1) /\ ~In(session[b][a], drawn + 1) /\ drawn \in Nat
    BY NothingAhead, EntryFacts
  <2>4. PICK D \in Nat : D = drawn
    BY <2>3
  <2>5. PICK E : E = drawn' /\ E \in {D, D + 1}
    BY <2>4
  <2>6. Bond(a, b, delivered', E, seen', session[a][b], session[b][a], link[a][b], link[b][a])
    BY <2>2, <2>3, <2>4, <2>5, BondLater
  <2> QED
    BY <2>1, <2>5, <2>6
<1> QED
  BY <1>5, <1>6, <1>7

LEMMA ArrivalSeen ==
  ASSUME NEW n, NEW p, NEW in \in Arrivals(n, p)
  PROVE  in.seen \subseteq {"dup", "reorder"}
<1>1. PICK i \in DOMAIN net[p][n], again \in BOOLEAN :
         in = [buf |-> net[p][n][i], rest |-> IF again THEN net[p][n] ELSE RemoveAt(net[p][n], i),
               seen |-> {d \in {"reorder"} : i > 1} \cup {d \in {"dup"} : again}]
  BY DEF Arrivals
<1>2. in.seen = {d \in {"reorder"} : i > 1} \cup {d \in {"dup"} : again}
  BY <1>1
<1> QED
  BY <1>2

(* n handles what arrives: its session becomes u and it says x. *)
LEMMA ArrivalsDeliver ==
  ASSUME HInv, DInv, NEW n \in Nodes, NEW p \in Nodes, n # p, NEW in \in Arrivals(n, p),
         NEW u, NEW event, NEW x, Handles(n, p, in, u, event, x), delivered \subseteq delivered',
         drawn' \in {drawn, drawn + 1},
         ASSUME Clean, NEW out \in Seq(Datagram(1..drawn)), NEW q \in Seq(Datagram(1..drawn)),
                NEW rest \in Seq(Datagram(1..drawn)), out = link[n][p], q = link[p][n],
                1 \in DOMAIN q, DOMAIN q \subseteq Nat \ {0}, in.buf = q[1], Behead(q, rest),
                Bond(n, p, delivered, drawn, seen, session[n][p], session[p][n], out, q)
         PROVE  Bond(n, p, delivered', drawn', seen, u, session[p][n], out \o x, rest)
  PROVE  DInv'
<1>1. VariablesOK
  BY DEF HInv
<1>2. /\ Step(n, p, u, event, Rest(n, p, in), x) /\ seen \cup in.seen \subseteq seen'
      /\ seen' \subseteq seen \cup in.seen \cup {"late", "overwrite"}
  BY DEF Handles
<1>3. Alike(seen, seen')
  <2>1. in.seen \subseteq {"dup", "reorder"}
    BY ArrivalSeen
  <2> QED
    BY <1>2, <2>1 DEF Alike
<1>4. ASSUME Clean'
      PROVE  Bond(n, p, delivered', drawn', seen', u, session[p][n], link[n][p] \o x, Rest(n, p, in))
  <2>1. Clean /\ "dup" \notin in.seen /\ "reorder" \notin in.seen
    BY <1>2, <1>4 DEF Clean
  <2>2. PICK out \in Seq(Datagram(1..drawn)) : out = link[n][p]
    BY <1>1 DEF VariablesOK
  <2>3. PICK q \in Seq(Datagram(1..drawn)) : q = link[p][n]
    BY <1>1 DEF VariablesOK
  <2>4. q # <<>> /\ in.buf = q[1] /\ Rest(n, p, in) = Tail(q)
    BY <1>1, <2>1, <2>3, ArrivalForm
  <2>5. PICK rest \in Seq(Datagram(1..drawn)) : rest = Tail(q)
    BY <2>4, TailIndices
  <2>6. Behead(q, rest) /\ 1 \in DOMAIN q /\ DOMAIN q \subseteq Nat \ {0}
    BY <2>4, <2>5, TailBeheads DEF Behead, Headless
  <2>7. Bond(n, p, delivered, drawn, seen, session[n][p], session[p][n], out, q)
    BY <2>1, <2>2, <2>3 DEF DInv, BondOf
  <2>8. Bond(n, p, delivered', drawn', seen, u, session[p][n], out \o x, rest)
    BY <2>1, <2>2, <2>3, <2>4, <2>6, <2>7
  <2>9. PICK more : more = out \o x
    OBVIOUS
  <2>10. Bond(n, p, delivered', drawn', seen', u, session[p][n], more, rest)
    BY <1>3, <2>8, <2>9, ShelterStays DEF Bond, Half, Alike
  <2> QED
    BY <2>2, <2>4, <2>5, <2>9, <2>10
<1>5. seen \subseteq seen'
  BY <1>2
<1> QED
  BY <1>2, <1>3, <1>4, <1>5, StepDelivers

LEMMA ArrivalDelivers ==
  ASSUME HInv, DInv, NEW n \in Nodes, NEW p \in Nodes, n # p, NEW in \in Arrivals(n, p),
         NEW u, NEW event, NEW x, Handles(n, p, in, u, event, x), delivered \subseteq delivered',
         drawn' = drawn,
         ASSUME Clean, NEW out \in Seq(Datagram(1..drawn)), NEW q \in Seq(Datagram(1..drawn)),
                NEW rest \in Seq(Datagram(1..drawn)), out = link[n][p], q = link[p][n],
                1 \in DOMAIN q, DOMAIN q \subseteq Nat \ {0}, in.buf = q[1], Behead(q, rest),
                Bond(n, p, delivered, drawn, seen, session[n][p], session[p][n], out, q)
         PROVE  Bond(n, p, delivered', drawn, seen, u, session[p][n], out \o x, rest)
  PROVE  DInv'
<1>1. drawn' \in {drawn, drawn + 1}
  OBVIOUS
<1>2. ASSUME Clean, NEW out \in Seq(Datagram(1..drawn)), NEW q \in Seq(Datagram(1..drawn)),
             NEW rest \in Seq(Datagram(1..drawn)), out = link[n][p], q = link[p][n],
             1 \in DOMAIN q, DOMAIN q \subseteq Nat \ {0}, in.buf = q[1], Behead(q, rest),
             Bond(n, p, delivered, drawn, seen, session[n][p], session[p][n], out, q)
      PROVE  Bond(n, p, delivered', drawn', seen, u, session[p][n], out \o x, rest)
  BY <1>2
<1> QED
  BY <1>1, <1>2, ArrivalsDeliver

(* n acts of its own accord. *)
LEMMA ActDelivers ==
  ASSUME HInv, DInv, NEW n \in Nodes, NEW p \in Nodes, n # p,
         NEW u, NEW event, NEW x, NEW disturbance, Acts(n, p, u, event, x, disturbance),
         disturbance \cap {"loss", "crash"} = {}, drawn' \in {drawn, drawn + 1},
         ASSUME NEW out \in Seq(Datagram(1..drawn)), NEW q \in Seq(Datagram(1..drawn)),
                out = link[n][p], q = link[p][n],
                Bond(n, p, delivered, drawn, seen, session[n][p], session[p][n], out, q)
         PROVE  Bond(n, p, delivered, drawn', seen, u, session[p][n], out \o x, q)
  PROVE  DInv'
<1>1. VariablesOK
  BY DEF HInv
<1>2. PICK out \in Seq(Datagram(1..drawn)) : out = link[n][p]
  BY <1>1 DEF VariablesOK
<1>3. PICK q \in Seq(Datagram(1..drawn)) : q = link[p][n]
  BY <1>1 DEF VariablesOK
<1>4. Step(n, p, u, event, q, x)
  BY <1>3 DEF Acts
<1>5. /\ seen \cup disturbance \subseteq seen' /\ seen' \subseteq seen \cup disturbance \cup {"late"}
      /\ delivered' = delivered
  BY DEF Acts
<1>6. Alike(seen, seen')
  BY <1>5 DEF Alike
<1>7. ASSUME Clean'
      PROVE  Bond(n, p, delivered', drawn', seen', u, session[p][n], link[n][p] \o x, q)
  <2>1. Clean
    BY <1>5, <1>7 DEF Clean
  <2>2. Bond(n, p, delivered, drawn, seen, session[n][p], session[p][n], out, q)
    BY <1>2, <1>3, <2>1 DEF DInv, BondOf
  <2>3. Bond(n, p, delivered, drawn', seen, u, session[p][n], out \o x, q)
    BY <1>2, <1>3, <2>2
  <2>4. PICK more : more = out \o x
    OBVIOUS
  <2>5. Bond(n, p, delivered, drawn', seen', u, session[p][n], more, q)
    BY <1>6, <2>3, <2>4, ShelterStays DEF Bond, Half, Alike
  <2> QED
    BY <1>2, <1>5, <2>4, <2>5
<1> QED
  BY <1>4, <1>5, <1>6, <1>7, StepDelivers

-----------------------------------------------------------------------------
(* The handlers. *)

LEMMA SessionFacts ==
  ASSUME HInv, NEW n \in Nodes, NEW p \in Nodes, session[n][p] # None
  PROVE  /\ Sound(session[n][p], drawn, sends) /\ session[n][p] \in Records(drawn)
         /\ session[n][p].rcv_nxt \in Numbers
         /\ session[n][p].conv_id \in 1..drawn /\ session[n][p].conv_id \in Nat
         /\ session[n][p].state \in {"SynSent", "Established"}
         /\ drawn \in Nat /\ sends \in Nat
<1>1. /\ Sound(session[n][p], drawn, sends) /\ session[n][p].rcv_nxt \in 1..(MaxSends + 1)
      /\ session[n][p].conv_id \in 1..drawn /\ session[n][p].state \in {"SynSent", "Established"}
      /\ drawn \in Nat /\ sends \in Nat
  BY EntryFacts
<1> QED
  BY <1>1 DEF Sound, Numbers

(* What arrives has no effect on the session. *)
LEMMA UnmovedDelivers ==
  ASSUME HInv, DInv, NEW n \in Nodes, NEW p \in Nodes, n # p, NEW in \in Arrivals(n, p),
         NEW event, NEW x \in Seq(Datagram(1..drawn)), Tells(session[n][p], x),
         Handles(n, p, in, session[n][p], event, x), drawn' = drawn, UNCHANGED delivered,
         Waiting(session[n][p]) => /\ ~Completes(in.buf, session[n][p].conv_id)
                                   /\ ~ResetOf(in.buf, session[n][p].conv_id)
  PROVE  DInv'
<1> DEFINE s == session[n][p]
           t == session[p][n]
<1>1. s # None => s.rcv_nxt \in Numbers
  BY SessionFacts
<1>2. ASSUME NEW out \in Seq(Datagram(1..drawn)), NEW q \in Seq(Datagram(1..drawn)),
             NEW rest \in Seq(Datagram(1..drawn)), in.buf = q[1], Behead(q, rest),
             Bond(n, p, delivered, drawn, seen, s, t, out, q)
      PROVE  Bond(n, p, delivered', drawn, seen, s, t, out \o x, rest)
  <2>1. Bond(n, p, delivered, drawn, seen, s, t, out, rest)
    BY <1>2, Hears
  <2>2. Bond(n, p, delivered, drawn, seen, s, t, out \o x, rest)
    BY <1>1, <2>1, SaysMore
  <2> QED
    BY <2>2
<1> QED
  BY <1>2, ArrivalDelivers

LEMMA IgnoredDelivers ==
  ASSUME HInv, DInv, NEW n \in Nodes, NEW p \in Nodes, n # p, NEW in \in Arrivals(n, p),
         Ignore(n, p, in), UNCHANGED delivered,
         Waiting(session[n][p]) => /\ ~Completes(in.buf, session[n][p].conv_id)
                                   /\ ~ResetOf(in.buf, session[n][p].conv_id)
  PROVE  DInv'
<1>1. <<>> \in Seq(Datagram(1..drawn)) /\ Tells(session[n][p], <<>>)
  BY DEF Tells
<1>2. Reply(n, p, in, session[n][p], told[n][p], <<>>)
  BY DEF Ignore
<1>3. Handles(n, p, in, session[n][p], told[n][p], <<>>) /\ drawn' = drawn
  BY <1>1, <1>2, ReplyHandles
<1> QED
  BY <1>1, <1>3, UnmovedDelivers

(* Data changes a session as its acknowledgements and messages say. *)
Input(s, d) ==
    IF d[3] = "push" THEN Arrived(Acknowledge(s, 1..(d[5] - 1)), d[4])
    ELSE Acknowledge(s, 1..(d[5] - 1) \cup {d[4]})

LEMMA InputFacts ==
  ASSUME NEW D \in Nat, NEW K \in Nat, NEW s, Sound(s, D, K), s.rcv_nxt \notin s.rcv_buf,
         NEW d, NEW c, DataOf(d, c), d[3] \in {"push", "ack"}, d[4] \in 1..MaxSends,
         d[5] \in 1..(MaxSends + 1)
  PROVE  LET u == Input(s, d)
         IN  /\ Sound(u, D, K) /\ u.conv_id = s.conv_id /\ u.state = s.state /\ u.snd = s.snd
             /\ s.state = "SynSent" => Unacked(u) = Unacked(s)
             /\ u.rcv_nxt \in Numbers /\ u.rcv_nxt \notin u.rcv_buf
             /\ \A k \in Numbers : Has(s, k) => Has(u, k)
             /\ \A k \in Numbers : k \in u.acks => k \in s.acks \/ Has(u, k)
             /\ \A k \in Numbers : k \notin Unacked(u) => k \notin Unacked(s) \/ Acks(d, c, k)
<1> DEFINE una == 1..(d[5] - 1)
<1>1. s \in Records(D) /\ s.rcv_nxt \in Numbers
  BY DEF Sound, Records, Numbers
<1>2. ASSUME NEW X, \A k \in Numbers : k \in X => Acks(d, c, k)
      PROVE  LET a == Acknowledge(s, X)
             IN  /\ Sound(a, D, K) /\ a.conv_id = s.conv_id /\ a.state = s.state /\ a.snd = s.snd
                 /\ s.state = "SynSent" => Unacked(a) = Unacked(s)
                 /\ a.rcv_nxt = s.rcv_nxt /\ a.rcv_buf = s.rcv_buf /\ a.acks = s.acks
                 /\ \A k \in Numbers : k \notin Unacked(a) => k \notin Unacked(s) \/ Acks(d, c, k)
  <2> DEFINE a == Acknowledge(s, X)
  <2>1. Sound(a, D, K) /\ a.conv_id = s.conv_id /\ a.state = s.state
    BY AcknowledgeIsSound
  <2>2. /\ a.rcv_nxt = s.rcv_nxt /\ a.rcv_buf = s.rcv_buf /\ a.acks = s.acks /\ a.snd = s.snd
        /\ Unacked(a) = {sn \in Unacked(s) : sn \notin X \/ s.snd_buf[sn] = 0}
    BY <1>1, AcknowledgeFacts
  <2> HIDE DEF a
  <2>3. s.state = "SynSent" => Unacked(a) = Unacked(s)
    BY <2>2 DEF Sound
  <2>4. \A k \in Numbers : k \notin Unacked(a) => k \notin Unacked(s) \/ Acks(d, c, k)
    BY <1>2, <2>2
  <2> QED
    BY <2>1, <2>2, <2>3, <2>4 DEF a
<1>3. \A k \in Numbers : k \in una => Acks(d, c, k)
  BY DEF Acks, Numbers
<1> HIDE DEF una
<1>4. CASE d[3] = "push"
  <2>1. PICK a : a = Acknowledge(s, una)
    OBVIOUS
  <2>2. /\ Sound(a, D, K) /\ a.conv_id = s.conv_id /\ a.state = s.state /\ a.snd = s.snd
        /\ s.state = "SynSent" => Unacked(a) = Unacked(s)
        /\ a.rcv_nxt = s.rcv_nxt /\ a.rcv_buf = s.rcv_buf /\ a.acks = s.acks
        /\ \A k \in Numbers : k \notin Unacked(a) => k \notin Unacked(s) \/ Acks(d, c, k)
    BY <1>2, <1>3, <2>1
  <2>3. PICK u : u = Arrived(a, d[4])
    OBVIOUS
  <2>4. Sound(u, D, K) /\ u.conv_id = a.conv_id /\ u.state = a.state
    BY <2>2, <2>3, ArrivedIsSound
  <2>5. /\ u.snd = a.snd /\ Unacked(u) = Unacked(a)
        /\ u.rcv_nxt \in Numbers /\ u.rcv_nxt \notin u.rcv_buf
        /\ u.acks = a.acks \cup {d[4]} /\ Has(u, d[4])
        /\ \A k \in Numbers : Has(a, k) => Has(u, k)
    <3>1. a \in Records(D) /\ a.rcv_nxt \notin a.rcv_buf
      BY <2>2 DEF Sound
    <3> QED
      BY <2>3, <3>1, ArrivedFacts
  <2>6. \A k \in Numbers : Has(s, k) => Has(u, k)
    BY <2>2, <2>5 DEF Has
  <2> QED
    BY <1>4, <2>1, <2>2, <2>3, <2>4, <2>5, <2>6 DEF una, Input
<1>5. CASE d[3] # "push"
  <2>1. \A k \in Numbers : k \in una \cup {d[4]} => Acks(d, c, k)
    BY <1>3, <1>5 DEF Acks
  <2>2. PICK u : u = Acknowledge(s, una \cup {d[4]})
    OBVIOUS
  <2>3. /\ Sound(u, D, K) /\ u.conv_id = s.conv_id /\ u.state = s.state /\ u.snd = s.snd
        /\ s.state = "SynSent" => Unacked(u) = Unacked(s)
        /\ u.rcv_nxt = s.rcv_nxt /\ u.rcv_buf = s.rcv_buf /\ u.acks = s.acks
        /\ \A k \in Numbers : k \notin Unacked(u) => k \notin Unacked(s) \/ Acks(d, c, k)
    BY <1>2, <2>1, <2>2
  <2> QED
    BY <1>1, <1>5, <2>2, <2>3 DEF una, Has, Input
<1> QED
  BY <1>4, <1>5

LEMMA DataDelivers ==
  ASSUME HInv, DInv, NEW n \in Nodes, NEW p \in Nodes, n # p, NEW in \in Arrivals(n, p),
         NEW conv, conv = in.buf[2], in.buf[1] = 0,
         \/ RxDataOrphan(n, p, in, conv) \/ RxDataRefused(n, p, in, conv)
         \/ RxData(n, p, in, conv)
  PROVE  DInv'
<1> DEFINE s == session[n][p]
           t == session[p][n]
           d == in.buf
<1>1. /\ conv \in 1..drawn /\ conv \in Nat /\ drawn \in Nat
      /\ d[3] \in {"push", "ack"} /\ d[4] \in 1..MaxSends /\ d[5] \in 1..(MaxSends + 1)
  <2>1. d \in Datagram(1..drawn) /\ drawn \in Nat
    BY ArrivalForm DEF HInv, VariablesOK
  <2>2. /\ d[2] \in 1..drawn /\ d[3] \in {"push", "ack"} /\ d[4] \in 1..MaxSends
        /\ d[5] \in 1..(MaxSends + 1)
    BY <2>1, Zenon DEF Datagram
  <2> QED
    BY <2>1, <2>2
<1>2. DataOf(d, conv) /\ \A c : ~Completes(d, c) /\ ~ResetOf(d, c)
  BY DEF DataOf, Completes, ResetOf
<1>3. CASE RxDataOrphan(n, p, in, conv)
  <2> DEFINE x == <<encode_control("Reset", conv)>>
  <2>1. s = None /\ Reply(n, p, in, s, told[n][p], x) /\ UNCHANGED delivered
    BY <1>3 DEF RxDataOrphan
  <2>2. x \in Seq(Datagram(1..drawn))
    <3>1. encode_control("Reset", conv) \in Control(3, conv)
      BY <1>1, ControlForm
    <3> QED
      BY <1>1, <3>1, SayControl, 3 \in 1..3
  <2>3. Tells(s, x)
    BY <1>1, <2>1, TellsControl, NoneIsQuiet
  <2> HIDE DEF x
  <2>4. Handles(n, p, in, s, told[n][p], x) /\ drawn' = drawn
    BY <2>1, <2>2, ReplyHandles
  <2> QED
    BY <1>2, <2>1, <2>2, <2>3, <2>4, UnmovedDelivers
<1>4. CASE RxDataRefused(n, p, in, conv)
  BY <1>2, <1>4, IgnoredDelivers DEF RxDataRefused
<1>5. CASE RxData(n, p, in, conv)
  <2> DEFINE u == Input(s, d)
             new == {<<n, p, conv, k>> : k \in s.rcv_nxt..(u.rcv_nxt - 1)}
  <2>1. /\ s # None /\ s.conv_id = conv /\ Reply(n, p, in, u, told[n][p], <<>>)
        /\ delivered' = delivered \cup new
    BY <1>5 DEF RxData, Input
  <2>2. /\ Sound(s, drawn, sends) /\ s.rcv_nxt \in Numbers /\ drawn \in Nat /\ sends \in Nat
        /\ s.state \in {"SynSent", "Established"}
    BY <2>1, SessionFacts
  <2>3. In(s, conv) /\ <<>> \in Seq(Datagram(1..drawn)) /\ Tells(u, <<>>)
    BY <2>1 DEF In, Tells
  <2>4. new = {<<n, p, conv, k>> : k \in s.rcv_nxt..(u.rcv_nxt - 1)}
    OBVIOUS
  <2> HIDE DEF new
  <2>5. ASSUME s.rcv_nxt \notin s.rcv_buf
        PROVE  /\ Sound(u, drawn, sends) /\ u.conv_id = s.conv_id /\ u.state = s.state /\ u.snd = s.snd
               /\ s.state = "SynSent" => Unacked(u) = Unacked(s)
               /\ u.rcv_nxt \in Numbers /\ u.rcv_nxt \notin u.rcv_buf
               /\ \A k \in Numbers : Has(s, k) => Has(u, k)
               /\ \A k \in Numbers : k \in u.acks => k \in s.acks \/ Has(u, k)
               /\ \A k \in Numbers : k \notin Unacked(u) => k \notin Unacked(s) \/ Acks(d, conv, k)
    BY <1>1, <1>2, <2>2, <2>5, InputFacts
  <2> HIDE DEF u
  <2>8. Handles(n, p, in, u, told[n][p], <<>>) /\ drawn' = drawn
    BY <2>1, <2>3, ReplyHandles
  <2>6. ASSUME Clean, NEW out \in Seq(Datagram(1..drawn)), NEW q \in Seq(Datagram(1..drawn)),
               NEW rest \in Seq(Datagram(1..drawn)), out = link[n][p], q = link[p][n],
               1 \in DOMAIN q, DOMAIN q \subseteq Nat \ {0}, d = q[1], Behead(q, rest),
               Bond(n, p, delivered, drawn, seen, s, t, out, q)
        PROVE  Bond(n, p, delivered', drawn, seen, u, t, out \o <<>>, rest)
    <3>1. s.rcv_nxt \notin s.rcv_buf
      BY <1>1, <2>3, <2>6 DEF Bond, Half, Flow
    <3>2. u # None
      BY <2>2, <2>5, <3>1, SoundIsSession
    <3>3. In(u, conv) /\ (Waiting(u) <=> Waiting(s)) /\ (Waiting(u) => Unacked(u) = Unacked(s))
      BY <2>1, <2>5, <3>1, <3>2 DEF In, Waiting
    <3>4. "loss" \notin seen /\ Waiting(s) => DataWaits(q, conv)
      <4>1. "loss" \notin seen => Orderly
        BY <2>6 DEF Clean, Orderly
      <4>2. Orderly => Guarded(s, t, out, q)
        BY <2>6 DEF HInv, HandshakesGuarded, GuardedPair
      <4> QED
        BY <2>1, <4>1, <4>2 DEF Guarded
    <3>5. \A k \in Numbers : s.rcv_nxt <= k /\ k < u.rcv_nxt => <<n, p, conv, k>> \in delivered'
      <4>1. ASSUME NEW k \in Numbers, s.rcv_nxt <= k, k < u.rcv_nxt
            PROVE  k \in s.rcv_nxt..(u.rcv_nxt - 1)
        BY <2>2, <2>5, <3>1, <4>1 DEF Numbers
      <4> QED
        BY <2>1, <2>4, <4>1
    <3>6. delivered \subseteq delivered'
      BY <2>1
    <3>7. PICK dk : dk = delivered'
      OBVIOUS
    <3>8. Bond(n, p, dk, drawn, seen, u, t, out, q)
      <4>1. /\ DataOf(q[1], conv) /\ u.snd = s.snd /\ u.rcv_nxt \in Numbers /\ u.rcv_nxt \notin u.rcv_buf
            /\ \A k \in Numbers : Has(s, k) => Has(u, k)
            /\ \A k \in Numbers : k \in u.acks => k \in s.acks \/ Has(u, k)
            /\ \A k \in Numbers : k \notin Unacked(u) => k \notin Unacked(s) \/ Acks(q[1], conv, k)
        BY <1>2, <2>5, <2>6, <3>1
      <4>2. /\ delivered \subseteq dk
            /\ \A k \in Numbers : s.rcv_nxt <= k /\ k < u.rcv_nxt => <<n, p, conv, k>> \in dk
        BY <3>5, <3>6, <3>7
      <4> HIDE DEF s, t, d
      <4> QED
        BY <2>2, <2>3, <2>6, <3>3, <3>4, <4>1, <4>2, Receives
    <3>9. Bond(n, p, dk, drawn, seen, u, t, out, rest)
      BY <1>2, <2>6, <3>8, Hears
    <3>10. Bond(n, p, dk, drawn, seen, u, t, out \o <<>>, rest)
      BY <2>3, <2>5, <3>1, <3>9, SaysMore
    <3> QED
      BY <3>7, <3>10
  <2>7. delivered \subseteq delivered'
    BY <2>1
  <2> QED
    BY <2>6, <2>7, <2>8, ArrivalDelivers
<1> QED
  BY <1>3, <1>4, <1>5

LEMMA ResetDelivers ==
  ASSUME HInv, DInv, NEW n \in Nodes, NEW p \in Nodes, n # p, NEW in \in Arrivals(n, p),
         NEW conv, conv = in.buf[2], in.buf[1] = 3, RxReset(n, p, in, conv)
  PROVE  DInv'
<1> DEFINE s == session[n][p]
           t == session[p][n]
<1>1. <<>> \in Seq(Datagram(1..drawn)) /\ \A v : Tells(v, <<>>)
  BY DEF Tells
<1>2. CASE s # None /\ s.conv_id = conv
  <2>1. /\ Handles(n, p, in, None, "Disconnected", <<>>) /\ drawn' = drawn
        /\ UNCHANGED delivered
    <3>1. Reply(n, p, in, None, "Disconnected", <<>>) /\ UNCHANGED delivered
      BY <1>2 DEF RxReset
    <3> QED
      BY <1>1, <3>1, ReplyHandles
  <2>2. ASSUME NEW out \in Seq(Datagram(1..drawn)), NEW q \in Seq(Datagram(1..drawn)),
               NEW rest \in Seq(Datagram(1..drawn)), 1 \in DOMAIN q, in.buf = q[1], Behead(q, rest),
               Bond(n, p, delivered, drawn, seen, s, t, out, q)
        PROVE  Bond(n, p, delivered', drawn, seen, None, t, out \o <<>>, rest)
    <3>1. Waiting(t) => t.conv_id # s.conv_id
      BY <1>2, <2>2 DEF Bond, Half, Sheltered, Lone, ResetOf
    <3>2. Extended(out, <<>>, out) /\ \A k \in DOMAIN <<>> : ResetOf(<<>>[k], s.conv_id)
      BY DEF Extended
    <3>3. DOMAIN out \subseteq Nat \ {0}
      BY LenProperties
    <3> HIDE DEF s, t
    <3>4. Bond(n, p, delivered, drawn, seen, None, t, out, q)
      BY <1>2, <2>2, <3>1, <3>2, <3>3, Leaves
    <3>5. Bond(n, p, delivered, drawn, seen, None, t, out, rest)
      BY <2>2, <3>4, Hears, NoneIsQuiet
    <3>6. Bond(n, p, delivered, drawn, seen, None, t, out \o <<>>, rest)
      BY <1>1, <3>5, SaysMore
    <3> QED
      BY <2>1, <3>6
  <2> QED
    BY <2>1, <2>2, ArrivalDelivers
<1>3. CASE ~(s # None /\ s.conv_id = conv)
  <2>1. Ignore(n, p, in) /\ UNCHANGED delivered
    BY <1>3 DEF RxReset
  <2>2. Waiting(s) => ~Completes(in.buf, s.conv_id) /\ ~ResetOf(in.buf, s.conv_id)
    BY <1>3 DEF Waiting, Completes, ResetOf
  <2> QED
    BY <2>1, <2>2, IgnoredDelivers
<1> QED
  BY <1>2, <1>3

(* The session w has completed its handshake, if it was in one, when the   *)
(* head of the link has its effect; it says x and is then u.               *)
LEMMA Completion ==
  ASSUME NEW n, NEW p, NEW dl, NEW D, NEW S, NEW t, NEW C, NEW out \in Seq(C), NEW in,
         NEW w, w # None, ~Waiting(w), w.rcv_nxt \in Numbers, Bond(n, p, dl, D, S, w, t, out, in),
         NEW rest, Behead(in, rest), NEW x \in Seq(C), Tells(w, x),
         NEW u, u # None, ~Waiting(u), u.conv_id = w.conv_id, u.rcv_nxt = w.rcv_nxt,
         u.rcv_buf = w.rcv_buf, u.acks \subseteq w.acks, u.snd = w.snd, Unacked(u) = Unacked(w)
  PROVE  Bond(n, p, dl, D, S, u, t, out \o x, rest)
<1>1. Bond(n, p, dl, D, S, w, t, out, rest)
  BY Hears
<1>2. Bond(n, p, dl, D, S, w, t, out \o x, rest)
  BY <1>1, SaysMore
<1>3. PICK more : more = out \o x
  OBVIOUS
<1>4. Bond(n, p, dl, D, S, u, t, more, rest)
  BY <1>2, <1>3, GoesOn
<1> QED
  BY <1>3, <1>4

(* What a handshake that completes in conversation c leaves and sends. *)
LEMMA CompletionFacts ==
  ASSUME HInv, NEW n \in Nodes, NEW p \in Nodes, Waiting(session[n][p]), NEW c \in 1..drawn
  PROVE  LET s == session[n][p]
             w == Established(s, c)
             u == Flushed(w, Unacked(w))
             x == Segments(w, Unacked(w))
         IN  /\ w # None /\ ~Waiting(w) /\ w.conv_id = c /\ w.rcv_nxt \in Numbers
             /\ w.rcv_nxt = s.rcv_nxt /\ w.rcv_buf = s.rcv_buf /\ w.acks = s.acks
             /\ w.snd = s.snd /\ s.snd \in Nat /\ Unacked(w) = Unacked(s)
             /\ x \in Seq(Datagram(1..drawn)) /\ Tells(w, x)
             /\ u # None /\ ~Waiting(u) /\ u.conv_id = w.conv_id /\ u.rcv_nxt = w.rcv_nxt
             /\ u.rcv_buf = w.rcv_buf /\ u.acks \subseteq w.acks /\ u.snd = w.snd
             /\ Unacked(u) = Unacked(w)
<1> DEFINE s == session[n][p]
           w == Established(s, c)
           u == Flushed(w, Unacked(w))
           x == Segments(w, Unacked(w))
<1>1. /\ Sound(s, drawn, sends) /\ s \in Records(drawn) /\ drawn \in Nat /\ sends \in Nat
      /\ s.rcv_nxt \in Numbers
  BY SessionFacts DEF Waiting
<1>2. Sound(w, drawn, sends) /\ w.conv_id = c /\ w.state = "Established"
  BY <1>1, EstablishedIsSound
<1>3. /\ w.rcv_nxt = s.rcv_nxt /\ w.rcv_buf = s.rcv_buf /\ w.acks = s.acks
      /\ w.snd = s.snd /\ Unacked(w) = Unacked(s)
  BY <1>1, EstablishedFacts
<1>4. Sound(u, drawn, sends) /\ u.conv_id = c /\ u.state = "Established"
  BY CompletionForm
<1>5. s.snd \in Nat
  BY <1>1, HandshakeLimits DEF Records
<1> HIDE DEF s, w
<1>6. w \in Records(drawn) /\ w.snd_buf \in Buffers
  BY <1>2 DEF Sound, Records
<1>7. w # None /\ ~Waiting(w)
  BY <1>1, <1>2, SoundIsSession DEF Waiting
<1>8. Unacked(w) \in SUBSET (1..MaxSends)
  BY <1>6, BufferForm DEF Unacked
<1>9. x \in Seq(Datagram(1..drawn)) /\ Tells(w, x)
  BY <1>1, <1>2, <1>8, FlushTells
<1>10. /\ u.rcv_nxt = w.rcv_nxt /\ u.rcv_buf = w.rcv_buf /\ u.acks = {}
       /\ u.snd = w.snd /\ Unacked(u) = Unacked(w)
  BY <1>6, FlushedFacts
<1> HIDE DEF u, x
<1>11. u # None /\ ~Waiting(u)
  BY <1>1, <1>4, SoundIsSession DEF Waiting
<1>12. {} \subseteq w.acks
  OBVIOUS
<1> QED
  BY <1>1, <1>2, <1>3, <1>4, <1>5, <1>7, <1>9, <1>10, <1>11, <1>12 DEF s, w, u, x

LEMMA SynAckDelivers ==
  ASSUME HInv, DInv, NEW n \in Nodes, NEW p \in Nodes, n # p, NEW in \in Arrivals(n, p),
         NEW conv, conv = in.buf[2], in.buf[1] = 2,
         RxSynAck(n, p, in, conv) \/ RxSynAckIgnored(n, p, in, conv)
  PROVE  DInv'
<1> DEFINE s == session[n][p]
           t == session[p][n]
<1>1. CASE RxSynAck(n, p, in, conv)
  <2>1. Waiting(s) /\ s.conv_id = conv /\ s # None /\ UNCHANGED delivered
    BY <1>1 DEF RxSynAck, Answered, Waiting
  <2>2. PICK c \in 1..drawn : c = conv
    BY <2>1, EntryFacts DEF Waiting
  <2>3. PICK w : w = Established(s, c)
    OBVIOUS
  <2>4. PICK u : u = Flushed(w, Unacked(w))
    OBVIOUS
  <2>5. PICK x : x = Segments(w, Unacked(w))
    OBVIOUS
  <2>6. Reply(n, p, in, u, "Connected", x)
    BY <1>1, <2>2, <2>3, <2>4, <2>5 DEF RxSynAck
  <2>7. /\ w # None /\ ~Waiting(w) /\ w.conv_id = c /\ w.rcv_nxt \in Numbers
        /\ w.rcv_nxt = s.rcv_nxt /\ w.rcv_buf = s.rcv_buf /\ w.acks = s.acks
        /\ w.snd = s.snd /\ s.snd \in Nat /\ Unacked(w) = Unacked(s)
        /\ x \in Seq(Datagram(1..drawn)) /\ Tells(w, x)
        /\ u # None /\ ~Waiting(u) /\ u.conv_id = w.conv_id /\ u.rcv_nxt = w.rcv_nxt
        /\ u.rcv_buf = w.rcv_buf /\ u.acks \subseteq w.acks /\ u.snd = w.snd
        /\ Unacked(u) = Unacked(w)
    BY <2>1, <2>3, <2>4, <2>5, CompletionFacts
  <2>8. ASSUME NEW out \in Seq(Datagram(1..drawn)), NEW q \in Seq(Datagram(1..drawn)),
               NEW rest \in Seq(Datagram(1..drawn)), Behead(q, rest),
               Bond(n, p, delivered, drawn, seen, s, t, out, q)
        PROVE  Bond(n, p, delivered', drawn, seen, u, t, out \o x, rest)
    <3> HIDE DEF s, t
    <3>1. Bond(n, p, delivered, drawn, seen, w, t, out, q)
      BY <2>1, <2>2, <2>7, <2>8, GoesOn
    <3>2. Bond(n, p, delivered, drawn, seen, u, t, out \o x, rest)
      BY <2>7, <2>8, <3>1, Completion
    <3> QED
      BY <2>1, <3>2
  <2>9. Handles(n, p, in, u, "Connected", x) /\ drawn' = drawn
    BY <2>6, <2>7, ReplyHandles
  <2> QED
    BY <2>1, <2>8, <2>9, ArrivalDelivers
<1>2. CASE RxSynAckIgnored(n, p, in, conv)
  <2>1. Ignore(n, p, in) /\ UNCHANGED delivered
    BY <1>2 DEF RxSynAckIgnored
  <2>2. Waiting(s) => ~Completes(in.buf, s.conv_id) /\ ~ResetOf(in.buf, s.conv_id)
    BY <1>2 DEF RxSynAckIgnored, Answered, Waiting, Completes, ResetOf
  <2> QED
    BY <2>1, <2>2, IgnoredDelivers
<1> QED
  BY <1>1, <1>2

(* A SYN creates a session, is answered again, or meets one: then nothing  *)
(* has been received in the session's own conversation, and what it queued *)
(* is all to be sent, so that it may as well be of the other.              *)
LEMMA SynDelivers ==
  ASSUME HInv, DInv, NEW n \in Nodes, NEW p \in Nodes, n # p, NEW in \in Arrivals(n, p),
         NEW conv, conv = in.buf[2], in.buf[1] = 1,
         \/ RxSynCreate(n, p, in, conv) \/ RxSynSame(n, p, in, conv)
         \/ RxSynSimultaneous(n, p, in, conv)
  PROVE  DInv'
<1> DEFINE s == session[n][p]
           t == session[p][n]
           ack(c) == <<encode_control("SynAck", c)>>
<1>1. conv \in 1..drawn /\ conv \in Nat /\ drawn \in Nat /\ sends \in Nat
  <2>1. in.buf \in Datagram(1..drawn)
    BY ArrivalForm DEF HInv
  <2>2. in.buf[2] \in 1..drawn
    BY <2>1, Zenon DEF Datagram
  <2> QED
    BY <2>2, EntryFacts
<1>2. ASSUME NEW c \in 1..drawn PROVE ack(c) \in Seq(Datagram(1..drawn)) /\ \A v : Tells(v, ack(c))
  <2>1. encode_control("SynAck", c) \in Control(2, c) /\ c \in Nat
    BY <1>1, ControlForm
  <2> QED
    BY <2>1, SayControl, TellsControl, 2 \in 1..3
<1> HIDE DEF ack
<1>3. CASE RxSynCreate(n, p, in, conv)
  <2>1. PICK u : u = NewSession(conv, "Established")
    OBVIOUS
  <2>2. /\ Reply(n, p, in, u, "Connected", ack(conv)) /\ UNCHANGED delivered
        /\ (s # None => s.conv_id # conv)
    BY <1>3, <2>1 DEF RxSynCreate, ack
  <2>3. Sound(u, drawn, sends) /\ u.conv_id = conv /\ u.state = "Established"
    BY <1>1, <2>1, NewIsSound
  <2>4. Untouched(u) /\ u.snd = 0
    BY <2>1, NewFacts
  <2>5. u # None /\ ~Waiting(u) /\ In(u, conv) /\ ~In(s, conv)
    BY <1>1, <2>2, <2>3, SoundIsSession DEF Waiting, In
  <2>6. u.rcv_nxt \in Numbers /\ \A k \in Numbers : k <= u.snd => k \in Unacked(u)
    BY <2>4, HandshakeLimits DEF Untouched, Numbers
  <2>7. ack(conv) \in Seq(Datagram(1..drawn)) /\ Tells(u, ack(conv))
    BY <1>1, <1>2
  <2>8. ASSUME NEW out \in Seq(Datagram(1..drawn)), NEW q \in Seq(Datagram(1..drawn)),
               NEW rest \in Seq(Datagram(1..drawn)), 1 \in DOMAIN q, DOMAIN q \subseteq Nat \ {0},
               in.buf = q[1], Behead(q, rest), Bond(n, p, delivered, drawn, seen, s, t, out, q)
        PROVE  Bond(n, p, delivered', drawn, seen, u, t, out \o ack(conv), rest)
    <3>1. SynOf(q[1], conv) /\ u.acks \subseteq u.acks
      BY <2>8 DEF SynOf
    <3> HIDE DEF s, t
    <3>2. Bond(n, p, delivered, drawn, seen, u, t, out, q)
      BY <2>4, <2>5, <2>6, <2>8, <3>1, Takes
    <3>3. Bond(n, p, delivered, drawn, seen, u, t, out \o ack(conv), rest)
      BY <2>5, <2>6, <2>7, <2>8, <3>1, <3>2, Completion
    <3> QED
      BY <2>2, <3>3
  <2>9. Handles(n, p, in, u, "Connected", ack(conv)) /\ drawn' = drawn
    BY <2>2, <2>7, ReplyHandles
  <2> QED
    BY <2>2, <2>8, <2>9, ArrivalDelivers
<1>4. CASE RxSynSame(n, p, in, conv)
  <2>1. PICK x : x = IF s.state = "Established" THEN ack(conv) ELSE <<>>
    OBVIOUS
  <2>2. /\ s # None /\ s.conv_id = conv /\ UNCHANGED <<drawn, delivered>>
        /\ Handles(n, p, in, s, told[n][p], x)
    BY <1>1, <1>4, <2>1, SameHandles DEF RxSynSame, ack
  <2>3. <<>> \in Seq(Datagram(1..drawn)) /\ Tells(s, <<>>)
    BY DEF Tells
  <2>4. x \in Seq(Datagram(1..drawn)) /\ Tells(s, x)
    BY <1>1, <1>2, <2>1, <2>3
  <2>5. ~Completes(in.buf, s.conv_id) /\ ~ResetOf(in.buf, s.conv_id)
    BY <2>2 DEF Completes, ResetOf
  <2> QED
    BY <2>2, <2>4, <2>5, UnmovedDelivers
<1>5. CASE RxSynSimultaneous(n, p, in, conv)
  <2>1. Waiting(s) /\ s.conv_id # conv /\ s # None /\ UNCHANGED delivered
    BY <1>5 DEF RxSynSimultaneous, Waiting
  <2>2. PICK c : c = TieBreak(n, p, s.conv_id, conv)
    OBVIOUS
  <2>3. c \in 1..drawn /\ (c = conv \/ c = s.conv_id)
    BY <1>1, <2>1, <2>2, EntryFacts DEF TieBreak
  <2>4. PICK w : w = Established(s, c)
    OBVIOUS
  <2>5. PICK u : u = Flushed(w, Unacked(w))
    OBVIOUS
  <2>6. PICK segs : segs = Segments(w, Unacked(w))
    OBVIOUS
  <2>7. /\ w # None /\ ~Waiting(w) /\ w.conv_id = c /\ w.rcv_nxt \in Numbers
        /\ w.rcv_nxt = s.rcv_nxt /\ w.rcv_buf = s.rcv_buf /\ w.acks = s.acks
        /\ w.snd = s.snd /\ s.snd \in Nat /\ Unacked(w) = Unacked(s)
        /\ segs \in Seq(Datagram(1..drawn)) /\ Tells(w, segs)
        /\ u # None /\ ~Waiting(u) /\ u.conv_id = w.conv_id /\ u.rcv_nxt = w.rcv_nxt
        /\ u.rcv_buf = w.rcv_buf /\ u.acks \subseteq w.acks /\ u.snd = w.snd
        /\ Unacked(u) = Unacked(w)
    BY <2>1, <2>3, <2>4, <2>5, <2>6, CompletionFacts
  <2>8. /\ Handles(n, p, in, u, "Connected", segs \o <<encode_control("SynAck", w.conv_id)>>)
        /\ drawn' = drawn
    BY <1>1, <1>5, <2>2, <2>4, <2>5, <2>6, SimultaneousHandles
  <2>9. PICK x : x = segs \o ack(c)
    OBVIOUS
  <2>10. Handles(n, p, in, u, "Connected", x) /\ drawn' = drawn
    BY <2>7, <2>8, <2>9 DEF ack
  <2>11. x \in Seq(Datagram(1..drawn)) /\ Tells(w, x)
    <3>1. ack(c) \in Seq(Datagram(1..drawn)) /\ Tells(w, ack(c))
      BY <1>2, <2>3
    <3> QED
      BY <2>7, <2>9, <3>1, TellsBoth, ConcatProperties
  <2>12. ASSUME NEW out \in Seq(Datagram(1..drawn)), NEW q \in Seq(Datagram(1..drawn)),
                NEW rest \in Seq(Datagram(1..drawn)), 1 \in DOMAIN q, DOMAIN q \subseteq Nat \ {0},
                in.buf = q[1], Behead(q, rest), Bond(n, p, delivered, drawn, seen, s, t, out, q)
         PROVE  Bond(n, p, delivered', drawn, seen, u, t, out \o x, rest)
    <3>1. SynOf(q[1], conv) /\ q[1][1] = 1 /\ ~In(s, conv)
      BY <2>1, <2>12 DEF SynOf, In
    <3> HIDE DEF s, t
    <3>2. Untouched(s) /\ Unacked(s) = 1..s.snd
      BY <2>1, <2>12, <3>1, SynMeetsUntouched
    <3>3. Bond(n, p, delivered, drawn, seen, w, t, out, q)
      <4>1. CASE c = conv
        <5>1. Untouched(w) /\ In(w, conv)
          BY <2>7, <3>2, <4>1 DEF Untouched, In
        <5>2. \A k \in Numbers : k <= w.snd => k \in Unacked(w)
          BY <2>7, <3>2, HandshakeLimits DEF Numbers
        <5> QED
          BY <2>7, <2>12, <3>1, <5>1, <5>2, Takes
      <4>2. CASE c = s.conv_id
        BY <2>1, <2>7, <2>12, <4>2, GoesOn
      <4> QED
        BY <2>3, <4>1, <4>2
    <3>4. Bond(n, p, delivered, drawn, seen, u, t, out \o x, rest)
      BY <2>7, <2>11, <2>12, <3>3, Completion
    <3> QED
      BY <2>1, <3>4
  <2> QED
    BY <2>1, <2>10, <2>12, ArrivalDelivers
<1> QED
  BY <1>3, <1>4, <1>5

(* A peer without a session says the SYN of a new conversation. *)
LEMMA Strays ==
  ASSUME NEW n, NEW p, NEW dl, NEW D \in Nat, NEW S, NEW t, NEW C, NEW out \in Seq(C), NEW in,
         Bond(n, p, dl, D, S, None, t, out, in), NEW x \in Seq(C), \A k \in DOMAIN x : SynOf(x[k], D + 1),
         Unheard(out, D + 1), Unheard(in, D + 1), ~In(t, D + 1)
  PROVE  Bond(n, p, dl, D + 1, S, None, t, out \o x, in)
<1>1. PICK u : u = NewSession(D + 1, "SynSent")
  OBVIOUS
<1>2. /\ Untouched(u) /\ u.conv_id = D + 1 /\ Waiting(u) /\ Unacked(u) = 1..u.snd /\ u.snd \in Nat
      /\ u # None
  <2>1. D + 1 \in Nat /\ D + 1 \in 1..(D + 1) /\ 0 \in Nat
    OBVIOUS
  <2>2. Sound(u, D + 1, 0) /\ u.conv_id = D + 1 /\ u.state = "SynSent"
    BY <1>1, <2>1, NewIsSound
  <2>3. Untouched(u) /\ u.snd = 0 /\ Unacked(u) = {}
    BY <1>1, NewFacts
  <2> QED
    BY <2>1, <2>2, <2>3, SoundIsSession DEF Waiting
<1>3. Bond(n, p, dl, D + 1, S, u, t, out, in)
  BY <1>2, Begins
<1>4. Extended(out, x, out \o x) /\ DOMAIN out \subseteq Nat /\ DOMAIN (out \o x) \subseteq Nat
  BY ConcatExtended
<1>5. PICK more \in Seq(C) : more = out \o x
  BY ConcatProperties
<1>6. Bond(n, p, dl, D + 1, S, u, t, more, in)
  BY <1>2, <1>3, <1>4, <1>5, SaysSyn
<1>7. Extended(more, <<>>, more) /\ \A k \in DOMAIN <<>> : ResetOf(<<>>[k], u.conv_id)
  BY DEF Extended
<1>8. DOMAIN more \subseteq Nat \ {0} /\ (Waiting(t) => t.conv_id # u.conv_id)
  BY <1>2, LenProperties DEF In, Waiting
<1>9. Bond(n, p, dl, D + 1, S, None, t, more, in)
  BY <1>2, <1>6, <1>7, <1>8, Leaves
<1> QED
  BY <1>5, <1>9

LEMMA UnheardAhead ==
  ASSUME NEW D \in Nat, NEW q \in Seq(Datagram(1..D))
  PROVE  Unheard(q, D + 1)
<1>1. ASSUME NEW i \in DOMAIN q PROVE q[i][2] # D + 1
  <2>1. q[i] \in Datagram(1..D)
    BY LenProperties, ElementOfSeq
  <2>2. q[i][2] \in 1..D
    BY <2>1, Zenon DEF Datagram
  <2> QED
    BY <2>2
<1> QED
  BY <1>1 DEF Unheard

(* A session that send() has just registered is replaced: its SYN is all   *)
(* that is left of it.                                                     *)
LEMMA OverwriteDelivers ==
  ASSUME HInv, DInv, NEW n \in Nodes, NEW p \in Nodes, n # p, NEW in \in Arrivals(n, p),
         NEW conv, conv = in.buf[2], in.buf[1] = 1, RxSynOverwrites(n, p, in, conv)
  PROVE  DInv'
<1> DEFINE t == session[p][n]
<1>1. conv \in 1..drawn /\ conv \in Nat /\ drawn \in Nat /\ sends \in Nat
  <2>1. in.buf \in Datagram(1..drawn)
    BY ArrivalForm DEF HInv
  <2>2. in.buf[2] \in 1..drawn
    BY <2>1, Zenon DEF Datagram
  <2> QED
    BY <2>2, EntryFacts
<1>2. session[n][p] = None /\ UNCHANGED delivered /\ drawn' = drawn + 1
  BY DEF RxSynOverwrites
<1>3. PICK D \in Nat : D = drawn
  BY <1>1
<1>4. PICK syn : syn = encode_control("Syn", D + 1)
  OBVIOUS
<1>5. PICK syn_ack : syn_ack = encode_control("SynAck", conv)
  OBVIOUS
<1>6. PICK u : u = NewSession(conv, "Established")
  OBVIOUS
<1>7. PICK x \in {<<syn, syn_ack>>, <<syn_ack, syn>>} : Handles(n, p, in, u, "Connected", x)
  BY <1>1, <1>3, <1>4, <1>5, <1>6, OverwriteHandles
<1>8. /\ Untouched(u) /\ u.snd = 0 /\ u # None /\ ~Waiting(u) /\ In(u, conv) /\ u.rcv_nxt \in Numbers
      /\ \A k \in Numbers : k <= u.snd => k \in Unacked(u)
  <2>1. Sound(u, drawn, sends) /\ u.conv_id = conv /\ u.state = "Established"
    BY <1>1, <1>6, NewIsSound
  <2>2. Untouched(u) /\ u.snd = 0
    BY <1>6, NewFacts
  <2>3. u # None
    BY <1>1, <2>1, SoundIsSession
  <2> QED
    BY <2>1, <2>2, <2>3, HandshakeLimits DEF Waiting, In, Untouched, Numbers
<1>9. PICK s1 \in Seq(Datagram(1..(D + 1))) : s1 = <<syn>> /\ \A k \in DOMAIN s1 : SynOf(s1[k], D + 1)
  <2>1. syn \in Control(1, D + 1) /\ D + 1 \in 1..(D + 1)
    BY <1>4, ControlForm
  <2>2. <<syn>> \in Seq(Datagram(1..(D + 1)))
    BY <2>1, SayControl, 1 \in 1..3
  <2>3. syn[1] = 1 /\ syn[2] = D + 1 /\ DOMAIN <<syn>> = {1} /\ <<syn>>[1] = syn
    BY <2>1 DEF Control, Datagram
  <2> QED
    BY <2>2, <2>3 DEF SynOf
<1>10. PICK a1 \in Seq(Datagram(1..D)) : a1 = <<syn_ack>> /\ \A v : Tells(v, a1)
  <2>1. syn_ack \in Control(2, conv)
    BY <1>1, <1>5, ControlForm
  <2> QED
    BY <1>1, <1>3, <1>5, <2>1, SayControl, TellsControl, 2 \in 1..3
<1>11. x \in {s1 \o a1, a1 \o s1}
  BY <1>7, <1>9, <1>10, OneAndOne
<1>12. Seq(Datagram(1..D)) \subseteq Seq(Datagram(1..(D + 1)))
  BY EntriesGrow
<1>13. ~In(t, D + 1)
  BY <1>3, NothingAhead
<1>14. ASSUME NEW out \in Seq(Datagram(1..drawn)), NEW q \in Seq(Datagram(1..drawn)),
              NEW rest \in Seq(Datagram(1..drawn)), 1 \in DOMAIN q, DOMAIN q \subseteq Nat \ {0},
              in.buf = q[1], Behead(q, rest),
              Bond(n, p, delivered, drawn, seen, session[n][p], t, out, q)
       PROVE  Bond(n, p, delivered', drawn', seen, u, t, out \o x, rest)
  <2> DEFINE C == Datagram(1..(D + 1))
  <2>1. /\ Bond(n, p, delivered, D, seen, None, t, out, q) /\ out \in Seq(Datagram(1..D))
        /\ q \in Seq(Datagram(1..D))
    BY <1>2, <1>3, <1>14
  <2>2. Unheard(out, D + 1) /\ Unheard(q, D + 1)
    BY <2>1, UnheardAhead
  <2>3. out \in Seq(C) /\ s1 \in Seq(C) /\ a1 \in Seq(C)
    BY <1>9, <1>10, <1>12, <2>1
  <2> HIDE DEF t, C
  <2>4. PICK more \in Seq(C) : more = out \o x /\ Bond(n, p, delivered, D + 1, seen, None, t, more, q)
    <3>1. CASE x = s1 \o a1
      <4>1. Bond(n, p, delivered, D + 1, seen, None, t, out \o s1, q)
        BY <1>9, <1>13, <2>1, <2>2, <2>3, Strays
      <4>2. PICK mid \in Seq(C) : mid = out \o s1
        BY <2>3, ConcatProperties
      <4>3. Bond(n, p, delivered, D + 1, seen, None, t, mid \o a1, q)
        BY <1>10, <2>3, <4>1, <4>2, SaysMore
      <4>4. mid \o a1 = out \o x /\ mid \o a1 \in Seq(C)
        <5>1. Associate(out, s1, a1)
          BY <2>3, Association
        <5>2. mid \o a1 \in Seq(C)
          BY <2>3, ConcatProperties
        <5> QED
          BY <3>1, <4>2, <5>1, <5>2, Zenon DEF Associate
      <4> QED
        BY <4>3, <4>4
    <3>2. CASE x = a1 \o s1
      <4>1. PICK mid \in Seq(Datagram(1..D)) : mid = out \o a1
        BY <1>10, <2>1, ConcatProperties
      <4>2. Bond(n, p, delivered, D, seen, None, t, mid, q)
        BY <1>10, <2>1, <4>1, SaysMore
      <4>3. Unheard(mid, D + 1) /\ mid \in Seq(C)
        BY <1>12, UnheardAhead DEF C
      <4>4. Bond(n, p, delivered, D + 1, seen, None, t, mid \o s1, q)
        BY <1>9, <1>13, <2>2, <2>3, <4>2, <4>3, Strays
      <4>5. mid \o s1 = out \o x /\ mid \o s1 \in Seq(C)
        <5>1. Associate(out, a1, s1)
          BY <2>3, Association
        <5>2. mid \o s1 \in Seq(C)
          BY <2>3, <4>3, ConcatProperties
        <5> QED
          BY <3>2, <4>1, <5>1, <5>2, Zenon DEF Associate
      <4> QED
        BY <4>4, <4>5
    <3> QED
      BY <1>11, <3>1, <3>2
  <2>5. Bond(n, p, delivered, D + 1, seen, u, t, more, q)
    <3>1. SynOf(q[1], conv) /\ ~In(None, conv)
      BY <1>14, NoneIsQuiet DEF SynOf
    <3> QED
      BY <1>8, <1>14, <2>4, <3>1, Takes
  <2>6. Bond(n, p, delivered, D + 1, seen, u, t, more, rest)
    BY <1>8, <1>14, <2>5, Hears
  <2> QED
    BY <1>2, <1>3, <2>4, <2>6
<1>15. drawn' \in {drawn, drawn + 1} /\ delivered \subseteq delivered'
  BY <1>2
<1> QED
  BY <1>7, <1>14, <1>15, ArrivalsDeliver

LEMMA DeliverDelivers ==
  ASSUME HInv, DInv, NEW n \in Nodes, NEW p \in Nodes, n # p, Deliver(n, p)
  PROVE  DInv'
<1>1. PICK in \in Arrivals(n, p) : handle_incoming(n, p, in)
  BY DEF Deliver
<1>2. in.buf \in Datagram(1..drawn)
  BY ArrivalForm DEF HInv
<1>3. PICK pkt \in split_packet(in.buf) :
         LET conv == Head(pkt.payload)
         IN  \/ /\ pkt.typ = "KcpData"
                /\ RxDataOrphan(n, p, in, conv) \/ RxDataRefused(n, p, in, conv) \/ RxData(n, p, in, conv)
             \/ /\ pkt.typ = "Syn"
                /\ \/ RxSynCreate(n, p, in, conv) \/ RxSynOverwrites(n, p, in, conv)
                   \/ RxSynSame(n, p, in, conv) \/ RxSynSimultaneous(n, p, in, conv)
             \/ /\ pkt.typ = "SynAck"
                /\ RxSynAck(n, p, in, conv) \/ RxSynAckIgnored(n, p, in, conv)
             \/ /\ pkt.typ = "Reset"
                /\ RxReset(n, p, in, conv)
  BY <1>1 DEF handle_incoming
<1> DEFINE conv == Head(pkt.payload)
<1>4. conv = in.buf[2] /\ in.buf[1] = Byte[pkt.typ]
  BY <1>2, SplitForm
<1> HIDE DEF conv
<1>5. /\ pkt.typ = "KcpData" => in.buf[1] = 0
      /\ pkt.typ = "Syn" => in.buf[1] = 1
      /\ pkt.typ = "SynAck" => in.buf[1] = 2
      /\ pkt.typ = "Reset" => in.buf[1] = 3
  BY <1>4 DEF Byte
<1>6. CASE pkt.typ = "KcpData" /\ (RxDataOrphan(n, p, in, conv) \/ RxDataRefused(n, p, in, conv)
                                   \/ RxData(n, p, in, conv))
  BY <1>4, <1>5, <1>6, DataDelivers
<1>7. CASE pkt.typ = "Syn" /\ (RxSynCreate(n, p, in, conv) \/ RxSynSame(n, p, in, conv)
                               \/ RxSynSimultaneous(n, p, in, conv))
  BY <1>4, <1>5, <1>7, SynDelivers
<1>10. CASE pkt.typ = "Syn" /\ RxSynOverwrites(n, p, in, conv)
  BY <1>4, <1>5, <1>10, OverwriteDelivers
<1>8. CASE pkt.typ = "SynAck" /\ (RxSynAck(n, p, in, conv) \/ RxSynAckIgnored(n, p, in, conv))
  BY <1>4, <1>5, <1>8, SynAckDelivers
<1>9. CASE pkt.typ = "Reset" /\ RxReset(n, p, in, conv)
  BY <1>4, <1>5, <1>9, ResetDelivers
<1> QED
  BY <1>3, <1>6, <1>7, <1>8, <1>9, <1>10 DEF conv

-----------------------------------------------------------------------------
(* What a peer does of its own accord. *)

(* A session says segs and then that it is gone. *)
LEMMA LeavesAfter ==
  ASSUME NEW n, NEW p, NEW dl, NEW D, NEW S, NEW s, NEW t, NEW C, NEW out \in Seq(C), NEW in,
         Bond(n, p, dl, D, S, s, t, out, in), s # None, s.rcv_nxt \in Numbers,
         NEW segs \in Seq(C), Tells(s, segs),
         NEW reset \in Seq(C), 1 \in DOMAIN reset, \A k \in DOMAIN reset : ResetOf(reset[k], s.conv_id)
  PROVE  Bond(n, p, dl, D, S, None, t, out \o (segs \o reset), in)
<1>1. (out \o segs) \o reset = out \o (segs \o reset)
  BY ConcatAssociative, SMT
<1>2. PICK mid \in Seq(C) : mid = out \o segs
  BY ConcatProperties
<1>3. PICK more \in Seq(C) : more = mid \o reset
  BY ConcatProperties
<1>4. Bond(n, p, dl, D, S, s, t, mid, in)
  BY <1>2, SaysMore
<1>5. Extended(mid, reset, more)
  BY <1>3, ConcatExtended
<1>6. DOMAIN mid \subseteq Nat \ {0} /\ DOMAIN more \subseteq Nat \ {0}
  BY LenProperties
<1>7. \E m \in DOMAIN more : m \notin DOMAIN mid
  <2>1. Len(mid) + 1 \in DOMAIN more
    BY <1>3, ConcatIndices
  <2>2. DOMAIN mid = 1..Len(mid) /\ Len(mid) \in Nat
    BY LenProperties
  <2> QED
    BY <2>1, <2>2
<1>8. Bond(n, p, dl, D, S, None, t, more, in)
  BY <1>4, <1>5, <1>6, <1>7, Leaves
<1> QED
  BY <1>1, <1>2, <1>3, <1>8

(* A session goes, after segs, and says so. *)
LEMMA TeardownDelivers ==
  ASSUME HInv, DInv, NEW n \in Nodes, NEW p \in Nodes, n # p, session[n][p] # None,
         NEW segs \in Seq(Datagram(1..drawn)), Tells(session[n][p], segs),
         NEW disturbance, disturbance \cap {"loss", "crash"} = {}, Teardown(n, p, segs, disturbance)
  PROVE  DInv'
<1> DEFINE s == session[n][p]
           t == session[p][n]
<1>1. s.conv_id \in 1..drawn /\ s.conv_id \in Nat /\ s.rcv_nxt \in Numbers
  BY SessionFacts
<1>2. PICK reset : reset = <<encode_control("Reset", s.conv_id)>>
  OBVIOUS
<1>3. Act(n, p, None, "Disconnected", segs \o reset, disturbance) /\ drawn' = drawn
  BY <1>2 DEF Teardown
<1>4. /\ reset \in Seq(Datagram(1..drawn)) /\ 1 \in DOMAIN reset
      /\ \A k \in DOMAIN reset : ResetOf(reset[k], s.conv_id)
  <2>1. PICK e : e = encode_control("Reset", s.conv_id)
    OBVIOUS
  <2>2. e \in Control(3, s.conv_id)
    BY <1>1, <2>1, ControlForm
  <2>3. <<e>> \in Seq(Datagram(1..drawn))
    BY <1>1, <2>2, SayControl, 3 \in 1..3
  <2>4. e[1] = 3 /\ e[2] = s.conv_id /\ DOMAIN <<e>> = {1} /\ <<e>>[1] = e
    BY <2>2 DEF Control, Datagram
  <2> QED
    BY <1>2, <2>1, <2>3, <2>4 DEF ResetOf
<1>5. ASSUME NEW out \in Seq(Datagram(1..drawn)), NEW q \in Seq(Datagram(1..drawn)),
             Bond(n, p, delivered, drawn, seen, s, t, out, q)
      PROVE  Bond(n, p, delivered, drawn', seen, None, t, out \o (segs \o reset), q)
  <2> HIDE DEF t
  <2>1. Bond(n, p, delivered, drawn, seen, None, t, out \o (segs \o reset), q)
    BY <1>1, <1>4, <1>5, LeavesAfter
  <2> QED
    BY <1>3, <2>1
<1>6. segs \o reset \in Seq(Datagram(1..drawn))
  BY <1>4, ConcatProperties
<1>7. Acts(n, p, None, "Disconnected", segs \o reset, disturbance) /\ drawn' \in {drawn, drawn + 1}
  BY <1>3, <1>6, ActActs
<1> QED
  BY <1>5, <1>7, ActDelivers

(* A session goes on as w, which says x and is then u. *)
LEMMA OwnActDelivers ==
  ASSUME HInv, DInv, NEW n \in Nodes, NEW p \in Nodes, n # p, session[n][p] # None,
         NEW w, w # None, w.conv_id = session[n][p].conv_id,
         w.rcv_nxt = session[n][p].rcv_nxt, w.rcv_buf = session[n][p].rcv_buf,
         w.acks = session[n][p].acks,
         \A k \in Numbers : (k <= w.snd /\ k \notin Unacked(w)) =>
             (k <= session[n][p].snd /\ k \notin Unacked(session[n][p])),
         Waiting(w) => Waiting(session[n][p]),
         Unacked(session[n][p]) = 1..session[n][p].snd => Unacked(w) = 1..w.snd,
         NEW u, u # None, u.conv_id = w.conv_id, u.rcv_nxt = w.rcv_nxt, u.rcv_buf = w.rcv_buf,
         u.acks \subseteq w.acks, u.snd = w.snd, Unacked(u) = Unacked(w), Waiting(u) => Waiting(w),
         NEW x \in Seq(Datagram(1..drawn)),
         Tells(w, x) \/ (Waiting(w) /\ \A k \in DOMAIN x : SynOf(x[k], w.conv_id)),
         NEW event, NEW disturbance, disturbance \cap {"loss", "crash"} = {},
         Acts(n, p, u, event, x, disturbance), drawn' = drawn
  PROVE  DInv'
<1> DEFINE s == session[n][p]
           t == session[p][n]
<1>1. s.rcv_nxt \in Numbers /\ s # None
  BY SessionFacts
<1>2. ASSUME NEW out \in Seq(Datagram(1..drawn)), NEW q \in Seq(Datagram(1..drawn)),
             Bond(n, p, delivered, drawn, seen, s, t, out, q)
      PROVE  Bond(n, p, delivered, drawn', seen, u, t, out \o x, q)
  <2>1. Waiting(s) => Unacked(s) = 1..s.snd
    BY <1>2 DEF Bond, Half, Sheltered, Lone
  <2>2. /\ w.conv_id = s.conv_id /\ w.rcv_nxt = s.rcv_nxt /\ w.rcv_buf = s.rcv_buf
        /\ w.acks \subseteq s.acks /\ (Waiting(w) => Waiting(s) /\ Unacked(w) = 1..w.snd)
        /\ \A k \in Numbers : (k <= w.snd /\ k \notin Unacked(w)) => (k <= s.snd /\ k \notin Unacked(s))
    BY <2>1
  <2> HIDE DEF s, t
  <2>3. Bond(n, p, delivered, drawn, seen, w, t, out, q)
    BY <1>1, <1>2, <2>2, GoesOn
  <2>4. Extended(out, x, out \o x) /\ DOMAIN out \subseteq Nat /\ DOMAIN (out \o x) \subseteq Nat
    BY ConcatExtended
  <2>5. PICK more : more = out \o x
    OBVIOUS
  <2>6. Bond(n, p, delivered, drawn, seen, w, t, more, q)
    <3>1. CASE Tells(w, x)
      BY <1>1, <2>2, <2>3, <2>4, <2>5, <3>1, Says
    <3>2. CASE Waiting(w) /\ \A k \in DOMAIN x : SynOf(x[k], w.conv_id)
      BY <2>3, <2>4, <2>5, <3>2, SaysSyn
    <3> QED
      BY <3>1, <3>2
  <2>7. Bond(n, p, delivered, drawn, seen, u, t, more, q)
    BY <2>2, <2>6, GoesOn
  <2> QED
    BY <2>5, <2>7
<1>3. drawn' \in {drawn, drawn + 1}
  OBVIOUS
<1> QED
  BY <1>2, <1>3, ActDelivers

LEMMA SendDataDelivers ==
  ASSUME HInv, DInv, NEW n \in Nodes, NEW p \in Nodes, n # p, SendData(n, p)
  PROVE  DInv'
<1> DEFINE s == session[n][p]
<1>1. s # None /\ sends + 1 <= MaxSends /\ drawn' = drawn
  BY EntryFacts, HandshakeLimits DEF SendData
<1>2. /\ Sound(s, drawn, sends) /\ s \in Records(drawn) /\ drawn \in Nat /\ sends \in Nat
      /\ s.snd \in Nat
  <2>1. Sound(s, drawn, sends) /\ s \in Records(drawn) /\ drawn \in Nat /\ sends \in Nat
    BY <1>1, SessionFacts
  <2> QED
    BY <2>1, HandshakeLimits DEF Records
<1>3. PICK w : w = Queue(s)
  OBVIOUS
<1>4. /\ Sound(w, drawn, sends + 1)
      /\ w.conv_id = s.conv_id /\ w.state = s.state
      /\ w.snd \in Unacked(w) /\ w.snd_buf[w.snd] = 0
  BY <1>1, <1>2, <1>3, QueueIsSound
<1>5. /\ w.rcv_nxt = s.rcv_nxt /\ w.rcv_buf = s.rcv_buf /\ w.acks = s.acks
      /\ w.snd = s.snd + 1 /\ Unacked(w) = Unacked(s) \cup {s.snd + 1}
  BY <1>2, <1>3, QueueFacts
<1>6. \A k \in Numbers : (k <= w.snd /\ k \notin Unacked(w)) => (k <= s.snd /\ k \notin Unacked(s))
  BY <1>2, <1>5 DEF Numbers
<1>7. Unacked(s) = 1..s.snd => Unacked(w) = 1..w.snd
  BY <1>2, <1>5
<1>8. w # None /\ w \in Records(drawn) /\ (Waiting(w) => Waiting(s)) /\ sends + 1 \in Nat
  BY <1>1, <1>2, <1>4, SoundIsSession DEF Waiting, Sound
<1>9. CASE s.state = "Established"
  <2>1. PICK u : u = Flushed(w, {w.snd})
    OBVIOUS
  <2>2. PICK x : x = Segments(w, {w.snd})
    OBVIOUS
  <2>3. Act(n, p, u, told[n][p], x, {})
    BY <1>3, <1>9, <2>1, <2>2 DEF SendData
  <2>4. Sound(u, drawn, sends + 1) /\ u.conv_id = w.conv_id /\ u.state = "Established"
    <3>1. \A sn \in Unacked(w) : sn \in {w.snd} => w.snd_buf[sn] + 1 < DeadLink
      BY <1>4, HandshakeLimits
    <3> QED
      BY <1>2, <1>4, <1>8, <1>9, <2>1, <3>1, FlushedIsSound
  <2>5. /\ u.rcv_nxt = w.rcv_nxt /\ u.rcv_buf = w.rcv_buf /\ u.acks = {}
        /\ u.snd = w.snd /\ Unacked(u) = Unacked(w)
    BY <1>8, <2>1, FlushedFacts
  <2>6. {w.snd} \in SUBSET (1..MaxSends)
    <3>1. w.snd_buf \in Buffers
      BY <1>4 DEF Sound, Records
    <3> QED
      BY <1>4, <3>1, BufferForm DEF Unacked
  <2>7. x \in Seq(Datagram(1..drawn)) /\ Tells(w, x)
    BY <1>2, <1>4, <1>8, <1>9, <2>2, <2>6, FlushTells
  <2>8. u # None /\ ~Waiting(u) /\ u.acks \subseteq w.acks
    BY <1>2, <2>4, <2>5, SoundIsSession DEF Waiting
  <2>9. {} \cap {"loss", "crash"} = {}
    OBVIOUS
  <2>10. Acts(n, p, u, told[n][p], x, {})
    BY <1>1, <2>3, <2>7, ActActs
  <2> QED
    BY <1>1, <1>4, <1>5, <1>6, <1>7, <1>8, <2>10, <2>4, <2>5, <2>7, <2>8, <2>9, OwnActDelivers
<1>10. CASE s.state # "Established"
  <2>1. Act(n, p, w, told[n][p], <<>>, {})
    BY <1>3, <1>10 DEF SendData
  <2>2. <<>> \in Seq(Datagram(1..drawn)) /\ Tells(w, <<>>) /\ w.acks \subseteq w.acks
    BY DEF Tells
  <2>3. {} \cap {"loss", "crash"} = {}
    OBVIOUS
  <2>4. Acts(n, p, w, told[n][p], <<>>, {})
    BY <1>1, <2>1, <2>2, ActActs
  <2> QED
    BY <1>1, <1>4, <1>5, <1>6, <1>7, <1>8, <2>4, <2>2, <2>3, OwnActDelivers
<1> QED
  BY <1>9, <1>10

LEMMA FlushDelivers ==
  ASSUME HInv, DInv, NEW n \in Nodes, NEW p \in Nodes, n # p, Est(session[n][p]),
         NEW sns \in SUBSET Unacked(session[n][p]),
         \A sn \in sns : session[n][p].snd_buf[sn] + 1 < DeadLink,
         Act(n, p, Flushed(session[n][p], sns), told[n][p], Segments(session[n][p], sns), {}),
         drawn' = drawn
  PROVE  DInv'
<1> DEFINE s == session[n][p]
<1>1. /\ Sound(s, drawn, sends) /\ s \in Records(drawn) /\ drawn \in Nat /\ sends \in Nat
      /\ s # None /\ s.state = "Established"
  BY SessionFacts DEF Est
<1>2. sns \in SUBSET (1..MaxSends)
  <2>1. s.snd_buf \in Buffers
    BY <1>1 DEF Records
  <2> QED
    BY <2>1, BufferForm DEF Unacked
<1>3. PICK u : u = Flushed(s, sns)
  OBVIOUS
<1>4. PICK x : x = Segments(s, sns)
  OBVIOUS
<1>5. Sound(u, drawn, sends) /\ u.conv_id = s.conv_id /\ u.state = "Established"
  BY <1>1, <1>3, FlushedIsSound
<1>6. /\ u.rcv_nxt = s.rcv_nxt /\ u.rcv_buf = s.rcv_buf /\ u.acks = {}
      /\ u.snd = s.snd /\ Unacked(u) = Unacked(s)
  BY <1>1, <1>3, FlushedFacts
<1>7. x \in Seq(Datagram(1..drawn)) /\ Tells(s, x)
  BY <1>1, <1>2, <1>4, FlushTells
<1>8. u # None /\ ~Waiting(u) /\ u.acks \subseteq s.acks
  BY <1>1, <1>5, <1>6, SoundIsSession DEF Waiting
<1>9. Acts(n, p, u, told[n][p], x, {}) /\ {} \cap {"loss", "crash"} = {}
  <2>1. Act(n, p, u, told[n][p], x, {})
    BY <1>3, <1>4
  <2> QED
    BY <1>7, <2>1, ActActs
<1> QED
  BY <1>1, <1>5, <1>6, <1>7, <1>8, <1>9, OwnActDelivers

LEMMA RetrySynDelivers ==
  ASSUME HInv, DInv, NEW n \in Nodes, NEW p \in Nodes, n # p, RetrySyn(n, p)
  PROVE  DInv'
<1> DEFINE s == session[n][p]
<1>1. PICK w : w = [s EXCEPT !.syn_retries = s.syn_retries + 1]
  OBVIOUS
<1>2. PICK e : e = encode_control("Syn", s.conv_id)
  OBVIOUS
<1>3. /\ s # None /\ s.state = "SynSent" /\ drawn' = drawn
      /\ Do(n, p, w, told[n][p], <<>>, unsent[n][p] \o Awaiting("update", e), {"retry"})
  BY <1>1, <1>2 DEF RetrySyn
<1>4. s \in Records(drawn) /\ s.conv_id \in 1..drawn /\ s.conv_id \in Nat
  BY <1>3, SessionFacts
<1>5. /\ w.conv_id = s.conv_id /\ w.state = s.state /\ w.rcv_nxt = s.rcv_nxt
      /\ w.rcv_buf = s.rcv_buf /\ w.acks = s.acks /\ w.snd = s.snd /\ w.snd_buf = s.snd_buf
  BY <1>1, <1>4 DEF Records
<1>6. w # None /\ Waiting(w) /\ Waiting(s) /\ Unacked(w) = Unacked(s) /\ w.acks \subseteq w.acks
  <2>1. Sound(s, drawn, sends) /\ drawn \in Nat /\ sends \in Nat /\ sends <= MaxSends
    BY <1>3, EntryFacts
  <2>2. s.syn_retries \in 0..SynMaxRetries /\ s.syn_retries < SynMaxRetries
    BY <1>4 DEF Records, RetrySyn
  <2>3. s.syn_retries + 1 \in 0..SynMaxRetries
    BY <2>2, HandshakeLimits
  <2>4. w \in Records(drawn)
    BY <1>1, <1>4, <2>3 DEF Records
  <2>5. Sound(w, drawn, sends)
    BY <1>5, <2>1, <2>4 DEF Sound, Unacked
  <2> QED
    BY <1>3, <1>5, <2>1, <2>5, SoundIsSession DEF Waiting, Unacked
<1>7. e \in Control(1, s.conv_id)
  BY <1>2, <1>4, ControlForm
<1>8. PICK x : x = <<e>>
  OBVIOUS
<1>9. x \in Seq(Datagram(1..drawn)) /\ \A k \in DOMAIN x : SynOf(x[k], w.conv_id)
  <2>1. <<e>> \in Seq(Datagram(1..drawn))
    BY <1>4, <1>7, SayControl, 1 \in 1..3
  <2>2. e[1] = 1 /\ e[2] = s.conv_id /\ DOMAIN <<e>> = {1} /\ <<e>>[1] = e
    BY <1>7 DEF Control, Datagram
  <2> QED
    BY <1>5, <1>8, <2>1, <2>2 DEF SynOf
<1>10. {"retry"} \cap {"loss", "crash"} = {} /\ Acts(n, p, w, told[n][p], x, {"retry"})
  <2>1. drawn \in Nat /\ drawn <= drawn /\ "update" \in Tasks
    BY <1>3, SessionFacts DEF Tasks
  <2>2. e \in Datagram(1..drawn)
    BY <1>4, <1>7, <2>1, Spoken
  <2>3. PICK D \in Nat : D = drawn
    BY <2>1
  <2>4. Acts(n, p, w, told[n][p], <<e>>, {"retry"})
    BY <1>3, <2>1, <2>2, <2>3, DoHeldActs
  <2> QED
    BY <1>8, <2>4
<1> QED
  BY <1>3, <1>5, <1>6, <1>9, <1>10, OwnActDelivers

LEMMA VisitDelivers ==
  ASSUME HInv, DInv, NEW n \in Nodes, NEW p \in Nodes, n # p,
         UpdateVisit(n, p) \/ Disconnect(n, p) \/ Idle(n, p)
  PROVE  DInv'
<1> DEFINE s == session[n][p]
<1>1. CASE RetrySyn(n, p)
  BY <1>1, RetrySynDelivers
<1>2. CASE Abandon(n, p) \/ Disconnect(n, p) \/ Idle(n, p)
  <2>1. PICK disturbance \in {{}, {"close"}} : s # None /\ Teardown(n, p, <<>>, disturbance)
    BY <1>2 DEF Abandon, Disconnect, Idle
  <2>2. /\ <<>> \in Seq(Datagram(1..drawn)) /\ Tells(s, <<>>)
        /\ disturbance \cap {"loss", "crash"} = {}
    BY DEF Tells
  <2> QED
    BY <2>1, <2>2, TeardownDelivers
<1>3. CASE FlushAcks(n, p)
  <2>1. {} \in SUBSET Unacked(s) /\ \A sn \in {} : s.snd_buf[sn] + 1 < DeadLink
    OBVIOUS
  <2> QED
    BY <1>3, <2>1, FlushDelivers DEF FlushAcks, Est
<1>4. ASSUME NEW sn \in 1..MaxSends, Resend(n, p, sn) PROVE DInv'
  <2>1. {sn} \in SUBSET Unacked(s) /\ \A k \in {sn} : s.snd_buf[k] + 1 < DeadLink
    BY <1>4 DEF Resend
  <2> QED
    BY <1>4, <2>1, FlushDelivers DEF Resend, Est
<1>5. ASSUME NEW sn \in 1..MaxSends, GiveUp(n, p, sn) PROVE DInv'
  <2>1. PICK segs : segs = Segments(s, {sn})
    OBVIOUS
  <2>2. s # None /\ s.state = "Established" /\ Teardown(n, p, segs, {})
    BY <1>5, <2>1 DEF GiveUp
  <2>3. segs \in Seq(Datagram(1..drawn)) /\ Tells(s, segs)
    <3>1. Sound(s, drawn, sends) /\ drawn \in Nat /\ sends \in Nat /\ {sn} \in SUBSET (1..MaxSends)
      BY <2>2, SessionFacts
    <3> QED
      BY <2>1, <2>2, <3>1, FlushTells
  <2>4. {} \cap {"loss", "crash"} = {}
    OBVIOUS
  <2> QED
    BY <2>2, <2>3, <2>4, TeardownDelivers
<1> QED
  BY <1>1, <1>2, <1>3, <1>4, <1>5 DEF UpdateVisit

LEMMA SendConnectDelivers ==
  ASSUME HInv, DInv, NEW n \in Nodes, NEW p \in Nodes, n # p, SendConnect(n, p)
  PROVE  DInv'
<1> DEFINE t == session[p][n]
<1>1. drawn \in Nat /\ sends \in Nat /\ session[n][p] = None
  BY EntryFacts DEF SendConnect
<1>2. PICK D \in Nat : D = drawn + 1
  BY <1>1
<1>3. PICK u : u = NewSession(D, "SynSent")
  OBVIOUS
<1>4. PICK e : e = encode_control("Syn", D)
  OBVIOUS
<1>5. PICK x : x = <<e>>
  OBVIOUS
<1>6. Acts(n, p, u, told[n][p], x, {}) /\ drawn' = D
  BY <1>2, <1>3, <1>4, <1>5, ConnectActs
<1>7. Sound(u, D, sends) /\ u.conv_id = D /\ u.state = "SynSent"
  BY <1>1, <1>2, <1>3, NewIsSound
<1>8. Untouched(u) /\ u.snd = 0 /\ Unacked(u) = {}
  BY <1>3, NewFacts
<1>9. Waiting(u) /\ Unacked(u) = 1..u.snd /\ u.snd \in Nat
  BY <1>7, <1>8, SoundIsSession DEF Waiting
<1>10. /\ x \in Seq(Datagram(1..D)) /\ \A k \in DOMAIN x : SynOf(x[k], u.conv_id)
  <2>1. e \in Control(1, D) /\ D \in 1..D
    BY <1>1, <1>2, <1>4, ControlForm
  <2>2. <<e>> \in Seq(Datagram(1..D))
    BY <2>1, SayControl, 1 \in 1..3
  <2>3. e[1] = 1 /\ e[2] = D /\ DOMAIN <<e>> = {1} /\ <<e>>[1] = e
    BY <2>1 DEF Control, Datagram
  <2> QED
    BY <1>5, <1>7, <2>2, <2>3 DEF SynOf
<1>11. Seq(Datagram(1..drawn)) \subseteq Seq(Datagram(1..D))
  BY <1>1, <1>2, EntriesGrow
<1>12. Unheard(link[n][p], drawn + 1) /\ Unheard(link[p][n], drawn + 1) /\ ~In(t, drawn + 1)
  BY NothingAhead
<1>13. ASSUME NEW out \in Seq(Datagram(1..drawn)), NEW q \in Seq(Datagram(1..drawn)),
              out = link[n][p], q = link[p][n],
              Bond(n, p, delivered, drawn, seen, session[n][p], t, out, q)
       PROVE  Bond(n, p, delivered, drawn', seen, u, t, out \o x, q)
  <2>1. Bond(n, p, delivered, drawn, seen, None, t, out, q)
    BY <1>1, <1>13
  <2>2. Unheard(out, drawn + 1) /\ Unheard(q, drawn + 1) /\ u.conv_id = drawn + 1
    BY <1>2, <1>7, <1>12, <1>13
  <2>3. PICK C \in Nat : C = drawn
    BY <1>1
  <2> HIDE DEF t
  <2>4. Bond(n, p, delivered, C + 1, seen, u, t, out, q)
    BY <1>8, <1>9, <1>12, <2>1, <2>2, <2>3, Begins
  <2>5. Extended(out, x, out \o x) /\ DOMAIN out \subseteq Nat /\ DOMAIN (out \o x) \subseteq Nat
    BY <1>10, <1>11, ConcatExtended
  <2>6. PICK more : more = out \o x
    OBVIOUS
  <2>7. Bond(n, p, delivered, C + 1, seen, u, t, more, q)
    BY <1>9, <1>10, <2>4, <2>5, <2>6, SaysSyn
  <2> QED
    BY <1>2, <1>6, <2>3, <2>6, <2>7
<1>14. {} \cap {"loss", "crash"} = {} /\ drawn' \in {drawn, drawn + 1}
  BY <1>2, <1>6
<1> QED
  BY <1>6, <1>13, <1>14, ActDelivers

-----------------------------------------------------------------------------
(* The environment. *)

(* The first fault, elsewhere. *)
LEMMA FaultElsewhere ==
  ASSUME NEW n, NEW p, NEW dl, NEW D, NEW S, NEW s, NEW t, NEW out, NEW in,
         Bond(n, p, dl, D, S, s, t, out, in), "loss" \notin S
  PROVE  /\ "crash" \notin S => Bond(n, p, dl, D, S \cup {"loss"}, s, t, out, in)
         /\ Bond(n, p, dl, D, S \cup {"crash"}, s, t, out, in)
<1>1. Sheltered(S, s, t, out, in) /\ Sheltered(S, t, s, in, out)
  BY DEF Bond, Half
<1>2. ASSUME NEW Z, Sheltered(Z, s, t, out, in), Sheltered(Z, t, s, in, out)
      PROVE  Bond(n, p, dl, D, Z, s, t, out, in)
  BY <1>2 DEF Bond, Half
<1>3. ASSUME NEW a, NEW b, NEW x, NEW y, Sheltered(S, a, b, x, y)
      PROVE  /\ "crash" \notin S => Sheltered(S \cup {"loss"}, a, b, x, y)
             /\ Sheltered(S \cup {"crash"}, a, b, x, y)
  <2>1. /\ "loss" \in S \cup {"loss"} /\ "loss" \notin S \cup {"crash"}
        /\ "crash" \in S \cup {"crash"}
    OBVIOUS
  <2> QED
    BY <1>3, <2>1 DEF Sheltered
<1> QED
  BY <1>1, <1>2, <1>3

LEMMA LoseDelivers ==
  ASSUME HInv, DInv, NEW n \in Nodes, NEW p \in Nodes, n # p, NEW i \in DOMAIN net[n][p],
         Lose(n, p, i)
  PROVE  DInv'
<1>1. PICK q \in Seq(Datagram(1..drawn)) : q = link[n][p]
  BY DEF HInv, VariablesOK
<1>2. PICK out \in Seq(Datagram(1..drawn)) : out = link[p][n]
  BY DEF HInv, VariablesOK
<1>3. PICK left : left = RemoveAt(q, i)
  OBVIOUS
<1>4. /\ link' = [link EXCEPT ![n][p] = left] /\ seen' = seen \cup {"loss"} /\ "loss" \notin seen
      /\ session' = session /\ drawn' = drawn /\ delivered' = delivered /\ i \in DOMAIN q
  BY <1>1, <1>3, LoseLinks DEF Pending
<1>5. \A a, b \in Nodes : link'[a][b] = IF a = n /\ b = p THEN left ELSE link[a][b]
  <2>1. PICK X : link \in [Nodes -> [Nodes -> X]]
    BY DEF HInv, VariablesOK
  <2> QED
    BY <1>4, <2>1
<1> SUFFICES ASSUME Clean', NEW a \in Nodes, NEW b \in Nodes, a # b
             PROVE  Bond(a, b, delivered, drawn, seen \cup {"loss"}, session[a][b], session[b][a],
                         link'[a][b], link'[b][a])
  BY <1>4 DEF DInv, BondOf
<1>6. Clean /\ Orderly /\ "crash" \notin seen
  BY <1>4 DEF Clean, Orderly
<1>7. Bond(a, b, delivered, drawn, seen, session[a][b], session[b][a], link[a][b], link[b][a])
  BY <1>6 DEF DInv, BondOf
<1>8. Bond(p, n, delivered, drawn, seen \cup {"loss"}, session[p][n], session[n][p], out, left)
  <2>1. Bond(p, n, delivered, drawn, seen, session[p][n], session[n][p], out, q)
    BY <1>1, <1>2, <1>6 DEF DInv, BondOf
  <2>2. /\ Waiting(session[p][n]) => DataWaits(q, session[p][n].conv_id)
        /\ Waiting(session[n][p]) => DataWaits(out, session[n][p].conv_id)
    BY <1>1, <1>2, <1>6 DEF HInv, HandshakesGuarded, GuardedPair, Guarded
  <2>3. PICK L \in Nat : /\ DOMAIN q = 1..L /\ DOMAIN left = 1..(L - 1)
                         /\ \A k \in DOMAIN left : left[k] = IF k < i THEN q[k] ELSE q[k + 1]
    BY <1>3, <1>4, RemoveAtIndices
  <2>4. PICK M \in Nat : DOMAIN out = 1..M
    BY LenProperties
  <2>5. i \in DOMAIN q /\ seen \cap {"loss", "crash"} = {}
    BY <1>1, <1>4, <1>6
  <2> QED
    BY <2>1, <2>2, <2>3, <2>4, <2>5, Loses
<1>9. Bond(n, p, delivered, drawn, seen \cup {"loss"}, session[n][p], session[p][n], left, out)
  BY <1>8, BondIsMutual
<1>10. CASE a = n /\ b = p
  <2>1. link'[a][b] = left /\ link'[b][a] = out
    BY <1>2, <1>5, <1>10
  <2> QED
    BY <1>9, <1>10, <2>1
<1>11. CASE a = p /\ b = n
  <2>1. link'[a][b] = out /\ link'[b][a] = left
    BY <1>2, <1>5, <1>11
  <2> QED
    BY <1>8, <1>11, <2>1
<1>12. CASE ~(a = n /\ b = p) /\ ~(a = p /\ b = n)
  <2>1. link'[a][b] = link[a][b] /\ link'[b][a] = link[b][a]
    BY <1>5, <1>12
  <2> QED
    BY <1>4, <1>6, <1>7, <2>1, FaultElsewhere
<1> QED
  BY <1>10, <1>11, <1>12

LEMMA CrashDelivers ==
  ASSUME HInv, DInv, NEW n \in Nodes, Crash(n)
  PROVE  DInv'
<1>1. /\ session' = [session EXCEPT ![n] = [p \in Nodes |-> None]]
      /\ drawn' = drawn /\ delivered' = delivered
      /\ seen \cup {"crash"} \subseteq seen' /\ seen' \subseteq seen \cup {"crash", "late"}
      /\ "late" \notin seen' => link' = link
  BY CrashLinks
<1>8. Clean' => seen' = seen \cup {"crash"} /\ link' = link
  BY <1>1 DEF Clean
<1>2. \A a, b \in Nodes : session'[a][b] = IF a = n THEN None ELSE session[a][b]
  BY <1>1 DEF HInv, VariablesOK
<1> SUFFICES ASSUME Clean', NEW a \in Nodes, NEW b \in Nodes, a # b
             PROVE  Bond(a, b, delivered, drawn, seen \cup {"crash"}, session'[a][b], session'[b][a],
                         link[a][b], link[b][a])
  BY <1>1, <1>8 DEF DInv, BondOf
<1>3. Clean /\ "loss" \notin seen
  BY <1>1 DEF Clean
<1>4. /\ Bond(a, b, delivered, drawn, seen, session[a][b], session[b][a], link[a][b], link[b][a])
      /\ Bond(b, a, delivered, drawn, seen, session[b][a], session[a][b], link[b][a], link[a][b])
  BY <1>3 DEF DInv, BondOf
<1>5. CASE a = n
  <2>1. session'[a][b] = None /\ session'[b][a] = session[b][a]
    BY <1>2, <1>5
  <2> QED
    BY <1>3, <1>4, <2>1, Forgets
<1>6. CASE b = n
  <2>1. session'[a][b] = session[a][b] /\ session'[b][a] = None
    BY <1>2, <1>6
  <2>2. Bond(b, a, delivered, drawn, seen \cup {"crash"}, None, session[a][b], link[b][a], link[a][b])
    BY <1>3, <1>4, Forgets
  <2> QED
    BY <2>1, <2>2, BondIsMutual
<1>7. CASE a # n /\ b # n
  <2>1. session'[a][b] = session[a][b] /\ session'[b][a] = session[b][a]
    BY <1>2, <1>7
  <2> QED
    BY <1>3, <1>4, <2>1, FaultElsewhere
<1> QED
  BY <1>5, <1>6, <1>7

(* What was about to be sent is sent in its turn, or the step is not Clean. *)
LEMMA TransmitDelivers ==
  ASSUME HInv, DInv, NEW n \in Nodes, NEW p \in Nodes, NEW i \in DOMAIN unsent[n][p], Transmit(n, p, i)
  PROVE  DInv'
<1>1. /\ UNCHANGED <<session, drawn, delivered>> /\ seen \subseteq seen' /\ seen' \subseteq seen \cup {"late"}
      /\ "late" \notin seen' => link' = link
  BY TransmitLinks
<1>2. Clean' => Clean /\ seen' = seen /\ link' = link
  BY <1>1 DEF Clean
<1> QED
  BY <1>1, <1>2 DEF DInv, BondOf

-----------------------------------------------------------------------------

LEMMA InitDelivers == Init => DInv
<1> SUFFICES ASSUME Init, NEW n \in Nodes, NEW p \in Nodes
             PROVE  BondOf(n, p)
  BY DEF DInv
<1>1. /\ session[n][p] = None /\ session[p][n] = None
      /\ link[n][p] = <<>> /\ link[p][n] = <<>> /\ drawn = 0
  BY InitLinks DEF Init
<1>2. ~Waiting(None) /\ DOMAIN <<>> = {} /\ 1..0 = {}
  BY NoneIsQuiet
<1>3. Bond(n, p, delivered, 0, seen, None, None, <<>>, <<>>)
  BY <1>2 DEF Bond, Half, Sheltered, Lone
<1> QED
  BY <1>1, <1>3 DEF BondOf

LEMMA StepsDeliver ==
  ASSUME HInv, DInv, [Next]_vars
  PROVE  DInv'
<1>1. ASSUME NEW np \in Pairs,
             LET n == np[1]
                 p == np[2]
             IN  \/ Deliver(n, p)
                 \/ SendConnect(n, p) \/ SendData(n, p) \/ Disconnect(n, p)
                 \/ UpdateVisit(n, p) \/ Idle(n, p)
                 \/ \E i \in DOMAIN unsent[n][p] : Transmit(n, p, i)
                 \/ \E i \in DOMAIN net[n][p] : Lose(n, p, i)
      PROVE  DInv'
  <2>1. PICK n \in Nodes, p \in Nodes : n # p /\ np[1] = n /\ np[2] = p
    BY DEF Pairs
  <2>2. CASE Deliver(n, p)
    BY <2>1, <2>2, DeliverDelivers
  <2>3. CASE SendConnect(n, p)
    BY <2>1, <2>3, SendConnectDelivers
  <2>4. CASE SendData(n, p)
    BY <2>1, <2>4, SendDataDelivers
  <2>5. CASE UpdateVisit(n, p) \/ Disconnect(n, p) \/ Idle(n, p)
    BY <2>1, <2>5, VisitDelivers
  <2>6. ASSUME NEW i \in DOMAIN net[n][p], Lose(n, p, i) PROVE DInv'
    BY <2>1, <2>6, LoseDelivers
  <2>7. ASSUME NEW i \in DOMAIN unsent[n][p], Transmit(n, p, i) PROVE DInv'
    BY <2>7, TransmitDelivers
  <2> QED
    BY <1>1, <2>1, <2>2, <2>3, <2>4, <2>5, <2>6, <2>7
<1>2. ASSUME NEW n \in Nodes, Crash(n) PROVE DInv'
  BY <1>2, CrashDelivers
<1>3. CASE UNCHANGED vars
  <2>1. link' = link
    BY <1>3, LinkJoins DEF vars
  <2> QED
    BY <1>3, <2>1 DEF vars, DInv, Clean, BondOf
<1> QED
  BY <1>1, <1>2, <1>3 DEF Next

(* What a sender knows to be acknowledged, without a gap, has been handed  *)
(* to the peer's recv(): no acknowledgement passes the first message that  *)
(* the drain (transport.rs:635-646) has not taken.  For any number of      *)
(* peers and messages, with SYN retries, the tie-break that moves a        *)
(* session with its KCP state to another conversation                      *)
(* (transport.rs:701-711), the session of a send() that a SYN overwrites   *)
(* (transport.rs:747-752), teardowns, and a loss or a restart, as long as  *)
(* every link keeps the order in which its sender decided to send.         *)
THEOREM AckedIsDelivered == Spec => []AckedWasDelivered
<1>1. HInv /\ DInv => AckedWasDelivered
  <2> SUFFICES ASSUME HInv, DInv, Clean, NEW np \in Pairs, session[np[1]][np[2]] # None,
                      NEW sn \in 1..session[np[1]][np[2]].snd,
                      (1..sn) \cap Unacked(session[np[1]][np[2]]) = {}
               PROVE  <<np[2], np[1], session[np[1]][np[2]].conv_id, sn>> \in delivered
    BY DEF AckedWasDelivered, Clean
  <2>1. PICK n \in Nodes, p \in Nodes : n # p /\ np[1] = n /\ np[2] = p
    BY DEF Pairs
  <2>2. PICK s : s = session[n][p] /\ s # None
    BY <2>1
  <2>3. PICK c \in 1..drawn : c = s.conv_id
    BY <2>2, SessionFacts
  <2>4. s.snd \in 0..MaxSends /\ MaxSends \in Nat
    BY <2>2, SessionFacts, HandshakeLimits DEF Records
  <2>5. Flow(n, p, delivered, s, session[p][n], link[n][p], link[p][n], c)
    BY <2>1, <2>2 DEF DInv, BondOf, Bond, Half
  <2>6. PICK g \in Numbers : /\ ~Acked(s, session[p][n], link[p][n], c, g)
                             /\ \A k \in Numbers : k < g => <<p, n, c, k>> \in delivered
    BY <2>5 DEF Flow
  <2>7. g <= s.snd => g \in Unacked(s)
    BY <2>2, <2>3, <2>6 DEF Acked, In
  <2>8. sn \in Numbers /\ sn < g
    BY <2>1, <2>2, <2>4, <2>7 DEF Numbers
  <2> QED
    BY <2>1, <2>2, <2>3, <2>6, <2>8
<1>2. HInv /\ DInv /\ [Next]_vars => DInv'
  BY StepsDeliver
<1> QED
  BY <1>1, <1>2, InitDelivers, Invariance, PTL DEF Spec

=============================================================================
