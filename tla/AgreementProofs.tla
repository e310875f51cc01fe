--------------------------- MODULE AgreementProofs ---------------------------
(***************************************************************************)
(* The two ends of a session agree on its conversation (Handshake).        *)
(*                                                                         *)
(* What keeps them together is a pact between a session and the session    *)
(* and the links at its other end.  Everything up to The inductive         *)
(* invariant is about such a pact: s and t are the sessions of n and p, or *)
(* None, out is what is on its way from n to p and in what is on its way   *)
(* from p to n.                                                            *)
(***************************************************************************)
EXTENDS HandshakeProofs

Est(s) == s # None /\ s.state = "Established"

Clear(q) == DOMAIN q = {}

(* A SYN_ACK or a RESET of conversation c. *)
AnswerOf(d, c) == d[1] \in {2, 3} /\ d[2] = c

(* What may end a handshake of conversation c. *)
Ends(d, c) == d[1] = 1 \/ AnswerOf(d, c)

(* The other side has taken conversation c, or what it said shows that it had. *)
Known(t, in, c) ==
    (t # None /\ t.conv_id = c) \/ \E j \in DOMAIN in : AnswerOf(in[j], c)

(* While a session is in its handshake, its SYN is the last thing it said; *)
(* once the other side knows the conversation, nothing is left on the way  *)
(* to it.  What the other side said after what ends the handshake can only *)
(* be the SYN of the handshake that it is in.                              *)
Asking(s, t, out, in) ==
    Waiting(s) =>
        /\ \A i \in DOMAIN out : SynOf(out[i], s.conv_id) => \A j \in DOMAIN out : j <= i
        /\ \A i \in DOMAIN out : ~DataOf(out[i], s.conv_id)
        /\ Known(t, in, s.conv_id) => Clear(out)
        /\ (Est(t) /\ \E j \in DOMAIN in : in[j][1] = 2 /\ in[j][2] = s.conv_id)
              => t.conv_id = s.conv_id
        /\ \A j, k \in DOMAIN in :
              (j < k /\ Ends(in[j], s.conv_id) /\ in[k][1] = 1)
                 => Waiting(t) /\ t.conv_id = in[k][2]

(* A SYN on its way is that of the handshake its sender is in; or else the *)
(* sender has had the SYN of the receiver's handshake, and if it is        *)
(* established by now, in the conversation that the receiver will choose.  *)
Crossing(n, p, s, t, out, in) ==
    \A k \in DOMAIN in : in[k][1] = 1 =>
        /\ (Waiting(t) /\ t.conv_id = in[k][2]) \/ (Waiting(s) /\ Clear(out))
        /\ Est(t) => Waiting(s) /\ t.conv_id = TieBreak(n, p, s.conv_id, in[k][2])

Agreed(n, p, s, t, out, in) ==
    /\ Asking(s, t, out, in)
    /\ Crossing(n, p, s, t, out, in)
    /\ Est(s) /\ Est(t) => s.conv_id = t.conv_id

(* Both sides of it. *)
Pact(n, p, s, t, out, in) == Agreed(n, p, s, t, out, in) /\ Agreed(p, n, t, s, in, out)

-----------------------------------------------------------------------------
(* What changes on a link. *)

(* r is what is left of q. *)
Thinned(q, r) ==
    \E f \in [DOMAIN r -> DOMAIN q] :
        /\ \A k \in DOMAIN r : r[k] = q[f[k]]
        /\ \A j, k \in DOMAIN r : j < k => f[j] < f[k]

LEMMA ThinnedAgreed ==
  ASSUME NEW n, NEW p, NEW s, NEW t, NEW out, NEW in, NEW r,
         Pact(n, p, s, t, out, in), Thinned(in, r),
         DOMAIN in \subseteq Nat, DOMAIN r \subseteq Nat
  PROVE  Pact(n, p, s, t, out, r)
<1>1. PICK f \in [DOMAIN r -> DOMAIN in] :
         /\ \A k \in DOMAIN r : r[k] = in[f[k]]
         /\ \A j, k \in DOMAIN r : j < k => f[j] < f[k]
  BY DEF Thinned
<1>2. \A k \in DOMAIN r : f[k] \in DOMAIN in /\ f[k] \in Nat /\ k \in Nat
  OBVIOUS
<1>3. Asking(s, t, out, r)
  <2> SUFFICES ASSUME Waiting(s)
               PROVE  /\ Known(t, r, s.conv_id) => Clear(out)
                      /\ (Est(t) /\ \E j \in DOMAIN r : r[j][1] = 2 /\ r[j][2] = s.conv_id)
                            => t.conv_id = s.conv_id
                      /\ \A j, k \in DOMAIN r :
                            (j < k /\ Ends(r[j], s.conv_id) /\ r[k][1] = 1)
                               => Waiting(t) /\ t.conv_id = r[k][2]
    BY DEF Pact, Agreed, Asking
  <2>1. Known(t, r, s.conv_id) => Known(t, in, s.conv_id)
    BY <1>1, <1>2 DEF Known
  <2> QED
    BY <1>1, <1>2, <2>1 DEF Pact, Agreed, Asking
<1>4. Crossing(n, p, s, t, out, r)
  BY <1>1, <1>2 DEF Pact, Agreed, Crossing
<1>5. Asking(t, s, r, out)
  <2> SUFFICES ASSUME Waiting(t)
               PROVE  /\ \A i \in DOMAIN r : SynOf(r[i], t.conv_id) => \A j \in DOMAIN r : j <= i
                      /\ \A i \in DOMAIN r : ~DataOf(r[i], t.conv_id)
                      /\ Known(s, out, t.conv_id) => Clear(r)
    BY DEF Pact, Agreed, Asking
  <2>1. ASSUME NEW i \in DOMAIN r, SynOf(r[i], t.conv_id), NEW j \in DOMAIN r PROVE j <= i
    <3>1. f[j] <= f[i]
      BY <1>1, <1>2, <2>1 DEF Pact, Agreed, Asking
    <3> QED
      BY <1>1, <1>2, <3>1
  <2>2. \A i \in DOMAIN r : ~DataOf(r[i], t.conv_id)
    BY <1>1, <1>2 DEF Pact, Agreed, Asking
  <2>3. Known(s, out, t.conv_id) => Clear(r)
    BY <1>2 DEF Pact, Agreed, Asking, Clear
  <2> QED
    BY <2>1, <2>2, <2>3
<1>6. Crossing(p, n, t, s, r, out)
  BY <1>2 DEF Pact, Agreed, Crossing, Clear
<1> QED
  BY <1>3, <1>4, <1>5, <1>6 DEF Pact, Agreed

(* r is what is left of q when its head is gone. *)
Headless(q, r) ==
    /\ Thinned(q, r) /\ DOMAIN q \subseteq Nat /\ DOMAIN r \subseteq Nat
    /\ 1 \in DOMAIN q
    /\ \A k \in DOMAIN r : k + 1 \in DOMAIN q /\ r[k] = q[k + 1] /\ 1 < k + 1

LEMMA TailThinned ==
  ASSUME NEW S, NEW q \in Seq(S), q # <<>>
  PROVE  Headless(q, Tail(q))
<1>1. /\ Len(q) \in Nat \ {0} /\ DOMAIN q = 1..Len(q) /\ DOMAIN Tail(q) = 1..(Len(q) - 1)
      /\ \A i \in 1..(Len(q) - 1) : Tail(q)[i] = q[i + 1]
  BY TailIndices
<1> DEFINE r == Tail(q)
           f == [k \in DOMAIN r |-> k + 1]
<1> HIDE DEF r
<1>2. f \in [DOMAIN r -> DOMAIN q] /\ \A k \in DOMAIN r : r[k] = q[f[k]]
  BY <1>1 DEF r
<1>3. \A j, k \in DOMAIN r : j < k => f[j] < f[k]
  BY <1>1 DEF r
<1>4. Thinned(q, r)
  BY <1>2, <1>3 DEF Thinned
<1> QED
  BY <1>1, <1>4 DEF r, Headless

(* What is where once place i is gone. *)
LEMMA RemoveAtIndices ==
  ASSUME NEW S, NEW q \in Seq(S), NEW i \in DOMAIN q
  PROVE  LET r == RemoveAt(q, i)
         IN  /\ Len(q) \in Nat /\ DOMAIN q = 1..Len(q) /\ DOMAIN r = 1..(Len(q) - 1)
             /\ \A k \in DOMAIN r : r[k] = IF k < i THEN q[k] ELSE q[k + 1]
<1>1. DOMAIN q = 1..Len(q) /\ Len(q) \in Nat
  BY LenProperties
<1>2. \A j \in 1..Len(q) : q[j] \in S
  BY ElementOfSeq
<1>3. /\ i - 1 \in Int /\ i + 1 \in Int /\ Len(q) \in Int /\ 1 \in Int
      /\ 1..(i - 1) \subseteq 1..Len(q) /\ (i + 1)..Len(q) \subseteq 1..Len(q)
  BY <1>1
<1> DEFINE a == SubSeq(q, 1, i - 1)
           b == SubSeq(q, i + 1, Len(q))
           r == a \o b
<1>4. /\ a \in Seq(S) /\ Len(a) = i - 1
      /\ \A k \in 1..(i - 1) : a[k] = q[k]
  <2>1. \A k \in 1..(i - 1) : q[k] \in S
    BY <1>1, <1>2
  <2>2. /\ a \in Seq(S)
        /\ Len(a) = IF 1 <= i - 1 THEN (i - 1) - 1 + 1 ELSE 0
        /\ \A k \in 1..((i - 1) - 1 + 1) : a[k] = q[1 + k - 1]
    BY <1>3, <2>1, SubSeqProperties
  <2> HIDE DEF a
  <2> QED
    BY <1>1, <2>2
<1>5. /\ b \in Seq(S) /\ Len(b) = Len(q) - i
      /\ \A k \in 1..(Len(q) - i) : b[k] = q[i + k]
  <2>1. \A k \in (i + 1)..Len(q) : q[k] \in S
    BY <1>1, <1>2
  <2>2. /\ b \in Seq(S)
        /\ Len(b) = IF i + 1 <= Len(q) THEN Len(q) - (i + 1) + 1 ELSE 0
        /\ \A k \in 1..(Len(q) - (i + 1) + 1) : b[k] = q[(i + 1) + k - 1]
    BY <1>3, <2>1, SubSeqProperties
  <2> HIDE DEF b
  <2>3. Len(q) - (i + 1) + 1 = Len(q) - i /\ (~(i + 1 <= Len(q)) => Len(q) - i = 0)
    BY <1>1
  <2>4. Len(b) = Len(q) - i
    BY <2>2, <2>3
  <2>5. ASSUME NEW k \in 1..(Len(q) - i) PROVE b[k] = q[i + k]
    <3>1. (i + 1) + k - 1 = i + k /\ k \in 1..(Len(q) - (i + 1) + 1)
      BY <1>1, <2>3
    <3> QED
      BY <2>2, <3>1
  <2> QED
    BY <2>2, <2>4, <2>5
<1> HIDE DEF a, b
<1>6. /\ r \in Seq(S) /\ Len(r) = Len(a) + Len(b)
      /\ \A k \in 1..(Len(a) + Len(b)) : r[k] = IF k <= Len(a) THEN a[k] ELSE b[k - Len(a)]
  BY <1>4, <1>5, ConcatProperties, Zenon
<1>7. DOMAIN r = 1..Len(r)
  BY <1>6, LenProperties
<1> HIDE DEF r
<1>8. DOMAIN r = 1..(Len(q) - 1)
  BY <1>1, <1>4, <1>5, <1>6, <1>7
<1>9. ASSUME NEW k \in DOMAIN r PROVE r[k] = IF k < i THEN q[k] ELSE q[k + 1]
  <2>1. CASE k < i
    <3>1. k \in 1..(i - 1) /\ k <= Len(a) /\ k \in 1..(Len(a) + Len(b))
      BY <1>1, <1>4, <1>5, <1>8, <2>1
    <3> QED
      BY <1>4, <1>6, <2>1, <3>1
  <2>2. CASE ~(k < i)
    <3>1. /\ ~(k <= Len(a)) /\ k \in 1..(Len(a) + Len(b))
          /\ k - Len(a) \in 1..(Len(q) - i) /\ i + (k - Len(a)) = k + 1
      BY <1>1, <1>4, <1>5, <1>8, <2>2
    <3>2. r[k] = b[k - Len(a)]
      BY <1>6, <3>1
    <3> QED
      BY <1>5, <2>2, <3>1, <3>2
  <2> QED
    BY <2>1, <2>2
<1> QED
  BY <1>1, <1>8, <1>9 DEF r, a, b, RemoveAt

LEMMA RemoveAtThinned ==
  ASSUME NEW S, NEW q \in Seq(S), NEW i \in DOMAIN q
  PROVE  Thinned(q, RemoveAt(q, i)) /\ DOMAIN q \subseteq Nat /\ DOMAIN RemoveAt(q, i) \subseteq Nat
<1> DEFINE r == RemoveAt(q, i)
           f == [k \in DOMAIN r |-> IF k < i THEN k ELSE k + 1]
<1>1. /\ Len(q) \in Nat /\ DOMAIN q = 1..Len(q) /\ DOMAIN r = 1..(Len(q) - 1)
      /\ \A k \in DOMAIN r : r[k] = IF k < i THEN q[k] ELSE q[k + 1]
  BY RemoveAtIndices
<1> HIDE DEF r
<1>2. f \in [DOMAIN r -> DOMAIN q] /\ \A k \in DOMAIN r : r[k] = q[f[k]]
  BY <1>1
<1>3. \A j, k \in DOMAIN r : j < k => f[j] < f[k]
  BY <1>1
<1>4. Thinned(q, r)
  <2> HIDE DEF f
  <2> QED
    BY <1>2, <1>3 DEF Thinned
<1> QED
  BY <1>1, <1>4 DEF r

(* more is what was said before, q, and then x. *)
Extended(q, x, more) ==
    /\ DOMAIN q \subseteq DOMAIN more
    /\ \A i \in DOMAIN q : more[i] = q[i]
    /\ \A i \in DOMAIN more \ DOMAIN q :
          (\E k \in DOMAIN x : more[i] = x[k]) /\ \A j \in DOMAIN q : j < i

LEMMA ConcatExtended ==
  ASSUME NEW S, NEW q \in Seq(S), NEW x \in Seq(S)
  PROVE  Extended(q, x, q \o x) /\ DOMAIN q \subseteq Nat /\ DOMAIN (q \o x) \subseteq Nat
<1> DEFINE r == q \o x
<1>1. /\ r \in Seq(S)
      /\ \A i \in DOMAIN q : i \in DOMAIN r /\ r[i] = q[i]
      /\ \A i \in DOMAIN r : i \notin DOMAIN q => \E k \in DOMAIN x : i = Len(q) + k /\ r[i] = x[k]
  BY ConcatIndices
<1> HIDE DEF r
<1>2. /\ DOMAIN q = 1..Len(q) /\ DOMAIN x = 1..Len(x) /\ DOMAIN r = 1..Len(r)
      /\ Len(q) \in Nat /\ Len(x) \in Nat /\ Len(r) \in Nat
  BY <1>1, LenProperties
<1>3. ASSUME NEW i \in DOMAIN r \ DOMAIN q
      PROVE  (\E k \in DOMAIN x : r[i] = x[k]) /\ \A j \in DOMAIN q : j < i
  <2>1. PICK k \in DOMAIN x : i = Len(q) + k /\ r[i] = x[k]
    BY <1>1
  <2> QED
    BY <1>2, <2>1
<1>4. Extended(q, x, r)
  BY <1>1, <1>3, Zenon DEF Extended
<1>5. DOMAIN q \subseteq Nat /\ DOMAIN r \subseteq Nat
  BY <1>2
<1> QED
  BY <1>4, <1>5 DEF r

-----------------------------------------------------------------------------
(* What changes at one end. *)

LEMMA PactIsMutual ==
  ASSUME NEW n, NEW p, NEW s, NEW t, NEW out, NEW in, Pact(n, p, s, t, out, in)
  PROVE  Pact(p, n, t, s, in, out)
BY DEF Pact

(* The session goes on in its state and conversation. *)
LEMMA AlikeAgreed ==
  ASSUME NEW n, NEW p, NEW s, NEW u, NEW t, NEW out, NEW in, Pact(n, p, s, t, out, in),
         s # None, u # None, u.conv_id = s.conv_id, u.state = s.state
  PROVE  Pact(n, p, u, t, out, in)
<1>1. (Waiting(u) <=> Waiting(s)) /\ (Est(u) <=> Est(s))
  BY DEF Waiting, Est
<1>2. Asking(u, t, out, in) /\ Crossing(n, p, u, t, out, in)
  BY <1>1 DEF Pact, Agreed, Asking, Crossing
<1>3. \A c : Known(u, out, c) <=> Known(s, out, c)
  BY DEF Known
<1>4. Asking(t, u, in, out) /\ Crossing(p, n, t, u, in, out)
  BY <1>1, <1>3 DEF Pact, Agreed, Asking, Crossing
<1> QED
  BY <1>1, <1>2, <1>4 DEF Pact, Agreed

(* What a session may say: no SYN, no answer that does not stand, and      *)
(* nothing at all during its handshake.                                    *)
MaySay(s, t, in, x) ==
    /\ Waiting(s) => Clear(x)
    /\ \A k \in DOMAIN x :
          /\ x[k][1] # 1
          /\ (Waiting(t) /\ AnswerOf(x[k], t.conv_id)) =>
                Clear(in) /\ (Est(s) => s.conv_id = t.conv_id)

LEMMA SaysAgreed ==
  ASSUME NEW n, NEW p, NEW s, NEW t, NEW out, NEW in, Pact(n, p, s, t, out, in),
         NEW x, NEW more, Extended(out, x, more), MaySay(s, t, in, x),
         DOMAIN out \subseteq Nat, DOMAIN more \subseteq Nat
  PROVE  Pact(n, p, s, t, more, in)
<1>1. Waiting(s) => DOMAIN more = DOMAIN out
  BY DEF Extended, MaySay, Clear
<1>2. Asking(s, t, more, in) /\ Crossing(n, p, s, t, more, in)
  <2>1. CASE Waiting(s)
    <3>1. DOMAIN more = DOMAIN out /\ \A i \in DOMAIN out : more[i] = out[i]
      BY <1>1, <2>1 DEF Extended
    <3> QED
      BY <3>1 DEF Pact, Agreed, Asking, Crossing, Clear
  <2>2. CASE ~Waiting(s)
    BY <2>2 DEF Pact, Agreed, Asking, Crossing
  <2> QED
    BY <2>1, <2>2
<1>3. ASSUME NEW i \in DOMAIN more, more[i][1] = 1
      PROVE  i \in DOMAIN out /\ more[i] = out[i] /\ \A j \in DOMAIN more : j < i => j \in DOMAIN out
  BY <1>3 DEF Extended, MaySay
<1>4. ASSUME Waiting(t), NEW i \in DOMAIN more, AnswerOf(more[i], t.conv_id)
      PROVE  \/ i \in DOMAIN out /\ more[i] = out[i]
             \/ Clear(in) /\ (Est(s) => s.conv_id = t.conv_id)
  BY <1>4 DEF Extended, MaySay
<1>5. Asking(t, s, in, more)
  <2> SUFFICES ASSUME Waiting(t)
               PROVE  /\ Known(s, more, t.conv_id) => Clear(in)
                      /\ (Est(s) /\ \E j \in DOMAIN more : more[j][1] = 2 /\ more[j][2] = t.conv_id)
                            => s.conv_id = t.conv_id
                      /\ \A j, k \in DOMAIN more :
                            (j < k /\ Ends(more[j], t.conv_id) /\ more[k][1] = 1)
                               => Waiting(s) /\ s.conv_id = more[k][2]
    BY DEF Pact, Agreed, Asking
  <2>1. Known(s, more, t.conv_id) => Clear(in)
    <3>1. Known(s, more, t.conv_id) => Known(s, out, t.conv_id) \/ Clear(in)
      BY <1>4 DEF Known
    <3> QED
      BY <3>1 DEF Pact, Agreed, Asking
  <2>2. ASSUME Est(s), NEW j \in DOMAIN more, more[j][1] = 2, more[j][2] = t.conv_id
        PROVE  s.conv_id = t.conv_id
    <3>1. AnswerOf(more[j], t.conv_id)
      BY <2>2 DEF AnswerOf
    <3> QED
      BY <1>4, <2>2, <3>1 DEF Pact, Agreed, Asking
  <2>3. ASSUME NEW j \in DOMAIN more, NEW k \in DOMAIN more, j < k, Ends(more[j], t.conv_id),
               more[k][1] = 1
        PROVE  Waiting(s) /\ s.conv_id = more[k][2]
    <3>1. j \in DOMAIN out /\ more[j] = out[j] /\ k \in DOMAIN out /\ more[k] = out[k]
      BY <1>3, <2>3 DEF Extended
    <3> QED
      BY <2>3, <3>1 DEF Pact, Agreed, Asking
  <2> QED
    BY <2>1, <2>2, <2>3
<1>6. Crossing(p, n, t, s, in, more)
  BY <1>3 DEF Pact, Agreed, Crossing
<1> QED
  BY <1>2, <1>5, <1>6 DEF Pact, Agreed

(* An established session goes. *)
LEMMA GoneAgreed ==
  ASSUME NEW n, NEW p, NEW s, NEW t, NEW out, NEW in, Pact(n, p, s, t, out, in), Est(s)
  PROVE  Pact(n, p, None, t, out, in)
<1>1. ~Waiting(s) /\ ~Waiting(None) /\ ~Est(None)
  BY DEF Est, Waiting
<1>2. Asking(None, t, out, in) /\ Crossing(n, p, None, t, out, in)
  BY <1>1 DEF Pact, Agreed, Asking, Crossing
<1>3. \A c : Known(None, out, c) => Known(s, out, c)
  BY DEF Known
<1>4. Asking(t, None, in, out) /\ Crossing(p, n, t, None, in, out)
  BY <1>1, <1>3 DEF Pact, Agreed, Asking, Crossing
<1> QED
  BY <1>1, <1>2, <1>4 DEF Pact, Agreed


-----------------------------------------------------------------------------
(* What arrives at the head of the link. *)

LEMMA HeardAgreed ==
  ASSUME NEW n, NEW p, NEW s, NEW t, NEW out, NEW in, NEW rest, Pact(n, p, s, t, out, in),
         Headless(in, rest)
  PROVE  Pact(n, p, s, t, out, rest)
BY ThinnedAgreed DEF Headless

(* The RESET of the session. *)
LEMMA HeardReset ==
  ASSUME NEW n, NEW p, NEW s, NEW t, NEW out, NEW in, NEW rest, Pact(n, p, s, t, out, in),
         Headless(in, rest), Waiting(s), in[1][1] = 3, in[1][2] = s.conv_id
  PROVE  Pact(n, p, None, t, out, rest)
<1>1. Pact(n, p, s, t, out, rest) /\ 1 \in DOMAIN in
  BY HeardAgreed DEF Headless
<1>2. AnswerOf(in[1], s.conv_id)
  BY DEF AnswerOf
<1>3. Clear(out)
  BY <1>1, <1>2 DEF Known, Pact, Agreed, Asking
<1>4. ~Waiting(None) /\ ~Est(None)
  BY DEF Est, Waiting
<1>5. ASSUME NEW k \in DOMAIN rest, rest[k][1] = 1 PROVE Waiting(t) /\ t.conv_id = rest[k][2]
  BY <1>2, <1>5 DEF Headless, Ends, Pact, Agreed, Asking
<1>6. Asking(None, t, out, rest) /\ Crossing(n, p, None, t, out, rest)
  BY <1>4, <1>5 DEF Asking, Crossing, Est, Waiting
<1>7. Asking(t, None, rest, out)
  <2>1. ~Known(None, out, t.conv_id)
    BY <1>3 DEF Known, Clear
  <2> QED
    BY <1>1, <1>3, <2>1 DEF Pact, Agreed, Asking, Clear
<1>8. Crossing(p, n, t, None, rest, out)
  BY <1>3 DEF Crossing, Clear
<1> QED
  BY <1>4, <1>6, <1>7, <1>8 DEF Pact, Agreed

(* The SYN_ACK of its handshake. *)
LEMMA HeardSynAck ==
  ASSUME NEW n, NEW p, NEW s, NEW t, NEW out, NEW in, NEW rest, Pact(n, p, s, t, out, in),
         Headless(in, rest), Waiting(s), in[1][1] = 2, in[1][2] = s.conv_id,
         NEW u, Est(u), u.conv_id = s.conv_id
  PROVE  Pact(n, p, u, t, out, rest)
<1>1. Pact(n, p, s, t, out, rest) /\ 1 \in DOMAIN in
  BY HeardAgreed DEF Headless
<1>2. AnswerOf(in[1], s.conv_id)
  BY DEF AnswerOf
<1>3. Clear(out)
  BY <1>1, <1>2 DEF Known, Pact, Agreed, Asking
<1>4. ~Waiting(u)
  BY DEF Est, Waiting
<1>5. ASSUME NEW k \in DOMAIN rest, rest[k][1] = 1 PROVE Waiting(t) /\ t.conv_id = rest[k][2]
  BY <1>2, <1>5 DEF Headless, Ends, Pact, Agreed, Asking
<1>6. Asking(u, t, out, rest) /\ Crossing(n, p, u, t, out, rest)
  BY <1>4, <1>5 DEF Asking, Crossing, Est, Waiting
<1>7. Est(t) => t.conv_id = u.conv_id
  BY <1>1 DEF Pact, Agreed, Asking
<1>8. Asking(t, u, rest, out)
  <2> SUFFICES ASSUME Waiting(t) PROVE Known(u, out, t.conv_id) => Clear(rest)
    BY <1>1, <1>3 DEF Pact, Agreed, Asking, Clear
  <2>1. Known(u, out, t.conv_id) => Known(s, out, t.conv_id)
    BY <1>3 DEF Known, Clear, Waiting
  <2> QED
    BY <1>1, <2>1 DEF Pact, Agreed, Asking
<1>9. Crossing(p, n, t, u, rest, out)
  BY <1>3 DEF Crossing, Clear
<1> QED
  BY <1>6, <1>7, <1>8, <1>9 DEF Pact, Agreed

(* A SYN of conversation c, out of any handshake of the receiver's: the    *)
(* sender is in the handshake, and this is the last that it said.          *)
LEMMA HeardFirst ==
  ASSUME NEW n, NEW p, NEW s, NEW t, NEW out, NEW in, NEW rest, Pact(n, p, s, t, out, in),
         Headless(in, rest), ~Waiting(s), in[1][1] = 1,
         NEW u, Est(u), u.conv_id = in[1][2]
  PROVE  Pact(n, p, u, t, out, rest) /\ Waiting(t) /\ t.conv_id = in[1][2] /\ Clear(rest)
<1>1. 1 \in DOMAIN in /\ ~Waiting(u)
  BY DEF Headless, Est, Waiting
<1>2. Waiting(t) /\ t.conv_id = in[1][2] /\ ~Est(t)
  BY <1>1 DEF Pact, Agreed, Crossing, Est, Waiting
<1>3. Clear(rest)
  <2>1. \A j \in DOMAIN in : j <= 1
    BY <1>1, <1>2 DEF Pact, Agreed, Asking, SynOf
  <2>2. ASSUME NEW k \in DOMAIN rest PROVE FALSE
    BY <2>1 DEF Headless
  <2> QED
    BY <2>2 DEF Clear
<1>4. ~Clear(in)
  BY <1>1 DEF Clear
<1>5. \A k \in DOMAIN out : out[k][1] # 1
  BY <1>4 DEF Pact, Agreed, Crossing
<1>6. Asking(u, t, out, rest) /\ Crossing(n, p, u, t, out, rest)
  BY <1>1, <1>3 DEF Asking, Crossing, Clear
<1>7. Asking(t, u, rest, out)
  BY <1>2, <1>3, <1>5 DEF Asking, Clear
<1>8. Crossing(p, n, t, u, rest, out)
  BY <1>5 DEF Crossing
<1> QED
  BY <1>2, <1>3, <1>6, <1>7, <1>8 DEF Pact, Agreed

(* The SYN of a simultaneous handshake: both ends choose the same.         *)
LEMMA HeardSimultaneous ==
  ASSUME NEW n, NEW p, NEW s, NEW t, NEW out, NEW in, NEW rest, Pact(n, p, s, t, out, in),
         Headless(in, rest), DOMAIN out \subseteq Nat, Waiting(s), in[1][1] = 1, in[1][2] # s.conv_id,
         NEW u, Est(u), u.conv_id = TieBreak(n, p, s.conv_id, in[1][2]),
         TieBreak(n, p, s.conv_id, in[1][2]) = TieBreak(p, n, in[1][2], s.conv_id)
  PROVE  Pact(n, p, u, t, out, rest)
<1> DEFINE c == in[1][2]
<1>1. Pact(n, p, s, t, out, rest) /\ 1 \in DOMAIN in /\ ~Waiting(u) /\ ~Clear(in)
  BY HeardAgreed DEF Headless, Est, Waiting, Clear
<1>2. (Waiting(t) /\ t.conv_id = c) \/ Clear(out)
  BY <1>1 DEF Pact, Agreed, Crossing
<1>3. Est(t) => t.conv_id = u.conv_id
  BY <1>1 DEF Pact, Agreed, Crossing
<1>4. ASSUME Waiting(t), t.conv_id = c PROVE Clear(rest)
  <2>1. \A j \in DOMAIN in : j <= 1
    BY <1>1, <1>4 DEF Pact, Agreed, Asking, SynOf
  <2>2. ASSUME NEW k \in DOMAIN rest PROVE FALSE
    BY <2>1 DEF Headless
  <2> QED
    BY <2>2 DEF Clear
<1>5. ASSUME NEW k \in DOMAIN rest, rest[k][1] = 1 PROVE Waiting(t) /\ t.conv_id = rest[k][2]
  BY <1>5 DEF Headless, Ends, Pact, Agreed, Asking
<1>6. Asking(u, t, out, rest) /\ Crossing(n, p, u, t, out, rest)
  BY <1>1, <1>5 DEF Asking, Crossing, Est, Waiting
<1>7. u.conv_id = c \/ u.conv_id = s.conv_id
  BY DEF TieBreak
<1>8. Waiting(t) => ~Known(s, out, t.conv_id)
  BY <1>1 DEF Pact, Agreed, Asking
<1>9. ASSUME NEW k \in DOMAIN out, out[k][1] = 1
      PROVE  Waiting(t) /\ t.conv_id = c /\ out[k][2] = s.conv_id /\ \A j \in DOMAIN out : j <= k
  BY <1>1, <1>2, <1>9 DEF Pact, Agreed, Crossing, Asking, SynOf, Clear
<1>10. Asking(t, u, rest, out)
  <2> SUFFICES ASSUME Waiting(t)
               PROVE  /\ Known(u, out, t.conv_id) => Clear(rest)
                      /\ (Est(u) /\ \E j \in DOMAIN out : out[j][1] = 2 /\ out[j][2] = t.conv_id)
                            => u.conv_id = t.conv_id
                      /\ \A j, k \in DOMAIN out :
                            (j < k /\ Ends(out[j], t.conv_id) /\ out[k][1] = 1)
                               => Waiting(u) /\ u.conv_id = out[k][2]
    BY <1>1 DEF Pact, Agreed, Asking
  <2>1. Known(u, out, t.conv_id) => Clear(rest)
    <3>1. Known(u, out, t.conv_id) => u.conv_id = t.conv_id
      BY <1>8 DEF Known
    <3>2. s # None /\ t.conv_id # s.conv_id
      BY <1>8 DEF Known, Waiting
    <3> QED
      BY <1>4, <1>7, <3>1, <3>2
  <2>2. ASSUME NEW j \in DOMAIN out PROVE ~AnswerOf(out[j], t.conv_id)
    BY <1>8 DEF Known
  <2>3. ASSUME NEW j \in DOMAIN out, NEW k \in DOMAIN out, j < k, Ends(out[j], t.conv_id) PROVE out[k][1] # 1
    <3>1. out[j][1] = 1
      BY <2>2, <2>3 DEF Ends
    <3>2. k <= j
      BY <1>9, <3>1
    <3>3. j \in Nat /\ k \in Nat
      OBVIOUS
    <3> QED
      BY <2>3, <3>2, <3>3
  <2> QED
    BY <2>1, <2>2, <2>3 DEF AnswerOf
<1>11. Crossing(p, n, t, u, rest, out)
  BY <1>4, <1>9 DEF Crossing
<1> QED
  BY <1>3, <1>6, <1>10, <1>11 DEF Pact, Agreed

(* Both ends break a tie the same way when each is known by the address    *)
(* that it has itself.                                                     *)
LEMMA TieIsFair ==
  ASSUME Wildcard = {}, NEW n \in Nodes, NEW p \in Nodes, n # p, NEW c, NEW d
  PROVE  TieBreak(n, p, c, d) = TieBreak(p, n, d, c)
<1>1. n \in Nat /\ p \in Nat
  BY NodesAreAddresses
<1> QED
  BY <1>1 DEF TieBreak, local_addr


-----------------------------------------------------------------------------
(* A handshake begins, in conversation c that nobody has heard of. *)

Unheard(q, c) == \A k \in DOMAIN q : q[k][2] # c

LEMMA BeginsAgreed ==
  ASSUME NEW n, NEW p, NEW t, NEW out, NEW in, Pact(n, p, None, t, out, in),
         NEW u, Waiting(u), NEW c, u.conv_id = c, t # None => t.conv_id # c,
         Unheard(out, c), Unheard(in, c),
         NEW x, NEW more, Extended(out, x, more), \A k \in DOMAIN x : SynOf(x[k], c),
         NEW last \in DOMAIN more, \A i \in DOMAIN more : i \in DOMAIN out \/ i = last,
         DOMAIN out \subseteq Nat, DOMAIN more \subseteq Nat
  PROVE  Pact(n, p, u, t, more, in)
<1>1. ~Waiting(None) /\ ~Est(None) /\ ~Est(u) /\ u # None
  BY DEF Waiting, Est
<1>2. /\ DOMAIN out \subseteq DOMAIN more /\ \A i \in DOMAIN out : more[i] = out[i]
      /\ \A i \in DOMAIN more \ DOMAIN out :
            i = last /\ SynOf(more[i], c) /\ \A j \in DOMAIN out : j < i
  BY DEF Extended
<1>3. ASSUME NEW i \in DOMAIN more, more[i][2] = c
      PROVE  more[i][1] = 1 /\ \A j \in DOMAIN more : j <= i
  <2>1. i \notin DOMAIN out
    BY <1>2, <1>3 DEF Unheard
  <2> QED
    BY <1>2, <2>1 DEF SynOf
<1>4. ASSUME NEW k \in DOMAIN in, in[k][1] = 1
      PROVE  Waiting(t) /\ t.conv_id = in[k][2] /\ ~Est(t)
  BY <1>1, <1>4 DEF Pact, Agreed, Crossing
<1>5. ~Known(t, in, c)
  BY DEF Known, AnswerOf, Unheard
<1>6. Asking(u, t, more, in)
  <2>1. \A i \in DOMAIN more : SynOf(more[i], c) => \A j \in DOMAIN more : j <= i
    BY <1>3 DEF SynOf
  <2>2. \A i \in DOMAIN more : ~DataOf(more[i], c)
    BY <1>3 DEF DataOf
  <2>3. \A j \in DOMAIN in : ~(in[j][1] = 2 /\ in[j][2] = c)
    BY DEF Unheard
  <2> QED
    BY <1>4, <1>5, <2>1, <2>2, <2>3 DEF Asking
<1>7. Crossing(n, p, u, t, more, in)
  BY <1>4 DEF Crossing
<1>8. ASSUME NEW i \in DOMAIN more, more[i][1] # 1 PROVE i \in DOMAIN out /\ more[i] = out[i]
  BY <1>2, <1>8 DEF SynOf
<1>9. Asking(t, u, in, more)
  <2> SUFFICES ASSUME Waiting(t)
               PROVE  /\ Known(u, more, t.conv_id) => Clear(in)
                      /\ \A j, k \in DOMAIN more :
                            (j < k /\ Ends(more[j], t.conv_id) /\ more[k][1] = 1)
                               => Waiting(u) /\ u.conv_id = more[k][2]
    BY <1>1 DEF Pact, Agreed, Asking
  <2>1. Known(u, more, t.conv_id) => Known(None, out, t.conv_id)
    BY <1>1, <1>8 DEF Known, AnswerOf, Waiting
  <2>2. Known(None, out, t.conv_id) => Clear(in)
    BY DEF Pact, Agreed, Asking
  <2>3. ASSUME NEW j \in DOMAIN more, NEW k \in DOMAIN more, j < k, Ends(more[j], t.conv_id),
               more[k][1] = 1
        PROVE  Waiting(u) /\ u.conv_id = more[k][2]
    <3>1. CASE k \in DOMAIN out
      <4>1. j \in DOMAIN out
        BY <1>2, <2>3, <3>1
      <4> QED
        BY <1>1, <1>2, <2>3, <3>1, <4>1 DEF Pact, Agreed, Asking
    <3>2. CASE k \notin DOMAIN out
      BY <1>2, <3>2 DEF SynOf
    <3> QED
      BY <3>1, <3>2
  <2> QED
    BY <2>1, <2>2, <2>3
<1>10. Crossing(p, n, t, u, in, more)
  <2> SUFFICES ASSUME NEW k \in DOMAIN more, more[k][1] = 1
               PROVE  (Waiting(u) /\ u.conv_id = more[k][2]) \/ (Waiting(t) /\ Clear(in))
    BY <1>1 DEF Crossing
  <2>1. CASE k \in DOMAIN out
    BY <1>1, <1>2, <2>1 DEF Pact, Agreed, Crossing
  <2>2. CASE k \notin DOMAIN out
    BY <1>2, <2>2 DEF SynOf
  <2> QED
    BY <2>1, <2>2
<1> QED
  BY <1>1, <1>6, <1>7, <1>9, <1>10 DEF Pact, Agreed

-----------------------------------------------------------------------------
(* The inductive invariant. *)

(* Nothing but a loss has happened: no SYN has been sent again either. *)
Calm == seen \subseteq {"loss"}

Unretried(s) == Waiting(s) => s.syn_retries = 0

PactOf(n, p) == Pact(n, p, session[n][p], session[p][n], link[n][p], link[p][n])

AInv == Calm => \A n, p \in Nodes : n # p => PactOf(n, p) /\ Unretried(session[n][p])

LEMMA StepAgrees ==
  ASSUME HInv, AInv, NEW n \in Nodes, NEW p \in Nodes, n # p,
         NEW u, NEW event, NEW rest, NEW x, Step(n, p, u, event, rest, x), seen \subseteq seen',
         Calm' => Pact(n, p, u, session[p][n], link[n][p] \o x, rest) /\ Unretried(u)
  PROVE  AInv'
<1> DEFINE more == link[n][p] \o x
<1>1. \A a, b \in Nodes :
         /\ session'[a][b] = IF a = n /\ b = p THEN u ELSE session[a][b]
         /\ "late" \notin seen' =>
               link'[a][b] = IF a = p /\ b = n THEN rest
                             ELSE IF a = n /\ b = p THEN more ELSE link[a][b]
  BY StepPoints DEF HInv
<1> SUFFICES ASSUME Calm', NEW a \in Nodes, NEW b \in Nodes, a # b
             PROVE  /\ Pact(a, b, session'[a][b], session'[b][a], link'[a][b], link'[b][a])
                    /\ Unretried(session'[a][b])
  BY DEF AInv, PactOf, Unretried, Waiting
<1>2. Calm /\ "late" \notin seen'
  BY DEF Calm
<1>3. Pact(a, b, session[a][b], session[b][a], link[a][b], link[b][a]) /\ Unretried(session[a][b])
  BY <1>2 DEF AInv, PactOf
<1>4. Pact(n, p, u, session[p][n], more, rest) /\ Unretried(u)
  OBVIOUS
<1> HIDE DEF more
<1>5. Pact(p, n, session[p][n], u, rest, more)
  BY <1>4, PactIsMutual
<1>6. CASE a = n /\ b = p
  <2>1. /\ session'[a][b] = u /\ session'[b][a] = session[p][n]
        /\ link'[a][b] = more /\ link'[b][a] = rest
    BY <1>1, <1>2, <1>6
  <2> QED
    BY <1>4, <1>6, <2>1
<1>7. CASE a = p /\ b = n
  <2>1. /\ session'[a][b] = session[p][n] /\ session'[b][a] = u
        /\ link'[a][b] = rest /\ link'[b][a] = more
    BY <1>1, <1>2, <1>7
  <2> QED
    BY <1>3, <1>5, <1>7, <2>1
<1>8. CASE ~(a = n /\ b = p) /\ ~(a = p /\ b = n)
  <2>1. /\ session'[a][b] = session[a][b] /\ session'[b][a] = session[b][a]
        /\ link'[a][b] = link[a][b] /\ link'[b][a] = link[b][a]
    BY <1>1, <1>2, <1>8
  <2> QED
    BY <1>3, <2>1
<1> QED
  BY <1>6, <1>7, <1>8

(* n handles what arrives: in Calm, its session becomes u and it says x. *)
LEMMA ArrivalAgrees ==
  ASSUME HInv, AInv, NEW n \in Nodes, NEW p \in Nodes, n # p, NEW in \in Arrivals(n, p),
         NEW u, NEW event, NEW x \in Seq(Datagram(1..drawn)), Handles(n, p, in, u, event, x),
         ASSUME NEW out \in Seq(Datagram(1..drawn)), NEW q \in Seq(Datagram(1..drawn)),
                NEW rest \in Seq(Datagram(1..drawn)),
                out = link[n][p], in.buf = q[1], Headless(q, rest),
                Pact(n, p, session[n][p], session[p][n], out, q), Unretried(session[n][p])
         PROVE  Pact(n, p, u, session[p][n], out, rest) /\ MaySay(u, session[p][n], rest, x) /\ Unretried(u)
  PROVE  AInv'
<1>1. VariablesOK
  BY DEF HInv
<1>2. Step(n, p, u, event, Rest(n, p, in), x) /\ seen \cup in.seen \subseteq seen'
  BY DEF Handles
<1>3. ASSUME Calm' PROVE Pact(n, p, u, session[p][n], link[n][p] \o x, Rest(n, p, in)) /\ Unretried(u)
  <2>1. Calm /\ "reorder" \notin in.seen /\ "dup" \notin in.seen
    BY <1>2, <1>3 DEF Calm
  <2>2. PICK out \in Seq(Datagram(1..drawn)) : out = link[n][p]
    BY <1>1 DEF VariablesOK
  <2>3. PICK q \in Seq(Datagram(1..drawn)) : q = link[p][n]
    BY <1>1 DEF VariablesOK
  <2>4. q # <<>> /\ in.buf = q[1] /\ Rest(n, p, in) = Tail(q)
    BY <1>1, <2>1, <2>3, ArrivalForm
  <2>5. PICK rest \in Seq(Datagram(1..drawn)) : rest = Tail(q)
    BY <2>4, TailIndices
  <2>6. Headless(q, rest)
    BY <2>4, <2>5, TailThinned
  <2>7. Pact(n, p, session[n][p], session[p][n], out, q) /\ Unretried(session[n][p])
    BY <2>1, <2>2, <2>3 DEF AInv, PactOf
  <2>8. Pact(n, p, u, session[p][n], out, rest) /\ MaySay(u, session[p][n], rest, x) /\ Unretried(u)
    BY <2>2, <2>4, <2>6, <2>7
  <2>9. Extended(out, x, out \o x) /\ DOMAIN out \subseteq Nat /\ DOMAIN (out \o x) \subseteq Nat
    BY ConcatExtended
  <2>10. PICK more : more = out \o x
    OBVIOUS
  <2>11. Pact(n, p, u, session[p][n], more, rest)
    BY <2>8, <2>9, <2>10, SaysAgreed
  <2> QED
    BY <2>2, <2>4, <2>5, <2>8, <2>10, <2>11
<1> QED
  BY <1>2, <1>3, StepAgrees

-----------------------------------------------------------------------------
(* What is said, and by whom. *)

LEMMA SoundIsSession ==
  ASSUME NEW D \in Nat, NEW K, NEW s, Sound(s, D, K)
  PROVE  s # None
<1>1. s \in Records(D) /\ 1..D \subseteq Nat
  BY DEF Sound
<1>2. s \in Sessions(Nat)
  BY <1>1 DEF Records, Sessions, Buffers
<1> QED
  BY <1>2, NoneIsNoSession

(* Datagrams of conversation c, none of them a SYN. *)
Own(x, c) == \A k \in DOMAIN x : x[k][1] # 1 /\ x[k][2] = c

LEMMA OwnForms ==
  ASSUME NEW c \in Nat
  PROVE  /\ \A x \in Seq(Data(c)) : Own(x, c)
         /\ Own(<<encode_control("SynAck", c)>>, c)
         /\ Own(<<encode_control("Reset", c)>>, c)
         /\ Own(<<>>, c)
<1>1. ASSUME NEW x \in Seq(Data(c)), NEW k \in DOMAIN x PROVE x[k][1] # 1 /\ x[k][2] = c
  <2>1. x[k] \in Data(c)
    BY LenProperties, ElementOfSeq
  <2> QED
    BY <2>1 DEF Data, Datagram
<1>2. ASSUME NEW b \in 2..3, NEW e \in Control(b, c) PROVE Own(<<e>>, c)
  <2>1. e[1] = b /\ e[2] = c /\ DOMAIN <<e>> = {1} /\ <<e>>[1] = e
    BY DEF Control, Datagram
  <2> QED
    BY <2>1 DEF Own
<1>3. encode_control("SynAck", c) \in Control(2, c) /\ encode_control("Reset", c) \in Control(3, c)
  BY ControlForm
<1>4. 2 \in 2..3 /\ 3 \in 2..3
  OBVIOUS
<1> QED
  BY <1>1, <1>2, <1>3, <1>4 DEF Own

LEMMA OwnBoth ==
  ASSUME NEW S, NEW x \in Seq(S), NEW y \in Seq(S), NEW c, Own(x, c), Own(y, c)
  PROVE  Own(x \o y, c)
<1>1. Extended(x, y, x \o y)
  BY ConcatExtended
<1>2. PICK z : z = x \o y
  OBVIOUS
<1>3. ASSUME NEW k \in DOMAIN z PROVE z[k][1] # 1 /\ z[k][2] = c
  BY <1>1, <1>2 DEF Extended, Own
<1> QED
  BY <1>2, <1>3 DEF Own

(* An established session may say what is of its conversation. *)
LEMMA OwnIsSaid ==
  ASSUME NEW n, NEW p, NEW s, NEW t, NEW out, NEW in, Pact(n, p, s, t, out, in),
         Est(s), NEW x, Own(x, s.conv_id)
  PROVE  MaySay(s, t, in, x)
<1>1. ~Waiting(s) /\ s # None
  BY DEF Est, Waiting
<1>2. Waiting(t) /\ s.conv_id = t.conv_id => Clear(in)
  BY <1>1 DEF Pact, Agreed, Asking, Known
<1> QED
  BY <1>1, <1>2 DEF MaySay, Own, AnswerOf

LEMMA SilenceIsSaid ==
  ASSUME NEW s, NEW t, NEW in
  PROVE  MaySay(s, t, in, <<>>)
BY DEF MaySay, Clear

LEMMA RetriesKept ==
  ASSUME NEW D, NEW s \in Records(D)
  PROVE  /\ Queue(s).syn_retries = s.syn_retries
         /\ \A X : Acknowledge(s, X).syn_retries = s.syn_retries
         /\ \A sn : Arrived(s, sn).syn_retries = s.syn_retries
<1>1. Queue(s).syn_retries = s.syn_retries
  BY DEF Queue, Records
<1>2. ASSUME NEW X PROVE Acknowledge(s, X).syn_retries = s.syn_retries
  BY DEF Acknowledge, Records
<1>3. ASSUME NEW sn PROVE Arrived(s, sn).syn_retries = s.syn_retries
  BY DEF Arrived, Records
<1> QED
  BY <1>1, <1>2, <1>3

-----------------------------------------------------------------------------
(* The handlers. *)

LEMMA IgnoreAgrees ==
  ASSUME HInv, AInv, NEW n \in Nodes, NEW p \in Nodes, n # p, NEW in \in Arrivals(n, p),
         NEW event, Handles(n, p, in, session[n][p], event, <<>>)
  PROVE  AInv'
<1> DEFINE s == session[n][p]
           t == session[p][n]
<1>1. ASSUME NEW out \in Seq(Datagram(1..drawn)), NEW q \in Seq(Datagram(1..drawn)),
             NEW rest \in Seq(Datagram(1..drawn)),
             out = link[n][p], in.buf = q[1], Headless(q, rest),
             Pact(n, p, s, t, out, q), Unretried(s)
      PROVE  Pact(n, p, s, t, out, rest) /\ MaySay(s, t, rest, <<>>) /\ Unretried(s)
  BY <1>1, HeardAgreed, SilenceIsSaid
<1>2. <<>> \in Seq(Datagram(1..drawn))
  OBVIOUS
<1> QED
  BY <1>1, <1>2, ArrivalAgrees

LEMMA IgnoredAgrees ==
  ASSUME HInv, AInv, NEW n \in Nodes, NEW p \in Nodes, n # p, NEW in \in Arrivals(n, p),
         Ignore(n, p, in)
  PROVE  AInv'
<1>1. <<>> \in Seq(Datagram(1..drawn)) /\ Reply(n, p, in, session[n][p], told[n][p], <<>>)
  BY DEF Ignore
<1>2. Handles(n, p, in, session[n][p], told[n][p], <<>>)
  BY <1>1, ReplyHandles
<1> QED
  BY <1>2, IgnoreAgrees

LEMMA DataAgrees ==
  ASSUME HInv, AInv, NEW n \in Nodes, NEW p \in Nodes, n # p, NEW in \in Arrivals(n, p),
         NEW conv, conv = in.buf[2], in.buf[1] = 0,
         \/ RxDataOrphan(n, p, in, conv) \/ RxDataRefused(n, p, in, conv)
         \/ RxData(n, p, in, conv)
  PROVE  AInv'
<1> DEFINE s == session[n][p]
           t == session[p][n]
<1>1. conv \in 1..drawn /\ conv \in Nat /\ in.buf[4] \in 1..MaxSends /\ in.buf[5] \in 1..(MaxSends + 1)
  <2>1. in.buf \in Datagram(1..drawn) /\ drawn \in Nat
    BY ArrivalForm DEF HInv, VariablesOK
  <2>2. in.buf[2] \in 1..drawn /\ in.buf[4] \in 1..MaxSends /\ in.buf[5] \in 1..(MaxSends + 1)
    BY <2>1, Zenon DEF Datagram
  <2> QED
    BY <2>1, <2>2
<1>2. CASE RxDataOrphan(n, p, in, conv)
  <2> DEFINE x == <<encode_control("Reset", conv)>>
  <2>1. s = None /\ Reply(n, p, in, None, told[n][p], x)
    BY <1>2 DEF RxDataOrphan
  <2>2. x \in Seq(Datagram(1..drawn))
    <3>1. encode_control("Reset", conv) \in Control(3, conv)
      BY <1>1, ControlForm
    <3> QED
      BY <1>1, <3>1, SayControl, 3 \in 1..3
  <2>3. Own(x, conv)
    BY <1>1, OwnForms
  <2> HIDE DEF x
  <2>5. Handles(n, p, in, None, told[n][p], x)
    BY <2>1, <2>2, ReplyHandles
  <2>4. ASSUME NEW out \in Seq(Datagram(1..drawn)), NEW q \in Seq(Datagram(1..drawn)),
               NEW rest \in Seq(Datagram(1..drawn)),
               out = link[n][p], in.buf = q[1], Headless(q, rest),
               Pact(n, p, s, t, out, q), Unretried(s)
        PROVE  Pact(n, p, None, t, out, rest) /\ MaySay(None, t, rest, x) /\ Unretried(None)
    <3>1. Pact(n, p, None, t, out, rest)
      BY <2>1, <2>4, HeardAgreed
    <3>2. ~Waiting(None) /\ ~Est(None)
      BY DEF Waiting, Est
    <3>3. ~(Waiting(t) /\ t.conv_id = conv)
      BY <2>4 DEF Pact, Agreed, Asking, DataOf, Headless
    <3>4. MaySay(None, t, rest, x)
      BY <2>3, <3>2, <3>3 DEF MaySay, Own, AnswerOf
    <3> QED
      BY <3>1, <3>2, <3>4 DEF Unretried
  <2> QED
    BY <2>2, <2>4, <2>5, ArrivalAgrees
<1>3. CASE RxDataRefused(n, p, in, conv)
  BY <1>3, IgnoredAgrees DEF RxDataRefused
<1>4. CASE RxData(n, p, in, conv)
  <2>1. s # None /\ s.conv_id = conv
    BY <1>4 DEF RxData
  <2> DEFINE ack == 1..(in.buf[5] - 1)
             u == IF in.buf[3] = "push" THEN Arrived(Acknowledge(s, ack), in.buf[4])
                  ELSE Acknowledge(s, ack \cup {in.buf[4]})
  <2>2. Reply(n, p, in, u, told[n][p], <<>>) /\ <<>> \in Seq(Datagram(1..drawn))
    BY <1>4 DEF RxData
  <2>3. Sound(s, drawn, sends) /\ drawn \in Nat /\ sends \in Nat
    BY <2>1, EntryFacts
  <2>4. /\ Sound(u, drawn, sends) /\ u.conv_id = s.conv_id /\ u.state = s.state
        /\ u.syn_retries = s.syn_retries
    <3>1. ASSUME NEW X
          PROVE  /\ Sound(Acknowledge(s, X), drawn, sends)
                 /\ Acknowledge(s, X).conv_id = s.conv_id /\ Acknowledge(s, X).state = s.state
                 /\ Acknowledge(s, X).syn_retries = s.syn_retries
      BY <2>3, AcknowledgeIsSound, RetriesKept DEF Sound
    <3>2. PICK a : a = Acknowledge(s, ack)
      OBVIOUS
    <3>3. Sound(a, drawn, sends)
      BY <3>1, <3>2
    <3>4. /\ Sound(Arrived(a, in.buf[4]), drawn, sends)
          /\ Arrived(a, in.buf[4]).conv_id = a.conv_id /\ Arrived(a, in.buf[4]).state = a.state
      BY <1>1, <2>3, <3>3, ArrivedIsSound
    <3>5. Arrived(a, in.buf[4]).syn_retries = a.syn_retries
      BY <3>3, RetriesKept DEF Sound
    <3> QED
      BY <3>1, <3>2, <3>4, <3>5
  <2> HIDE DEF u, ack
  <2>7. Handles(n, p, in, u, told[n][p], <<>>)
    BY <2>2, ReplyHandles
  <2>5. u # None
    BY <2>3, <2>4, SoundIsSession
  <2>6. ASSUME NEW out \in Seq(Datagram(1..drawn)), NEW q \in Seq(Datagram(1..drawn)),
               NEW rest \in Seq(Datagram(1..drawn)),
               out = link[n][p], in.buf = q[1], Headless(q, rest),
               Pact(n, p, s, t, out, q), Unretried(s)
        PROVE  Pact(n, p, u, t, out, rest) /\ MaySay(u, t, rest, <<>>) /\ Unretried(u)
    <3>1. Pact(n, p, s, t, out, rest)
      BY <2>6, HeardAgreed
    <3>2. Pact(n, p, u, t, out, rest)
      BY <2>1, <2>4, <2>5, <3>1, AlikeAgreed
    <3> QED
      BY <2>1, <2>4, <2>6, <3>2, SilenceIsSaid DEF Unretried, Waiting
  <2> QED
    BY <2>2, <2>6, <2>7, ArrivalAgrees
<1> QED
  BY <1>2, <1>3, <1>4

LEMMA ResetAgrees ==
  ASSUME HInv, AInv, NEW n \in Nodes, NEW p \in Nodes, n # p, NEW in \in Arrivals(n, p),
         NEW conv, conv = in.buf[2], in.buf[1] = 3, RxReset(n, p, in, conv)
  PROVE  AInv'
<1> DEFINE s == session[n][p]
           t == session[p][n]
<1>1. CASE s # None /\ s.conv_id = conv
  <2>1. Handles(n, p, in, None, "Disconnected", <<>>) /\ <<>> \in Seq(Datagram(1..drawn))
    <3>1. Reply(n, p, in, None, "Disconnected", <<>>) /\ <<>> \in Seq(Datagram(1..drawn))
      BY <1>1 DEF RxReset
    <3> QED
      BY <3>1, ReplyHandles
  <2>2. Waiting(s) \/ Est(s)
    BY <1>1, EntryFacts DEF Waiting, Est
  <2>3. ASSUME NEW out \in Seq(Datagram(1..drawn)), NEW q \in Seq(Datagram(1..drawn)),
               NEW rest \in Seq(Datagram(1..drawn)),
               out = link[n][p], in.buf = q[1], Headless(q, rest),
               Pact(n, p, s, t, out, q), Unretried(s)
        PROVE  Pact(n, p, None, t, out, rest) /\ MaySay(None, t, rest, <<>>) /\ Unretried(None)
    <3>1. CASE Waiting(s)
      BY <1>1, <2>3, <3>1, HeardReset, SilenceIsSaid DEF Unretried, Waiting
    <3>2. CASE Est(s)
      <4>1. Pact(n, p, s, t, out, rest)
        BY <2>3, HeardAgreed
      <4> QED
        BY <3>2, <4>1, GoneAgreed, SilenceIsSaid DEF Unretried, Waiting
    <3> QED
      BY <2>2, <3>1, <3>2
  <2> QED
    BY <2>1, <2>3, ArrivalAgrees
<1>2. CASE ~(s # None /\ s.conv_id = conv)
  BY <1>2, IgnoredAgrees DEF RxReset
<1> QED
  BY <1>1, <1>2

LEMMA SynAckAgrees ==
  ASSUME HInv, AInv, NEW n \in Nodes, NEW p \in Nodes, n # p, NEW in \in Arrivals(n, p),
         NEW conv, conv = in.buf[2], in.buf[1] = 2,
         RxSynAck(n, p, in, conv) \/ RxSynAckIgnored(n, p, in, conv)
  PROVE  AInv'
<1> DEFINE s == session[n][p]
           t == session[p][n]
<1>1. CASE RxSynAck(n, p, in, conv)
  <2> DEFINE w == Established(s, conv)
             u == Flushed(w, Unacked(w))
             x == Segments(w, Unacked(w))
  <2>1. Waiting(s) /\ s.conv_id = conv /\ Reply(n, p, in, u, "Connected", x)
    BY <1>1 DEF RxSynAck, Answered, Waiting
  <2>2. conv \in 1..drawn /\ conv \in Nat /\ drawn \in Nat
    BY <2>1, EntryFacts DEF Waiting
  <2>3. /\ u \in Entries(drawn, sends) /\ u.conv_id = conv /\ u.state = "Established"
        /\ x \in Seq(Data(conv))
    BY <2>1, <2>2, CompletionForm
  <2>4. u # None
    <3>1. Sound(u, drawn, sends)
      BY <2>1, <2>2, CompletionForm
    <3> QED
      BY <2>2, <3>1, SoundIsSession
  <2> HIDE DEF u, x
  <2>5. x \in Seq(Datagram(1..drawn)) /\ Own(x, conv)
    BY <2>2, <2>3, SayData, OwnForms
  <2>8. Handles(n, p, in, u, "Connected", x)
    BY <2>1, <2>5, ReplyHandles
  <2>6. Est(u) /\ ~Waiting(u)
    BY <2>3, <2>4 DEF Est, Waiting
  <2>7. ASSUME NEW out \in Seq(Datagram(1..drawn)), NEW q \in Seq(Datagram(1..drawn)),
               NEW rest \in Seq(Datagram(1..drawn)),
               out = link[n][p], in.buf = q[1], Headless(q, rest),
               Pact(n, p, s, t, out, q), Unretried(s)
        PROVE  Pact(n, p, u, t, out, rest) /\ MaySay(u, t, rest, x) /\ Unretried(u)
    <3>1. Pact(n, p, u, t, out, rest)
      BY <2>1, <2>3, <2>6, <2>7, HeardSynAck
    <3>2. MaySay(u, t, rest, x)
      BY <2>3, <2>5, <2>6, <3>1, OwnIsSaid
    <3> QED
      BY <2>6, <3>1, <3>2 DEF Unretried
  <2> QED
    BY <2>5, <2>7, <2>8, ArrivalAgrees
<1>2. CASE RxSynAckIgnored(n, p, in, conv)
  BY <1>2, IgnoredAgrees DEF RxSynAckIgnored
<1> QED
  BY <1>1, <1>2


LEMMA SynAgrees ==
  ASSUME HInv, AInv, Wildcard = {}, NEW n \in Nodes, NEW p \in Nodes, n # p,
         NEW in \in Arrivals(n, p), NEW conv, conv = in.buf[2], in.buf[1] = 1,
         \/ RxSynCreate(n, p, in, conv) \/ RxSynSame(n, p, in, conv)
         \/ RxSynSimultaneous(n, p, in, conv)
  PROVE  AInv'
<1> DEFINE s == session[n][p]
           t == session[p][n]
           ack(c) == <<encode_control("SynAck", c)>>
<1>1. conv \in 1..drawn /\ conv \in Nat /\ drawn \in Nat /\ sends \in Nat
  <2>1. in.buf \in Datagram(1..drawn)
    BY ArrivalForm DEF HInv
  <2>2. in.buf[2] \in 1..drawn
    BY <2>1, Zenon DEF Datagram
  <2> QED
    BY <2>2, EntryFacts
<1>2. ASSUME NEW c \in 1..drawn PROVE ack(c) \in Seq(Datagram(1..drawn)) /\ Own(ack(c), c)
  <2>1. encode_control("SynAck", c) \in Control(2, c) /\ c \in Nat
    BY <1>1, ControlForm
  <2> QED
    BY <2>1, SayControl, OwnForms, 2 \in 1..3
<1> HIDE DEF ack
<1>3. CASE RxSynCreate(n, p, in, conv)
  <2> DEFINE u == NewSession(conv, "Established")
  <2>1. Reply(n, p, in, u, "Connected", ack(conv)) /\ ~Waiting(s)
    BY <1>3 DEF RxSynCreate, ack, Waiting
  <2>2. Sound(u, drawn, sends) /\ u.conv_id = conv /\ u.state = "Established"
    BY <1>1, NewIsSound
  <2> HIDE DEF u
  <2>5. Handles(n, p, in, u, "Connected", ack(conv))
    BY <1>1, <1>2, <2>1, ReplyHandles
  <2>3. Est(u) /\ ~Waiting(u)
    BY <1>1, <2>2, SoundIsSession DEF Est, Waiting
  <2>4. ASSUME NEW out \in Seq(Datagram(1..drawn)), NEW q \in Seq(Datagram(1..drawn)),
               NEW rest \in Seq(Datagram(1..drawn)),
               out = link[n][p], in.buf = q[1], Headless(q, rest),
               Pact(n, p, s, t, out, q), Unretried(s)
        PROVE  Pact(n, p, u, t, out, rest) /\ MaySay(u, t, rest, ack(conv)) /\ Unretried(u)
    <3>1. Pact(n, p, u, t, out, rest)
      BY <2>1, <2>2, <2>3, <2>4, HeardFirst
    <3>2. MaySay(u, t, rest, ack(conv))
      BY <1>1, <1>2, <2>2, <2>3, <3>1, OwnIsSaid
    <3> QED
      BY <2>3, <3>1, <3>2 DEF Unretried
  <2> QED
    BY <1>1, <1>2, <2>4, <2>5, ArrivalAgrees
<1>4. CASE RxSynSame(n, p, in, conv)
  <2> DEFINE x == IF s.state = "Established" THEN ack(conv) ELSE <<>>
  <2>1. s # None /\ s.conv_id = conv /\ Handles(n, p, in, s, told[n][p], x)
    BY <1>1, <1>4, SameHandles DEF RxSynSame, ack
  <2>2. CASE s.state = "Established"
    <3>1. Est(s) /\ Handles(n, p, in, s, told[n][p], ack(conv))
      BY <2>1, <2>2 DEF Est
    <3>2. ASSUME NEW out \in Seq(Datagram(1..drawn)), NEW q \in Seq(Datagram(1..drawn)),
               NEW rest \in Seq(Datagram(1..drawn)),
               out = link[n][p], in.buf = q[1], Headless(q, rest),
               Pact(n, p, s, t, out, q), Unretried(s)
          PROVE  Pact(n, p, s, t, out, rest) /\ MaySay(s, t, rest, ack(conv)) /\ Unretried(s)
      <4>1. Pact(n, p, s, t, out, rest)
        BY <3>2, HeardAgreed
      <4> QED
        BY <1>1, <1>2, <2>1, <3>1, <3>2, <4>1, OwnIsSaid
    <3> QED
      BY <1>1, <1>2, <3>1, <3>2, ArrivalAgrees
  <2>3. CASE s.state # "Established"
    BY <2>1, <2>3, IgnoreAgrees
  <2> QED
    BY <2>2, <2>3
<1>5. CASE RxSynSimultaneous(n, p, in, conv)
  <2> DEFINE c == TieBreak(n, p, s.conv_id, conv)
             w == Established(s, c)
             u == Flushed(w, Unacked(w))
             segs == Segments(w, Unacked(w))
             x == segs \o ack(c)
  <2>1. Waiting(s) /\ s.conv_id # conv
    BY <1>5 DEF RxSynSimultaneous, Waiting
  <2>2. c \in 1..drawn /\ c \in Nat /\ c = TieBreak(p, n, conv, s.conv_id)
    <3>1. c \in 1..drawn
      BY <1>1, <2>1, EntryFacts DEF TieBreak, Waiting
    <3>2. c = TieBreak(p, n, conv, s.conv_id)
      BY TieIsFair
    <3> HIDE DEF c
    <3> QED
      BY <1>1, <3>1, <3>2
  <2>3. c = TieBreak(n, p, s.conv_id, conv)
    OBVIOUS
  <2> HIDE DEF c
  <2>4. /\ Sound(u, drawn, sends) /\ u.conv_id = c /\ u.state = "Established"
        /\ w.conv_id = c /\ segs \in Seq(Data(c))
    BY <2>1, <2>2, CompletionForm
  <2>5. Handles(n, p, in, u, "Connected", segs \o <<encode_control("SynAck", w.conv_id)>>)
    BY <1>1, <1>5, SimultaneousHandles DEF c
  <2>6. Handles(n, p, in, u, "Connected", x)
    BY <2>4, <2>5 DEF ack
  <2> HIDE DEF u, segs, w
  <2>7. x \in Seq(Datagram(1..drawn)) /\ Own(x, c)
    <3>1. segs \in Seq(Datagram(1..drawn)) /\ Own(segs, c)
      BY <2>2, <2>4, SayData, OwnForms
    <3>2. ack(c) \in Seq(Datagram(1..drawn)) /\ Own(ack(c), c)
      BY <1>2, <2>2
    <3> QED
      BY <3>1, <3>2, OwnBoth, ConcatProperties
  <2> HIDE DEF x
  <2>8. Est(u) /\ ~Waiting(u)
    BY <1>1, <2>4, SoundIsSession DEF Est, Waiting
  <2>9. ASSUME NEW out \in Seq(Datagram(1..drawn)), NEW q \in Seq(Datagram(1..drawn)),
               NEW rest \in Seq(Datagram(1..drawn)),
               out = link[n][p], in.buf = q[1], Headless(q, rest),
               Pact(n, p, s, t, out, q), Unretried(s)
        PROVE  Pact(n, p, u, t, out, rest) /\ MaySay(u, t, rest, x) /\ Unretried(u)
    <3>1. q[1][1] = 1 /\ q[1][2] = conv /\ DOMAIN out \subseteq Nat
      BY <2>9, LenProperties
    <3>2. /\ u.conv_id = TieBreak(n, p, s.conv_id, q[1][2])
          /\ TieBreak(n, p, s.conv_id, q[1][2]) = TieBreak(p, n, q[1][2], s.conv_id)
      BY <2>2, <2>3, <2>4, <3>1
    <3>3. Pact(n, p, u, t, out, rest)
      BY <2>1, <2>8, <2>9, <3>1, <3>2, HeardSimultaneous
    <3>4. MaySay(u, t, rest, x)
      BY <2>4, <2>7, <2>8, <3>3, OwnIsSaid
    <3> QED
      BY <2>8, <3>3, <3>4 DEF Unretried
  <2> QED
    BY <2>6, <2>7, <2>9, ArrivalAgrees
<1> QED
  BY <1>3, <1>4, <1>5

LEMMA DeliverAgrees ==
  ASSUME HInv, AInv, Wildcard = {}, NEW n \in Nodes, NEW p \in Nodes, n # p, Deliver(n, p)
  PROVE  AInv'
<1>1. PICK in \in Arrivals(n, p) : handle_incoming(n, p, in)
  BY DEF Deliver
<1>2. in.buf \in Datagram(1..drawn)
  BY ArrivalForm DEF HInv
<1>3. PICK pkt \in split_packet(in.buf) :
         LET conv == Head(pkt.payload)
         IN  \/ /\ pkt.typ = "KcpData"
                /\ RxDataOrphan(n, p, in, conv) \/ RxDataRefused(n, p, in, conv) \/ RxData(n, p, in, conv)
             \/ /\ pkt.typ = "Syn"
                /\ \/ RxSynCreate(n, p, in, conv) \/ RxSynOverwrites(n, p, in, conv)
                   \/ RxSynSame(n, p, in, conv) \/ RxSynSimultaneous(n, p, in, conv)
             \/ /\ pkt.typ = "SynAck"
                /\ RxSynAck(n, p, in, conv) \/ RxSynAckIgnored(n, p, in, conv)
             \/ /\ pkt.typ = "Reset"
                /\ RxReset(n, p, in, conv)
  BY <1>1 DEF handle_incoming
<1> DEFINE conv == Head(pkt.payload)
<1>4. conv = in.buf[2] /\ in.buf[1] = Byte[pkt.typ]
  BY <1>2, SplitForm
<1> HIDE DEF conv
<1>5. /\ pkt.typ = "KcpData" => in.buf[1] = 0
      /\ pkt.typ = "Syn" => in.buf[1] = 1
      /\ pkt.typ = "SynAck" => in.buf[1] = 2
      /\ pkt.typ = "Reset" => in.buf[1] = 3
  BY <1>4 DEF Byte
<1>6. CASE pkt.typ = "KcpData" /\ (RxDataOrphan(n, p, in, conv) \/ RxDataRefused(n, p, in, conv)
                                   \/ RxData(n, p, in, conv))
  BY <1>4, <1>5, <1>6, DataAgrees
<1>7. CASE pkt.typ = "Syn" /\ (RxSynCreate(n, p, in, conv) \/ RxSynSame(n, p, in, conv)
                               \/ RxSynSimultaneous(n, p, in, conv))
  BY <1>4, <1>5, <1>7, SynAgrees
<1>10. CASE RxSynOverwrites(n, p, in, conv)
  <2>1. in.buf[2] \in 1..drawn
    BY <1>2, Zenon DEF Datagram
  <2>2. "overwrite" \in seen'
    BY <1>4, <1>10, <2>1, OverwriteHandles
  <2> QED
    BY <2>2 DEF AInv, Calm
<1>8. CASE pkt.typ = "SynAck" /\ (RxSynAck(n, p, in, conv) \/ RxSynAckIgnored(n, p, in, conv))
  BY <1>4, <1>5, <1>8, SynAckAgrees
<1>9. CASE pkt.typ = "Reset" /\ RxReset(n, p, in, conv)
  BY <1>4, <1>5, <1>9, ResetAgrees
<1> QED
  BY <1>3, <1>6, <1>7, <1>8, <1>9, <1>10 DEF conv

-----------------------------------------------------------------------------
(* What a peer does of its own accord. *)

LEMMA ActAgrees ==
  ASSUME HInv, AInv, NEW n \in Nodes, NEW p \in Nodes, n # p,
         NEW u, NEW event, NEW x, NEW disturbance, Acts(n, p, u, event, x, disturbance),
         ASSUME Calm', NEW out \in Seq(Datagram(1..drawn)), NEW q \in Seq(Datagram(1..drawn)),
                out = link[n][p], q = link[p][n],
                Pact(n, p, session[n][p], session[p][n], out, q), Unretried(session[n][p])
         PROVE  Pact(n, p, u, session[p][n], out \o x, q) /\ Unretried(u)
  PROVE  AInv'
<1>1. VariablesOK
  BY DEF HInv
<1>2. PICK out \in Seq(Datagram(1..drawn)) : out = link[n][p]
  BY <1>1 DEF VariablesOK
<1>3. PICK q \in Seq(Datagram(1..drawn)) : q = link[p][n]
  BY <1>1 DEF VariablesOK
<1>4. Step(n, p, u, event, q, x) /\ seen \subseteq seen'
  BY <1>3 DEF Acts
<1>5. ASSUME Calm' PROVE Pact(n, p, u, session[p][n], link[n][p] \o x, q) /\ Unretried(u)
  <2>1. Calm
    BY <1>4, <1>5 DEF Calm
  <2>2. Pact(n, p, session[n][p], session[p][n], out, q) /\ Unretried(session[n][p])
    BY <1>2, <1>3, <2>1 DEF AInv, PactOf
  <2>3. Pact(n, p, u, session[p][n], out \o x, q) /\ Unretried(u)
    BY <1>2, <1>3, <1>5, <2>2
  <2> QED
    BY <1>2, <2>3
<1> QED
  BY <1>4, <1>5, StepAgrees

(* An established session goes, and says so. *)
LEMMA TeardownAgrees ==
  ASSUME HInv, AInv, NEW n \in Nodes, NEW p \in Nodes, n # p, Est(session[n][p]),
         NEW segs \in Seq(Data(session[n][p].conv_id)), NEW disturbance,
         Teardown(n, p, segs, disturbance)
  PROVE  AInv'
<1> DEFINE s == session[n][p]
           t == session[p][n]
           c == s.conv_id
           reset == <<encode_control("Reset", c)>>
           x == segs \o reset
<1>1. c \in 1..drawn /\ c \in Nat /\ drawn \in Nat
  BY EntryFacts DEF Est
<1>2. Act(n, p, None, "Disconnected", x, disturbance) /\ drawn' = drawn
  BY DEF Teardown
<1>3. segs \in Seq(Datagram(1..drawn)) /\ Own(segs, c)
  <2>1. segs \in Seq(Data(c))
    OBVIOUS
  <2> HIDE DEF c
  <2> QED
    BY <1>1, <2>1, SayData, OwnForms
<1>4. reset \in Seq(Datagram(1..drawn)) /\ Own(reset, c)
  <2>1. encode_control("Reset", c) \in Control(3, c)
    BY <1>1, ControlForm
  <2> QED
    BY <1>1, <2>1, SayControl, OwnForms, 3 \in 1..3
<1> HIDE DEF reset
<1>5. x \in Seq(Datagram(1..drawn)) /\ Own(x, c)
  BY <1>3, <1>4, OwnBoth, ConcatProperties
<1> HIDE DEF x
<1>7. Acts(n, p, None, "Disconnected", x, disturbance)
  BY <1>2, <1>5, ActActs
<1>6. ASSUME NEW out \in Seq(Datagram(1..drawn)), NEW q \in Seq(Datagram(1..drawn)),
             Pact(n, p, s, t, out, q)
      PROVE  Pact(n, p, None, t, out \o x, q) /\ Unretried(None)
  <2>1. MaySay(s, t, q, x)
    BY <1>5, <1>6, OwnIsSaid
  <2>2. Extended(out, x, out \o x) /\ DOMAIN out \subseteq Nat /\ DOMAIN (out \o x) \subseteq Nat
    BY <1>5, ConcatExtended
  <2>3. PICK more : more = out \o x
    OBVIOUS
  <2>4. Pact(n, p, s, t, more, q)
    BY <1>6, <2>1, <2>2, <2>3, SaysAgreed
  <2> QED
    BY <2>3, <2>4, GoneAgreed DEF Unretried, Waiting
<1> QED
  BY <1>6, <1>7, ActAgrees

(* A session goes on; if it is established it says x, of its conversation. *)
LEMMA OwnActAgrees ==
  ASSUME HInv, AInv, NEW n \in Nodes, NEW p \in Nodes, n # p, session[n][p] # None,
         NEW u, NEW K, Sound(u, drawn, K), u.conv_id = session[n][p].conv_id,
         u.state = session[n][p].state, Waiting(u) => u.syn_retries = session[n][p].syn_retries,
         NEW x \in Seq(Datagram(1..drawn)), Own(x, session[n][p].conv_id),
         Waiting(session[n][p]) => x = <<>>, NEW event, NEW disturbance,
         Act(n, p, u, event, x, disturbance), drawn' = drawn
  PROVE  AInv'
<1> DEFINE s == session[n][p]
           t == session[p][n]
<1>3. Acts(n, p, u, event, x, disturbance)
  BY ActActs
<1>1. u # None /\ (Waiting(u) <=> Waiting(s)) /\ (Waiting(s) \/ Est(s))
  <2>1. u # None
    BY EntryFacts, SoundIsSession
  <2> QED
    BY <2>1, EntryFacts DEF Waiting, Est
<1>2. ASSUME NEW out \in Seq(Datagram(1..drawn)), NEW q \in Seq(Datagram(1..drawn)),
             Pact(n, p, s, t, out, q), Unretried(s)
      PROVE  Pact(n, p, u, t, out \o x, q) /\ Unretried(u)
  <2>1. MaySay(s, t, q, x)
    BY <1>1, <1>2, OwnIsSaid, SilenceIsSaid
  <2>2. Extended(out, x, out \o x) /\ DOMAIN out \subseteq Nat /\ DOMAIN (out \o x) \subseteq Nat
    BY ConcatExtended
  <2>3. PICK more : more = out \o x
    OBVIOUS
  <2>4. Pact(n, p, s, t, more, q)
    BY <1>2, <2>1, <2>2, <2>3, SaysAgreed
  <2>5. Pact(n, p, u, t, more, q)
    BY <1>1, <2>4, AlikeAgreed
  <2> QED
    BY <1>1, <1>2, <2>3, <2>5 DEF Unretried
<1> QED
  BY <1>2, <1>3, ActAgrees

LEMMA SendDataAgrees ==
  ASSUME HInv, AInv, NEW n \in Nodes, NEW p \in Nodes, n # p, SendData(n, p)
  PROVE  AInv'
<1> DEFINE s == session[n][p]
           u == Queue(s)
<1>1. s # None /\ sends + 1 <= MaxSends
  BY EntryFacts, HandshakeLimits DEF SendData
<1>2. Sound(s, drawn, sends) /\ drawn \in Nat /\ sends \in Nat /\ s.conv_id \in Nat
  BY <1>1, EntryFacts
<1>3. /\ Sound(u, drawn, sends + 1)
      /\ u.conv_id = s.conv_id /\ u.state = s.state
      /\ u.snd \in Unacked(u) /\ u.snd_buf[u.snd] = 0
  BY <1>1, <1>2, QueueIsSound
<1>4. u.syn_retries = s.syn_retries /\ sends + 1 \in Nat
  BY <1>2, RetriesKept DEF Sound
<1>5. CASE s.state = "Established"
  <2> DEFINE v == Flushed(u, {u.snd})
             x == Segments(u, {u.snd})
  <2>1. Act(n, p, v, told[n][p], x, {}) /\ drawn' = drawn
    BY <1>5 DEF SendData
  <2> HIDE DEF u
  <2>2. Sound(v, drawn, sends + 1) /\ v.conv_id = u.conv_id /\ v.state = "Established"
    <3>1. \A sn \in Unacked(u) : sn \in {u.snd} => u.snd_buf[sn] + 1 < DeadLink
      BY <1>3, HandshakeLimits
    <3> QED
      BY <1>2, <1>3, <1>4, <1>5, <3>1, FlushedIsSound
  <2>3. u.snd \in 1..MaxSends
    <3>1. u.snd_buf \in Buffers
      BY <1>3 DEF Sound, Records
    <3> QED
      BY <1>3, <3>1, BufferForm DEF Unacked
  <2>4. x \in Seq(Datagram(1..drawn)) /\ x \in Seq(Data(u.conv_id))
    BY <1>2, <1>3, <1>4, <2>3, SegmentsSay
  <2> HIDE DEF v, x
  <2>5. Own(x, s.conv_id)
    BY <1>2, <1>3, <2>4, OwnForms
  <2>6. v.conv_id = s.conv_id /\ v.state = s.state /\ ~Waiting(v) /\ ~Waiting(s)
    BY <1>3, <1>5, <2>2 DEF Waiting
  <2> QED
    BY <1>1, <2>1, <2>2, <2>4, <2>5, <2>6, OwnActAgrees
<1>6. CASE s.state # "Established"
  <2>1. Act(n, p, u, told[n][p], <<>>, {}) /\ drawn' = drawn
    BY <1>6 DEF SendData
  <2>2. <<>> \in Seq(Datagram(1..drawn)) /\ Own(<<>>, s.conv_id)
    BY DEF Own
  <2> HIDE DEF u
  <2> QED
    BY <1>1, <1>3, <1>4, <2>1, <2>2, OwnActAgrees
<1> QED
  BY <1>5, <1>6

LEMMA FlushAgrees ==
  ASSUME HInv, AInv, NEW n \in Nodes, NEW p \in Nodes, n # p, Est(session[n][p]),
         NEW sns \in SUBSET Unacked(session[n][p]),
         \A sn \in sns : session[n][p].snd_buf[sn] + 1 < DeadLink,
         Act(n, p, Flushed(session[n][p], sns), told[n][p], Segments(session[n][p], sns), {}), drawn' = drawn
  PROVE  AInv'
<1> DEFINE s == session[n][p]
           u == Flushed(s, sns)
           x == Segments(s, sns)
<1>1. /\ Sound(s, drawn, sends) /\ drawn \in Nat /\ sends \in Nat /\ s.conv_id \in Nat
      /\ s # None /\ s.state = "Established"
  BY EntryFacts DEF Est
<1>2. sns \in SUBSET (1..MaxSends)
  <2>1. s.snd_buf \in Buffers
    BY <1>1 DEF Sound, Records
  <2> QED
    BY <2>1, BufferForm DEF Unacked
<1>3. Sound(u, drawn, sends) /\ u.conv_id = s.conv_id /\ u.state = "Established"
  BY <1>1, FlushedIsSound
<1>4. x \in Seq(Datagram(1..drawn)) /\ x \in Seq(Data(s.conv_id))
  BY <1>1, <1>2, SegmentsSay
<1>5. Act(n, p, u, told[n][p], x, {})
  OBVIOUS
<1> HIDE DEF u, x
<1>6. Own(x, s.conv_id) /\ ~Waiting(s) /\ ~Waiting(u)
  BY <1>1, <1>3, <1>4, OwnForms DEF Waiting
<1> QED
  BY <1>1, <1>3, <1>4, <1>5, <1>6, OwnActAgrees

(* What lets a SYN arrive late is no longer Calm, and a handshake that has *)
(* a retry left is not abandoned.                                          *)
LEMMA VisitAgrees ==
  ASSUME HInv, AInv, SynMaxRetries >= 1, NEW n \in Nodes, NEW p \in Nodes, n # p,
         UpdateVisit(n, p) \/ Disconnect(n, p) \/ Idle(n, p)
  PROVE  AInv'
<1> DEFINE s == session[n][p]
<1>1. CASE RetrySyn(n, p) \/ Disconnect(n, p) \/ Idle(n, p)
  <2>1. ~Calm'
    <3>1. "retry" \in seen' \/ "close" \in seen'
      BY <1>1, Zenon DEF RetrySyn, Disconnect, Idle, Teardown, Act, Do
    <3> QED
      BY <3>1 DEF Calm
  <2> QED
    BY <2>1 DEF AInv
<1>2. CASE Abandon(n, p)
  <2>1. Waiting(s) /\ s.syn_retries >= SynMaxRetries /\ seen \subseteq seen'
    BY <1>2 DEF Abandon, Waiting, Teardown, Act, Do
  <2>2. s.syn_retries # 0
    BY <2>1, HandshakeLimits
  <2>3. ~Calm
    BY <2>1, <2>2 DEF AInv, Unretried
  <2> QED
    BY <2>1, <2>3 DEF AInv, Calm
<1>3. CASE FlushAcks(n, p)
  <2>1. {} \in SUBSET Unacked(s) /\ \A sn \in {} : s.snd_buf[sn] + 1 < DeadLink
    OBVIOUS
  <2> QED
    BY <1>3, <2>1, FlushAgrees DEF FlushAcks, Est
<1>4. ASSUME NEW sn \in 1..MaxSends, Resend(n, p, sn) PROVE AInv'
  <2>1. {sn} \in SUBSET Unacked(s) /\ \A k \in {sn} : s.snd_buf[k] + 1 < DeadLink
    BY <1>4 DEF Resend
  <2> QED
    BY <1>4, <2>1, FlushAgrees DEF Resend, Est
<1>5. ASSUME NEW sn \in 1..MaxSends, GiveUp(n, p, sn) PROVE AInv'
  <2>1. Est(s) /\ Teardown(n, p, Segments(s, {sn}), {})
    BY <1>5 DEF GiveUp, Est
  <2>2. Segments(s, {sn}) \in Seq(Data(s.conv_id))
    BY <2>1, EntryFacts, SegmentsSay DEF Est
  <2> QED
    BY <2>1, <2>2, TeardownAgrees
<1> QED
  BY <1>1, <1>2, <1>3, <1>4, <1>5 DEF UpdateVisit

LEMMA SendConnectAgrees ==
  ASSUME HInv, AInv, NEW n \in Nodes, NEW p \in Nodes, n # p, SendConnect(n, p)
  PROVE  AInv'
<1> DEFINE t == session[p][n]
           D == drawn + 1
           u == NewSession(D, "SynSent")
           e == encode_control("Syn", D)
           x == <<e>>
<1>1. session[n][p] = None /\ Acts(n, p, u, told[n][p], x, {})
  BY ConnectActs
<1>2. drawn \in Nat /\ sends \in Nat /\ D \in Nat /\ D \in 1..D
  BY EntryFacts
<1>5. Sound(u, D, sends) /\ u.conv_id = D /\ u.state = "SynSent" /\ u.syn_retries = 0
  <2>1. u.syn_retries = 0
    BY DEF NewSession
  <2> QED
    BY <1>2, <2>1, NewIsSound
<1>6. e \in Control(1, D)
  BY <1>2, ControlForm
<1>7. x \in Seq(Datagram(1..D)) /\ DOMAIN x = {1} /\ x[1] = e /\ Len(x) = 1
  <2>1. x \in Seq(Datagram(1..D))
    BY <1>2, <1>6, SayControl, 1 \in 1..3
  <2> HIDE DEF e
  <2> QED
    BY <2>1
<1>8. SynOf(e, D)
  BY <1>6 DEF Control, Datagram, SynOf
<1> HIDE DEF e, x, u
<1>9. Waiting(u)
  BY <1>2, <1>5, SoundIsSession DEF Waiting
<1>10. t # None => t.conv_id # D
  BY EntryFacts
<1>11. Seq(Datagram(1..drawn)) \subseteq Seq(Datagram(1..D))
  BY <1>2, EntriesGrow
<1>12. ASSUME NEW q \in Seq(Datagram(1..drawn)) PROVE Unheard(q, D)
  <2>1. ASSUME NEW i \in DOMAIN q PROVE q[i][2] # D
    <3>1. q[i] \in Datagram(1..drawn)
      BY LenProperties, ElementOfSeq
    <3>2. q[i][2] \in 1..drawn
      BY <3>1, Zenon DEF Datagram
    <3> QED
      BY <1>2, <3>2
  <2> QED
    BY <2>1 DEF Unheard
<1> HIDE DEF D
<1>13. ASSUME NEW out \in Seq(Datagram(1..drawn)), NEW q \in Seq(Datagram(1..drawn)),
              Pact(n, p, session[n][p], t, out, q)
       PROVE  Pact(n, p, u, t, out \o x, q) /\ Unretried(u)
  <2>1. out \in Seq(Datagram(1..D)) /\ Unheard(out, D) /\ Unheard(q, D)
    BY <1>11, <1>12
  <2>2. Extended(out, x, out \o x) /\ DOMAIN out \subseteq Nat /\ DOMAIN (out \o x) \subseteq Nat
    BY <1>7, <2>1, ConcatExtended
  <2>3. PICK more : more = out \o x
    OBVIOUS
  <2>4. PICK last \in DOMAIN more : \A i \in DOMAIN more : i \in DOMAIN out \/ i = last
    <3>1. /\ \A i \in DOMAIN (out \o x) : i \notin DOMAIN out => \E k \in DOMAIN x : i = Len(out) + k
          /\ \A k \in DOMAIN x : Len(out) + k \in DOMAIN (out \o x)
      BY <1>7, <2>1, ConcatIndices
    <3>2. Len(out) + 1 \in DOMAIN more
      BY <1>7, <2>3, <3>1
    <3>3. \A i \in DOMAIN more : i \in DOMAIN out \/ i = Len(out) + 1
      BY <1>7, <2>3, <3>1
    <3> QED
      BY <3>2, <3>3
  <2>5. \A k \in DOMAIN x : SynOf(x[k], D)
    BY <1>7, <1>8
  <2>6. Pact(n, p, None, t, out, q)
    BY <1>1, <1>13
  <2>7. Pact(n, p, u, t, more, q)
    BY <1>5, <1>9, <1>10, <2>1, <2>2, <2>3, <2>4, <2>5, <2>6, BeginsAgreed
  <2> QED
    BY <1>5, <2>3, <2>7 DEF Unretried
<1> QED
  BY <1>1, <1>13, ActAgrees


-----------------------------------------------------------------------------
(* The environment: whatever is lost, what is left is in order. *)

LEMMA LoseAgrees ==
  ASSUME HInv, AInv, NEW n \in Nodes, NEW p \in Nodes, n # p, NEW i \in DOMAIN net[n][p],
         Lose(n, p, i)
  PROVE  AInv'
<1> DEFINE left == RemoveAt(link[n][p], i)
<1>1. /\ link' = [link EXCEPT ![n][p] = left] /\ seen' = seen \cup {"loss"}
      /\ session' = session /\ i \in DOMAIN link[n][p]
  BY LoseLinks
<1>2. \A a, b \in Nodes : link'[a][b] = IF a = n /\ b = p THEN left ELSE link[a][b]
  <2>1. PICK X : link \in [Nodes -> [Nodes -> X]]
    BY DEF HInv, VariablesOK
  <2> HIDE DEF left
  <2> QED
    BY <1>1, <2>1
<1>3. Thinned(link[n][p], left) /\ DOMAIN link[n][p] \subseteq Nat /\ DOMAIN left \subseteq Nat
  <2>1. PICK q \in Seq(Datagram(1..drawn)) : q = link[n][p]
    BY DEF HInv, VariablesOK
  <2>2. i \in DOMAIN q
    BY <1>1, <2>1
  <2>3. Thinned(q, RemoveAt(q, i)) /\ DOMAIN q \subseteq Nat /\ DOMAIN RemoveAt(q, i) \subseteq Nat
    BY <2>2, RemoveAtThinned
  <2> QED
    BY <2>1, <2>3
<1> HIDE DEF left
<1> SUFFICES ASSUME Calm', NEW a \in Nodes, NEW b \in Nodes, a # b
             PROVE  /\ Pact(a, b, session[a][b], session[b][a], link'[a][b], link'[b][a])
                    /\ Unretried(session[a][b])
  BY <1>1 DEF AInv, PactOf, Unretried, Waiting
<1>4. Calm
  BY <1>1 DEF Calm
<1>5. Pact(a, b, session[a][b], session[b][a], link[a][b], link[b][a]) /\ Unretried(session[a][b])
  BY <1>4 DEF AInv, PactOf
<1>6. Pact(p, n, session[p][n], session[n][p], link[p][n], left)
  <2>1. Pact(p, n, session[p][n], session[n][p], link[p][n], link[n][p])
    BY <1>4 DEF AInv, PactOf
  <2> QED
    BY <1>3, <2>1, ThinnedAgreed
<1>7. Pact(n, p, session[n][p], session[p][n], left, link[p][n])
  BY <1>6, PactIsMutual
<1>8. CASE a = n /\ b = p
  <2>1. link'[a][b] = left /\ link'[b][a] = link[p][n]
    BY <1>2, <1>8
  <2> QED
    BY <1>5, <1>7, <1>8, <2>1
<1>9. CASE a = p /\ b = n
  <2>1. link'[a][b] = link[p][n] /\ link'[b][a] = left
    BY <1>2, <1>9
  <2> QED
    BY <1>5, <1>6, <1>9, <2>1
<1>10. CASE ~(a = n /\ b = p) /\ ~(a = p /\ b = n)
  <2>1. link'[a][b] = link[a][b] /\ link'[b][a] = link[b][a]
    BY <1>2, <1>10
  <2> QED
    BY <1>5, <2>1
<1> QED
  BY <1>8, <1>9, <1>10

(* What was about to be sent is sent in its turn, or no longer Calm. *)
LEMMA TransmitAgrees ==
  ASSUME HInv, AInv, NEW n \in Nodes, NEW p \in Nodes, NEW i \in DOMAIN unsent[n][p], Transmit(n, p, i)
  PROVE  AInv'
<1>1. session' = session /\ seen \subseteq seen' /\ ("late" \notin seen' => link' = link)
  BY TransmitLinks
<1>2. Calm' => Calm /\ link' = link
  BY <1>1 DEF Calm
<1> QED
  BY <1>1, <1>2 DEF AInv, PactOf, Unretried, Waiting

-----------------------------------------------------------------------------

LEMMA InitAgrees == Init => AInv
<1> SUFFICES ASSUME Init, NEW n \in Nodes, NEW p \in Nodes
             PROVE  PactOf(n, p) /\ Unretried(session[n][p])
  BY DEF AInv
<1>1. /\ session[n][p] = None /\ session[p][n] = None
      /\ link[n][p] = <<>> /\ link[p][n] = <<>>
  BY InitLinks DEF Init
<1>2. ~Waiting(None) /\ ~Est(None) /\ DOMAIN <<>> = {}
  BY DEF Waiting, Est
<1>3. Pact(n, p, None, None, <<>>, <<>>) /\ Unretried(None)
  BY <1>2 DEF Pact, Agreed, Asking, Crossing, Unretried
<1> QED
  BY <1>1, <1>3 DEF PactOf

LEMMA StepsAgree ==
  ASSUME Wildcard = {}, SynMaxRetries >= 1, HInv, AInv, [Next]_vars
  PROVE  AInv'
<1>1. ASSUME NEW np \in Pairs,
             LET n == np[1]
                 p == np[2]
             IN  \/ Deliver(n, p)
                 \/ SendConnect(n, p) \/ SendData(n, p) \/ Disconnect(n, p)
                 \/ UpdateVisit(n, p) \/ Idle(n, p)
                 \/ \E i \in DOMAIN unsent[n][p] : Transmit(n, p, i)
                 \/ \E i \in DOMAIN net[n][p] : Lose(n, p, i)
      PROVE  AInv'
  <2>1. PICK n \in Nodes, p \in Nodes : n # p /\ np[1] = n /\ np[2] = p
    BY DEF Pairs
  <2>2. CASE Deliver(n, p)
    BY <2>1, <2>2, DeliverAgrees
  <2>3. CASE SendConnect(n, p)
    BY <2>1, <2>3, SendConnectAgrees
  <2>4. CASE SendData(n, p)
    BY <2>1, <2>4, SendDataAgrees
  <2>5. CASE UpdateVisit(n, p) \/ Disconnect(n, p) \/ Idle(n, p)
    BY <2>1, <2>5, VisitAgrees
  <2>6. ASSUME NEW i \in DOMAIN net[n][p], Lose(n, p, i) PROVE AInv'
    BY <2>1, <2>6, LoseAgrees
  <2>7. ASSUME NEW i \in DOMAIN unsent[n][p], Transmit(n, p, i) PROVE AInv'
    BY <2>7, TransmitAgrees
  <2> QED
    BY <1>1, <2>1, <2>2, <2>3, <2>4, <2>5, <2>6, <2>7
<1>2. ASSUME NEW n \in Nodes, Crash(n) PROVE AInv'
  <2>1. "crash" \in seen'
    BY <1>2 DEF Crash
  <2> QED
    BY <2>1 DEF AInv, Calm
<1>3. CASE UNCHANGED vars
  <2>1. link' = link
    BY <1>3, LinkJoins DEF vars
  <2> QED
    BY <1>3, <2>1 DEF vars, AInv, Calm, PactOf, Unretried, Waiting
<1> QED
  BY <1>1, <1>2, <1>3 DEF Next

(* Both ends established are in one conversation, at every moment. *)
EndsAlike ==
    Calm => \A np \in Pairs :
        (Est(session[np[1]][np[2]]) /\ Est(session[np[2]][np[1]]))
            => session[np[1]][np[2]].conv_id = session[np[2]][np[1]].conv_id

(* Whoever sends first, or both at once, and whatever is lost: an end that *)
(* is established while the other is, is in the conversation of the other, *)
(* whatever is still on its way between them.  For any number of peers and *)
(* messages, as long as no SYN is sent again, nobody restarts or           *)
(* disconnects, and no datagram is overtaken, in the network or by what    *)
(* its own sender sends while it waits to be sent: where a first SYN is    *)
(* (session.rs:173-175), the claim is false, see AgreedSessionSurvives.    *)
(* The tie-break of transport.rs:701-724 compares socket.local_addr(), so  *)
(* no peer may be bound to the unspecified address.  And a retry must be   *)
(* allowed (syn_max_retries): without any, a session is abandoned at the   *)
(* first timeout, and when the RESET is lost its SYN is answered all the   *)
(* same.                                                                   *)
THEOREM NeverApart ==
  ASSUME Wildcard = {}, SynMaxRetries >= 1
  PROVE  Spec => []EndsAlike
<1>1. AInv => EndsAlike
  <2> SUFFICES ASSUME AInv, Calm, NEW np \in Pairs,
                      Est(session[np[1]][np[2]]), Est(session[np[2]][np[1]])
               PROVE  session[np[1]][np[2]].conv_id = session[np[2]][np[1]].conv_id
    BY DEF EndsAlike
  <2>1. PICK n \in Nodes, p \in Nodes : n # p /\ np[1] = n /\ np[2] = p
    BY DEF Pairs
  <2>2. PactOf(n, p)
    BY <2>1 DEF AInv
  <2> QED
    BY <2>1, <2>2 DEF PactOf, Pact, Agreed
<1>2. HInv /\ AInv /\ [Next]_vars => AInv'
  BY StepsAgree
<1> QED
  BY <1>1, <1>2, InitAgrees, Invariance, PTL DEF Spec

(* In particular when nothing is on its way any more: the two ends have    *)
(* settled on one conversation (transport.rs:701-724, 771).                *)
THEOREM EndsAgree ==
  ASSUME Wildcard = {}, SynMaxRetries >= 1
  PROVE  Spec => []Agreement
<1>1. EndsAlike => Agreement
  BY DEF EndsAlike, Agreement, Settled, Calm, Est
<1>2. Spec => []EndsAlike
  BY NeverApart
<1> QED
  BY <1>1, <1>2, PTL

=============================================================================
