------------------------------- MODULE Session -------------------------------
(***************************************************************************)
(* One peer session (src/session.rs): the state behind an Arc<Session> and *)
(* what each method does to it.  A method that takes the session mutex is  *)
(* one operator here: the callers' modules decide when it runs.            *)
(*                                                                         *)
(* The KCP control block is the external kcp crate.  Of it the transport   *)
(* only sees whether data waits unflushed in its send queue, is on the     *)
(* wire unacknowledged, or has exhausted its retransmissions.  Wall-clock  *)
(* fields (last_rx, syn_sent_at) are abstracted: a retry may be due, and a *)
(* session may be idle, at any tick.                                       *)
(***************************************************************************)
EXTENDS Naturals

CONSTANTS
    Peers,          \* canonical remote addresses
    Conv,           \* conversation identifiers, drawn at random by the code
    None,           \* no address, conversation or session
    SynMaxRetries   \* KcpConfig::syn_max_retries

ASSUME SynMaxRetriesNat == SynMaxRetries \in Nat
ASSUME NoneIsNoPeer == None \notin Peers
ASSUME NoneIsNoConv == None \notin Conv

SessionState == {"SynSent", "Established"}

(* Empty: nothing to send.  Queued: something accepted by kcp.send was     *)
(* never flushed.  InFlight: all of it flushed, not all acknowledged.      *)
(* DeadLink: is_dead_link().                                               *)
Kcp == {"Empty", "Queued", "InFlight", "DeadLink"}

Session ==
    [peer_addr : Peers \cup {None}, conv_id : Conv \cup {None},
     state : SessionState, closed : BOOLEAN,
     syn_retries : 0..SynMaxRetries, kcp : Kcp]

(* Memory no Arc points to. *)
Freed ==
    [peer_addr |-> None, conv_id |-> None, state |-> "SynSent",
     closed |-> TRUE, syn_retries |-> 0, kcp |-> "Empty"]

-----------------------------------------------------------------------------
(* The kcp crate, as src/ uses it. *)

(* kcp.update, which flushes when its interval is due, and kcp.flush:      *)
(* queued segments go out, unless the interval is not due, the window is   *)
(* full or the socket fails; overdue ones go out again, and one sent       *)
(* maximum_resend_times kills the link.                                    *)
KcpDrive(k) ==
    CASE k = "Queued"   -> {"Queued", "InFlight", "DeadLink"}
      [] k = "InFlight" -> {"InFlight", "DeadLink"}
      [] OTHER          -> {k}

(* kcp.input: an acknowledgement may empty the flight. *)
KcpInput(k) == IF k = "InFlight" THEN {"InFlight", "Empty"} ELSE {k}

-----------------------------------------------------------------------------

NewOutbound(conv, peer) ==
    [peer_addr |-> peer, conv_id |-> conv, state |-> "SynSent",
     closed |-> FALSE, syn_retries |-> 0, kcp |-> "Empty"]

NewInbound(conv, peer) ==
    [peer_addr |-> peer, conv_id |-> conv, state |-> "Established",
     closed |-> FALSE, syn_retries |-> 0, kcp |-> "Empty"]

MarkClosed(s) == [s EXCEPT !.closed = TRUE]

(* send_data once the closed flag was read as false: a dead link refuses   *)
(* the data, kcp.send may refuse it (the unchanged outcome), and accepted  *)
(* data is driven out at once only on an established session.              *)
SendDataEager(s) ==
    {s} \cup {[s EXCEPT !.kcp = k] : k \in KcpDrive("Queued")}

SendData(s) ==
    IF s.kcp = "DeadLink" THEN {s}
    ELSE {s} \cup {[s EXCEPT !.kcp = k] :
                      k \in IF s.state = "Established" THEN KcpDrive("Queued") ELSE {"Queued"}}

(* The handshake completes: conversation and state are set and whatever    *)
(* was queued while SynSent is driven out, under one hold of the mutex;    *)
(* an error of the drive is ignored.                                       *)
Establish(s, conv) ==
    {[s EXCEPT !.state = "Established", !.conv_id = conv, !.kcp = k] : k \in KcpDrive(s.kcp)}

(* Which conversation two simultaneous initiators keep, seen from one of   *)
(* them: the peer's if its address is the higher one, else our own.        *)
TieBreak(s, conv, peerIsHigher) == IF peerIsHigher THEN conv ELSE s.conv_id

-----------------------------------------------------------------------------

(* Nothing of what a handshaking session queued has reached the wire. *)
Buffered(s) == s.state = "SynSent" => s.kcp \in {"Empty", "Queued"}

=============================================================================
