------------------------------ MODULE PeerLink -------------------------------
(***************************************************************************)
(* What a KcpPeer promises whoever subscribes to its events (the Event     *)
(* enum and the section "Event ordering" of src/transport.rs), peer by     *)
(* peer: which events can follow which, and what is true of the session    *)
(* when one is sent.  KcpPeer is shown to implement this.                  *)
(***************************************************************************)
CONSTANT Peers

VARIABLES
    link,   \* link[p]: the state of the session with p, if any
    told,   \* told[p]: the latest event about p
    due     \* due[p]: a session ended by a RESET is yet to be reported

vars == <<link, told, due>>

Init ==
    /\ link = [p \in Peers |-> "Down"]
    /\ told = [p \in Peers |-> "none"]
    /\ due = [p \in Peers |-> FALSE]

(* send() begins a handshake, silently, and only where there is nothing. *)
Begin(p) ==
    /\ link[p] = "Down"
    /\ link' = [link EXCEPT ![p] = "Handshaking"]
    /\ UNCHANGED <<told, due>>

(* A session is established: never a second one beside or over a session   *)
(* that is up, and never before the end of the one before was reported.    *)
Complete(p) ==
    /\ link[p] # "Up"
    /\ ~due[p]
    /\ link' = [link EXCEPT ![p] = "Up"]
    /\ told' = [told EXCEPT ![p] = "Connected"]
    /\ UNCHANGED due

(* The peer came back: only a session that is up can be restarted. *)
Restart(p) ==
    /\ link[p] = "Up"
    /\ ~due[p]
    /\ link' = [link EXCEPT ![p] = "Restarting"]
    /\ told' = [told EXCEPT ![p] = "PeerRestarted"]
    /\ UNCHANGED due

(* A session ends and that is reported at once: disconnect(), timeouts. *)
End(p) ==
    /\ link[p] # "Down"
    /\ link' = [link EXCEPT ![p] = "Down"]
    /\ told' = [told EXCEPT ![p] = "Disconnected"]
    /\ UNCHANGED due

(* A RESET ends it first and reports it later; a handshake may begin in    *)
(* between.                                                                *)
Vanish(p) ==
    /\ ~due[p]
    /\ link' = [link EXCEPT ![p] = "Down"]
    /\ due' = [due EXCEPT ![p] = TRUE]
    /\ UNCHANGED told

Report(p) ==
    /\ due[p]
    /\ link[p] \in {"Down", "Handshaking"}
    /\ told' = [told EXCEPT ![p] = "Disconnected"]
    /\ due' = [due EXCEPT ![p] = FALSE]
    /\ UNCHANGED link

Next == \E p \in Peers : Begin(p) \/ Complete(p) \/ Restart(p) \/ End(p) \/ Vanish(p) \/ Report(p)

Spec == Init /\ [][Next]_vars

=============================================================================
