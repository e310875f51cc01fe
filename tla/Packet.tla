------------------------------- MODULE Packet --------------------------------
(***************************************************************************)
(* The wire format (src/packet.rs): a datagram is a type byte followed by  *)
(* a payload.  A datagram is a sequence of words: the type byte, then the  *)
(* conversation (four bytes, little endian, in a control packet and at the *)
(* head of a KCP segment alike), then what else a KCP segment carries.     *)
(***************************************************************************)
EXTENDS Naturals, Sequences

PacketType == {"KcpData", "Syn", "SynAck", "Reset"}

(* The discriminants of the enum, and PacketType::from_byte. *)
Byte == [KcpData |-> 0, Syn |-> 1, SynAck |-> 2, Reset |-> 3]

FromByte(b) == {typ \in PacketType : Byte[typ] = b}

encode_control(typ, conv) == <<Byte[typ], conv>>

(* DirectOutput::write prefixes a KCP segment. *)
encode_kcp_data(segment) == <<Byte["KcpData"]>> \o segment

(* split_packet: nothing comes out of an empty datagram or an unknown type. *)
split_packet(buf) ==
    {[typ |-> typ, payload |-> Tail(buf)] :
        typ \in IF buf = <<>> THEN {} ELSE FromByte(Head(buf))}

=============================================================================
