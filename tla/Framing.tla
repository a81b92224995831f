------------------------------ MODULE Framing ------------------------------
(***************************************************************************)
(* The encodings of the client and of the host application: client payloads *)
(* (crates/jq-client/src/framing.rs), application frames and peer invites   *)
(* (crates/demo/src/lib.rs).  A byte string is a sequence of fields: a magic *)
(* prefix and a node id in a frame are one field each, an invite is a       *)
(* sequence of words, blanks and hex digits.                                *)
(***************************************************************************)
EXTENDS Naturals, SequencesExt

(* The answer of a decoder that refuses, where it gives no reason.         *)
NotAFrame == [type |-> "none"]

-----------------------------------------------------------------------------
(* Client payloads *)

ClientMagic == "JQCLIENT"

EncodeClientPayload(payload) == <<ClientMagic>> \o payload

DecodeClientPayload(bytes) ==
    IF IsPrefix(<<ClientMagic>>, bytes) THEN [type |-> "payload", payload |-> Tail(bytes)]
    ELSE NotAFrame

-----------------------------------------------------------------------------
(* Application frames: magic, source, destination, payload *)

AppMagic == "JQBLEAPP"
HeaderLen == 3

EncodeApplicationFrame(from, destination, payload) == <<AppMagic, from, destination>> \o payload

DecodeApplicationFrame(bytes) ==
    IF Len(bytes) < HeaderLen \/ ~IsPrefix(<<AppMagic>>, bytes) THEN NotAFrame
    ELSE [type |-> "frame", from |-> bytes[2], destination |-> bytes[3],
          payload |-> SubSeq(bytes, HeaderLen + 1, Len(bytes))]

-----------------------------------------------------------------------------
(* Peer invites *)

Scheme == "jq-ble"
ActionPath == <<"/", "add-peer/">>
Blank == " "
HexDigits == {"0", "1"}
IdLength == 2     \* 64 digits in the code

EncodePeerInvite(id) == <<Scheme, "://">> \o ActionPath \o id

Trim(text) ==
    LET visible == {i \in DOMAIN text : text[i] # Blank}
    IN  IF visible = {} THEN <<>> ELSE SubSeq(text, Min(visible), Max(visible))

(* The part after the scheme, with a slash in front.                       *)
InvitePath(remainder) ==
    IF IsPrefix(<<"/">>, remainder) THEN remainder ELSE <<"/">> \o remainder

(* The node id, or the error.                                              *)
InviteFor(id) == [id |-> id]
InviteError(name) == [error |-> name]

NodeIdFromHex(text) ==
    IF Len(text) # IdLength THEN InviteError("InvalidNodeIdLength")
    ELSE IF ~(ToSet(text) \subseteq HexDigits) THEN InviteError("InvalidNodeIdHex")
    ELSE InviteFor(text)

(* A link with the scheme and the action path, or a plain node id.         *)
DecodePeerInvite(invite) ==
    LET trimmed == Trim(invite)
        ends    == {i \in DOMAIN trimmed : trimmed[i] = "://"}
        at      == Min(ends)
        path    == InvitePath(SubSeq(trimmed, at + 1, Len(trimmed)))
    IN  IF trimmed = <<>> THEN InviteError("Empty")
        ELSE IF ends = {} THEN NodeIdFromHex(trimmed)
        ELSE IF SubSeq(trimmed, 1, at - 1) # <<Scheme>> THEN InviteError("InvalidScheme")
        ELSE IF ~IsPrefix(ActionPath, path) THEN InviteError("InvalidFormat")
        ELSE NodeIdFromHex(Trim(SubSeq(path, Len(ActionPath) + 1, Len(path))))
=============================================================================
