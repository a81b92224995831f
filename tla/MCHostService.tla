--------------------------- MODULE MCHostService ---------------------------
(* Model-checking instance of HostService: two overlapping start calls, and *)
(* the encodings of Framing over small inputs.                              *)
EXTENDS HostService

CONSTANTS c1, c2

MCCaller == {c1, c2}
MCWithSink == {c2}
MCLocal == "n1"

(* Client traffic with and without an application frame, for this node and *)
(* for another one, a frame cut short, and traffic that is not the client's. *)
MCReceived ==
    {EncodeClientPayload(EncodeApplicationFrame("n2", to, <<"data">>)) : to \in {"n1", "n3"}}
        \cup {EncodeClientPayload(<<AppMagic, "n2">>), EncodeClientPayload(<<"data">>),
              EncodeApplicationFrame("n2", "n1", <<>>)}

-----------------------------------------------------------------------------
TestIds == [1 .. IdLength -> HexDigits]
TestPayloads == BoundedSeq({"data", AppMagic, ClientMagic}, 2)

(* Both layers give back what was put in, a payload that looks like a      *)
(* frame included, and a decoder takes nothing an encoder would not make.  *)
ASSUME FramesRoundTrip ==
    /\ \A payload \in TestPayloads, from \in {"n1", "n2"}, to \in {"n1", "n2"} :
          LET outer == DecodeClientPayload(
                           EncodeClientPayload(EncodeApplicationFrame(from, to, payload)))
              inner == DecodeApplicationFrame(outer.payload)
          IN  inner.from = from /\ inner.destination = to /\ inner.payload = payload
    /\ \A bytes \in BoundedSeq({"data", "n1", AppMagic, ClientMagic}, 4) :
          /\ LET d == DecodeClientPayload(bytes)
             IN  d # NotAFrame => EncodeClientPayload(d.payload) = bytes
          /\ LET d == DecodeApplicationFrame(bytes)
             IN  d # NotAFrame =>
                     EncodeApplicationFrame(d.from, d.destination, d.payload) = bytes

(* An invite is accepted exactly if it is, up to blanks around it and      *)
(* around the id, the link the encoder makes, that link with one slash     *)
(* less, or the plain id, and then it gives this id.                       *)
ASSUME InvitesMatchReference ==
    LET Blanks == BoundedSeq({Blank}, 2)
        Forms(id) ==
            {b \o id \o c : b \in Blanks, c \in Blanks}
                \cup {b \o <<Scheme, "://">> \o path \o d \o id \o c :
                         b \in Blanks, c \in Blanks, d \in Blanks,
                         path \in {ActionPath, Tail(ActionPath)}}
        accepted == UNION {{<<text, id>> : text \in Forms(id)} : id \in TestIds}
        texts == BoundedSeq({Blank, Scheme, "://", "/", "0"}, 4)
                     \cup {t[1] : t \in accepted}
                     \cup {Tail(t[1]) : t \in accepted}
    IN  /\ \A id \in TestIds : <<EncodePeerInvite(id), id>> \in accepted
        /\ \A text \in texts, id \in TestIds :
              (DecodePeerInvite(text) = InviteFor(id)) = (<<text, id>> \in accepted)
=============================================================================
