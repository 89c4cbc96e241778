------------------------------ MODULE Payload -------------------------------
(***************************************************************************)
(* What the receivers of the daemon's bytes make of them: the widget that  *)
(* decodes the payload of state.ini, and the host that checks the checksum *)
(* of an echo request.                                                     *)
(***************************************************************************)
EXTENDS Encodings

VARIABLE input      \* what is encoded, and which encoding it is meant for

\* The payload of state.ini decodes to the bytes base64Encode was given, whatever
\* their number leaves over when divided by three.
PayloadDecodes ==
    input.kind = "bytes" =>
        /\ Readable(base64Encode(input.is))
        /\ Decoded(base64Encode(input.is)) = input.is

\* A packet with the checksum in its checksum field is valid to the receiver of an
\* echo request: in ones' complement its words sum up to minus zero (RFC 1071);
\* carries, an odd last byte and a packet of zeros included (internetChecksum).
ChecksumVerifies ==
    input.kind = "bytes" =>
        LET sum == internetChecksum(<< 0, 0 >> \o input.is)
            total == Total(Weighed(<< sum % 256, sum \div 256 >> \o input.is))
        IN total > 0 /\ total % 65535 = 0
=============================================================================
