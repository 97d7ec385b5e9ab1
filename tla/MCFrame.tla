------------------------------ MODULE MCFrame ------------------------------
(* FrameParser for TLC: payloads that look like a header, each kind of error, and text *)
(* on both sides of every boundary of the two encodings. *)
EXTENDS FrameParser

MCPayload == {<<>>, <<19, 87, 1>>}

Plain == {0, 65, 127, 128, 2047, 2048, 55295, 57344, 65535}
Surrogate == {55296, 56319, 56320, 57343}
MCText == {<<>>} \cup {<<x>> : x \in Plain}
            \cup {<<x, y>> : x, y \in Surrogate \cup {65}}
            \cup {<<55296, 56319, 57343>>, <<56319, 56320, 56320>>, <<2048, 55296, 65>>}

\* Wrong magic, a width that is none, a negative length, one over the limit.
MCMalformed == {[bytes |-> <<19, 19, 1, 0>>, needs |-> 3],
                [bytes |-> <<19, 87, 3, 0, 0, 0>>, needs |-> 3],
                [bytes |-> <<19, 87, 1, 255>>, needs |-> 4],
                [bytes |-> <<19, 87, 4, 254, 255, 255, 255>>, needs |-> 7],
                [bytes |-> <<19, 87, 2, 10, 0, 7, 7, 7, 7>>, needs |-> 5]}
=============================================================================
