-------------------------- MODULE MCEnvelopeCodec --------------------------
EXTENDS EnvelopeCodec

a == <<97>>

Entry(k, v) == [key |-> k, value |-> v]
Plainest    == [field |-> <<>>, code |-> <<>>, message |-> <<>>, args |-> <<>>]

Error(args, details, metadata) ==
  <<[code |-> a, message |-> <<>>, args |-> args, details |-> details, metadata |-> metadata]>>

Env(status, transport, bytes, error) ==
  [status |-> status, transport_error |-> transport, data |-> bytes, error |-> error]

\* Every field present and absent, numbers of one byte, of two and negative,
\* empty values where an encoding drops or keeps them, and lists of up to two.
MCEnvelopes ==
  {Env(0, <<>>, <<>>, <<>>), Env(200, a, <<0, 200>>, <<>>), Env(-1, <<>>, <<>>, <<>>),
   Env(0, <<>>, <<>>, Error(<<>>, <<>>, <<>>)),
   Env(1, <<>>, <<>>, Error(<<a, <<>>>>, <<Plainest>>, <<>>)),
   Env(0, <<>>, <<>>, Error(<<>>, <<[Plainest EXCEPT !.code = a, !.args = <<a, a>>]>>,
                            <<Entry(<<>>, <<>>)>>)),
   Env(0, <<>>, <<>>, Error(<<>>, <<>>, <<Entry(a, <<>>), Entry(<<98>>, a)>>))}

MCSent == {Sending(e) : e \in MCEnvelopes}

\* Bytes that stand for other tags, lengths and ends of varints: the fields of
\* each message, unknown fields of every wire type, no field, no wire type.
Noise == {0, 1, 3, 8, 10, 34, 42, 48, 49, 50, 51, 53, 55, 128, 255}

Encodings == {s.bytes : s \in MCSent}

Take(s, n) == [i \in {k \in DOMAIN s : k <= n} |-> s[i]]
Skip(s, n) == [i \in 1..(Len(s) - n) |-> s[i + n]]

\* A byte left out, put in, or put in the place of another.
Edited == {Take(s, i) \o b \o Skip(s, i + cut) : s \in Encodings, i \in 0..22, cut \in {0, 1},
                                      b \in {<<>>} \cup {<<n>> : n \in Noise}}

Truncated == {Take(s, n) : s \in Encodings, n \in 0..22}

\* A length that wraps the position around, and a varint of too many bytes.
Extremes == {<<10, 255, 255, 255, 1>>, <<34, 254, 255, 255, 1>>, <<26, 255, 255, 255, 127, 0>>,
             <<8, 255, 255, 255, 255, 1>>, <<128, 128, 128, 1>>}

\* What was sent, changed by a byte or cut short, and two envelopes one after
\* the other.
Altered == Edited \cup Truncated \cup Extremes \cup {s \o t : s \in Encodings, t \in Encodings}

Bounds(size, depths, counts) ==
  {[max_message_size |-> size, max_nesting_depth |-> d, max_repeated_count |-> n] :
     d \in depths, n \in counts}

Decoding(docs, bounds) == {[data |-> d, limits |-> l] : d \in docs, l \in bounds}

\* What was sent, under every limit; what was altered, under some.
MCDecodes ==
  {d : d \in Decoding(Encodings, Bounds(18, 0..2, 0..2) \cup Bounds(99, 0..3, 0..2))
        \cup Decoding(Altered, Bounds(99, {2}, {1, 2}))}
=============================================================================
