---------------------------- MODULE MCChannelTCP ----------------------------
(***************************************************************************)
(* ChannelTCP on small instances.                                          *)
(***************************************************************************)
EXTENDS ChannelTCP

\* Two messages and an end of stream, and two messages of which the first one has binary data
\* that looks like an end of message and is longer than the buffer; each may be cut short by
\* the end of file.
Text == <<"E", "1", "x", "E", "0", "x", "E", "1", "E", "2">>
Binary == <<"E", "3", "s2", "E", "1", "x", "x", "E", "1", "E", "1">>

MCInputs == {SubSeq(Text, 1, n) : n \in {7, 10}} \cup
            {SubSeq(Binary, 1, n) : n \in {4, 11}}

\* The end of the stream in the middle of a message.
MCCutShort == {<<"x", "x", "x", "x", "x", "E", "2", "x", "E", "1">>}

=============================================================================
