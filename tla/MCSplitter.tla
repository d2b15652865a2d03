------------------------------ MODULE MCSplitter ------------------------------
(***************************************************************************)
(* Instances of Splitter: up to two sources, with two channels each.      *)
(***************************************************************************)
EXTENDS Splitter

CONSTANTS a, b, c, d       \* channel names

Chan(id, name) == [id |-> id, name |-> name]
Msg(ch, ts)    == [ch |-> ch, ts |-> ts]
Note(ts, n)    == [ts |-> ts, n |-> n]

Streams == SeqOf({Msg(1, 1), Msg(2, 1), Msg(1, 2), Msg(2, 3)}, 2)
Others  == {<<>>, <<Msg(1, 1), Msg(2, 2)>>, <<Msg(2, 3), Msg(1, 1)>>,
            <<Msg(1, 2), Msg(2, 2), Msg(1, 3)>>}

\* Merged, the sources have one annotation twice.
First(msgs)  == [chans |-> <<Chan(1, a), Chan(2, b)>>, msgs |-> msgs, notes |-> <<Note(2, 1)>>]
Second(msgs) == [chans |-> <<Chan(1, b), Chan(2, c)>>, msgs |-> msgs,
                 notes |-> <<Note(2, 1), Note(1, 3)>>]
\* A source that shares no name, and one with a channel that is not defined.
Apart(msgs)  == [Second(msgs) EXCEPT !.chans = <<Chan(1, c)>>]
Many(msgs)   == [Second(msgs) EXCEPT !.chans = <<Chan(1, c), Chan(2, d)>>]

Pairs == {<<First(m), Second(n)>> : m \in Streams, n \in Others}
         \cup {<<First(m), Apart(n)>> : m \in SeqOf({Msg(1, 1), Msg(2, 3)}, 2), n \in Others}
Alone == {<<First(m)>> : m \in Streams \cup Others}
Lists == {<<>>, <<First(<<>>), Many(<<>>)>>} \cup Pairs \cup Alone
Selections == {<<>>, <<2>>, <<2, 1>>, <<3, 1>>, <<3>>, <<2, 2>>}
==============================================================================
