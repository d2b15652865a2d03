---------------------------- MODULE MessageStream ----------------------------
(***************************************************************************)
(* What a reader of a session promises: the messages form one sequence,    *)
(* each read delivers the next of them and moves past it, and only a seek  *)
(* moves the position anywhere else.                                       *)
(***************************************************************************)
EXTENDS Naturals, Sequences

CONSTANTS Streams, NoMessage

VARIABLES all,    \* the messages of the session that is open, <<>> when none is
          pos,    \* the position of the next one
          last    \* the message the last read delivered, NoMessage if none

streamVars == <<all, pos, last>>

Init == all = <<>> /\ pos = 1 /\ last = NoMessage

Open == all' \in Streams /\ pos' = 1 /\ last' = NoMessage
Close == all' = <<>> /\ pos' = 1 /\ last' = NoMessage

Deliver ==
  /\ pos <= Len(all)
  /\ last' = all[pos]
  /\ pos' = pos + 1
  /\ UNCHANGED all

\* A read at the end of the stream.
Finish == pos = Len(all) + 1 /\ last' = NoMessage /\ UNCHANGED <<all, pos>>

\* A seek, which delivers nothing.
Move == last' = NoMessage /\ pos' \in 1..(Len(all) + 1) /\ UNCHANGED all

Next == Open \/ Close \/ Deliver \/ Finish \/ Move

Spec == Init /\ [][Next]_streamVars
==============================================================================
