----------------------------- MODULE ChannelLog -----------------------------
(***************************************************************************)
(* What a recorder promises its client, without segments, chunks or files: *)
(* each channel is a log.  Messages are taken in order; what is stored is  *)
(* always a prefix of what was taken and never shrinks; and when a flush   *)
(* reports success nothing taken before it is still to be stored.          *)
(***************************************************************************)
EXTENDS Naturals, Sequences

CONSTANTS Channel, Message

VARIABLES log,      \* per channel, the messages taken
          stored,   \* per channel, the messages in segment files
          synced    \* the last thing that happened is a successful flush

logVars == <<log, stored, synced>>

Init ==
  /\ log = [c \in Channel |-> <<>>]
  /\ stored = [c \in Channel |-> <<>>]
  /\ synced = FALSE

Take(c, m) ==
  /\ log' = [log EXCEPT ![c] = Append(@, m)]
  /\ synced' = FALSE
  /\ UNCHANGED stored

\* A message of an unbuffered channel is taken when it is stored.
TakeAndStore(c, m) ==
  /\ log' = [log EXCEPT ![c] = Append(@, m)]
  /\ stored[c] = log[c]
  /\ stored' = [stored EXCEPT ![c] = Append(@, m)]
  /\ synced' = FALSE

\* Some of the messages not yet stored, the oldest first.
Store(c) ==
  /\ UNCHANGED <<log, synced>>
  /\ \E k \in (Len(stored[c]) + 1)..Len(log[c]) :
        stored' = [stored EXCEPT ![c] = SubSeq(log[c], 1, k)]

Sync == synced' = TRUE /\ stored = log /\ UNCHANGED <<log, stored>>

Act == synced' = FALSE /\ UNCHANGED <<log, stored>>

Next ==
  \/ Sync \/ Act
  \/ \E c \in Channel : Store(c)
  \/ \E c \in Channel, m \in Message : Take(c, m) \/ TakeAndStore(c, m)

Spec == Init /\ [][Next]_logVars
==============================================================================
