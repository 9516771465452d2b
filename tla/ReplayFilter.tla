---------------------------- MODULE ReplayFilter ----------------------------
(***************************************************************************)
(* What the anti-replay window of a session promises: a counter is         *)
(* accepted unless it was accepted before or is Bits or more behind the    *)
(* highest one accepted.                                                   *)
(***************************************************************************)
EXTENDS Naturals, FiniteSetsExt

CONSTANTS
  Counters,   \* the counters that may arrive, a set of naturals
  Bits        \* REPLAY_BITS

VARIABLES
  accepted,   \* every counter ever accepted
  answer      \* the last counter received and the answer it got

Highest == Max(accepted \cup {0})

Fresh(c) == c \notin accepted /\ Highest < c + Bits

Init == accepted = {} /\ answer = <<0, FALSE>>

Receive(c) ==
  /\ answer' = <<c, Fresh(c)>>
  /\ accepted' = IF Fresh(c) THEN accepted \cup {c} ELSE accepted

Next == \E c \in Counters : Receive(c)

Spec == Init /\ [][Next]_<<accepted, answer>>
=============================================================================
