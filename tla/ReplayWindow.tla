---------------------------- MODULE ReplayWindow ----------------------------
(***************************************************************************)
(* The anti-replay window of a WireGuard session (struct ReplayWindow in   *)
(* crates/tsnode/src/wireguard.rs): a ring of words, one bit per counter,  *)
(* whose words are cleared as the window slides over them.  A word is the  *)
(* set of its bits.  WgTunnel keeps the set of counters instead; this      *)
(* module shows that the ring answers as the set does.                     *)
(***************************************************************************)
EXTENDS Naturals

CONSTANTS
  WordBits,     \* bits of a word (64)
  REPLAY_WORDS, \* words of the ring (32)
  MaxCounter    \* bound on the counters that arrive

ASSUME ReplayAssumption ==
  /\ WordBits \in Nat \ {0}
  /\ REPLAY_WORDS \in Nat \ {0, 1}
  /\ MaxCounter \in Nat

REPLAY_BITS == (REPLAY_WORDS - 1) * WordBits

VARIABLES
  last, bitmap,
  seen,         \* history: every counter accepted
  answer        \* the last counter checked and the result

windowVars == <<last, bitmap, seen, answer>>

Counters == 0..MaxCounter
Slots == 0..REPLAY_WORDS - 1

\* ReplayWindow::new.
WindowInit ==
  /\ last = 0
  /\ bitmap = [w \in Slots |-> {}]
  /\ seen = {}
  /\ answer = <<0, FALSE>>

\* slot: the word and the bit of a counter.
Word(c) == (c \div WordBits) % REPLAY_WORDS
Bit(c) == c % WordBits

\* mark.
Mark(b, c) == [b EXCEPT ![Word(c)] = @ \cup {Bit(c)}]

\* Mutant: the word of the new counter is not cleared.
SlideShort(c) ==
  LET entered == (last \div WordBits + 1) .. (c \div WordBits - 1)
  IN  [w \in Slots |-> IF \E n \in entered : n % REPLAY_WORDS = w
                       THEN {} ELSE bitmap[w]]

\* The ring after the window slid from last to c: the words entered are
\* cleared, all of them when it slides by the whole window.
Slide(c) ==
  IF c - last >= REPLAY_BITS
  THEN [w \in Slots |-> {}]
  ELSE LET entered == (last \div WordBits + 1) .. (c \div WordBits)
       IN  [w \in Slots |-> IF \E n \in entered : n % REPLAY_WORDS = w
                            THEN {} ELSE bitmap[w]]

\* check_and_update, a counter beyond the last one ...
Advance(c) ==
  /\ c > last
  /\ bitmap' = Mark(Slide(c), c)
  /\ last' = c
  /\ seen' = seen \cup {c}
  /\ answer' = <<c, TRUE>>

\* Mutant: the window reaches one counter too far back.
FillOneMore(c) ==
  /\ c <= last /\ last - c <= REPLAY_BITS
  /\ Bit(c) \notin bitmap[Word(c)]
  /\ bitmap' = Mark(bitmap, c)
  /\ seen' = seen \cup {c}
  /\ answer' = <<c, TRUE>>
  /\ UNCHANGED last

\* ... one inside the window, not seen yet ...
Fill(c) ==
  /\ c <= last /\ last - c < REPLAY_BITS
  /\ Bit(c) \notin bitmap[Word(c)]
  /\ bitmap' = Mark(bitmap, c)
  /\ seen' = seen \cup {c}
  /\ answer' = <<c, TRUE>>
  /\ UNCHANGED last

\* ... and one too old or seen.
Refuse(c) ==
  /\ c <= last
  /\ last - c >= REPLAY_BITS \/ Bit(c) \in bitmap[Word(c)]
  /\ answer' = <<c, FALSE>>
  /\ UNCHANGED <<last, bitmap, seen>>

WindowNext == \E c \in Counters : Advance(c) \/ Fill(c) \/ Refuse(c)

WindowSpec == WindowInit /\ [][WindowNext]_windowVars

-----------------------------------------------------------------------------
WindowTypeOK ==
  /\ last \in Counters
  /\ bitmap \in [Slots -> SUBSET (0..WordBits - 1)]
  /\ seen \subseteq Counters
  /\ answer \in Counters \X BOOLEAN

(***************************************************************************)
(* A slot is shared by every counter that is a multiple of the ring apart, *)
(* yet inside the window a bit is set exactly for a counter accepted       *)
(* there, and the bits ahead of last in its word are clear, so no counter  *)
(* to come is refused because of one a ring before it.                     *)
(***************************************************************************)
WindowExact ==
  \A c \in 0..(last + WordBits) :
    last < c + REPLAY_BITS
      /\ (c <= last \/ c \div WordBits = last \div WordBits)
      => (Bit(c) \in bitmap[Word(c)] <=> c \in seen)

(***************************************************************************)
(* The ring of words holds the counters of the window and nothing else,    *)
(* after any jump (wireguard.rs, ReplayWindow).                            *)
(***************************************************************************)
WindowInv == WindowTypeOK /\ WindowExact

\* last is the highest counter accepted; with it the window is inductive.
LastHighest ==
  /\ last \in seen \cup {0}
  /\ \A c \in seen : c <= last

ReplayInv == WindowInv /\ LastHighest

(***************************************************************************)
(* check_and_update answers as the set of counters would: no counter is    *)
(* accepted twice and no new one inside the window is refused, whatever    *)
(* the order of arrival and the jumps between counters.                    *)
(***************************************************************************)
Filter == INSTANCE ReplayFilter WITH Bits <- REPLAY_BITS, accepted <- seen

ImplementsFilter == Filter!Spec
=============================================================================
