---------------------------- MODULE StreamProofs ----------------------------
(***************************************************************************)
(* The windows of the control stream, for every length of the body, the    *)
(* response, the frames and the windows: the sums of ControlStream's       *)
(* inductive invariant are kept by every step, and bound the counters.     *)
(*                                                                         *)
(* What is under way in a channel is a sum over its frames.  The first     *)
(* sections prove how it changes when a frame is added or taken, by        *)
(* induction on the length of the channel; from there on the sum is opaque.*)
(***************************************************************************)
EXTENDS ControlStream, SequenceTheorems, WellFoundedInduction, TLAPS

-----------------------------------------------------------------------------
(***************************************************************************)
(* Induction.  The library's induction theorems take a predicate; these    *)
(* take a set, which a prover can instantiate.                             *)
(***************************************************************************)

\* A set of natural numbers that is not empty has a least one.
LEMMA LeastNat ==
  ASSUME NEW T, T \subseteq Nat, T # {}
  PROVE  \E n \in T : \A m \in T : n <= m
<1> DEFINE R == {ss \in Nat \X Nat : ss[1] < ss[2]}
<1>1. IsWellFoundedOn(R, Nat)
  BY NatLessThanWellFounded, Zenon DEF OpToRel
<1> HIDE DEF R
<1>2. PICK x \in T : \A y \in T : ~ (<<y, x>> \in R)
  BY <1>1, WFMin
<1>3. \A y \in T : ~(y < x)
  BY <1>2 DEF R
<1> QED
  BY <1>3

\* A set that holds 0, and n + 1 with every n, holds every natural number.
LEMMA SetInduction ==
  ASSUME NEW S, 0 \in S, \A n \in Nat : n \in S => n + 1 \in S
  PROVE  \A n \in Nat : n \in S
<1> SUFFICES ASSUME Nat \ S # {} PROVE FALSE
  OBVIOUS
<1>1. PICK n \in Nat \ S : \A m \in Nat \ S : n <= m
  BY LeastNat
<1>2. n # 0 /\ n - 1 \in Nat
  BY <1>1
<1>3. n - 1 \in S
  BY <1>1, <1>2
<1> QED
  BY <1>2, <1>3

-----------------------------------------------------------------------------
(***************************************************************************)
(* The units under way in a channel.                                       *)
(***************************************************************************)

\* g has the sum of the first i frames at i.
Sums(q, k, of, g) ==
  /\ g \in [0..Len(q) -> Nat] /\ g[0] = 0
  /\ \A i \in 1..Len(q) : g[i] = g[i - 1] + Weight(q[i], k, of)

\* The units of a frame.
LEMMA WeightNat ==
  ASSUME NEW f \in Frames, NEW k, NEW of
  PROVE  Weight(f, k, of) \in Nat
BY DEF Weight, Frames

\* The sums of a channel exist.
LEMMA SumsExist ==
  ASSUME NEW q \in Seq(Frames), NEW k, NEW of
  PROVE  \E g : Sums(q, k, of, g)
<1> DEFINE Upto(n, g) == /\ g \in [0..n -> Nat] /\ g[0] = 0
                         /\ \A i \in 1..n : g[i] = g[i - 1] + Weight(q[i], k, of)
           S == {n \in Nat : n <= Len(q) => \E g : Upto(n, g)}
<1>1. 0 \in S
  <2> DEFINE g == [i \in 0..0 |-> 0]
  <2>1. Upto(0, g)
    OBVIOUS
  <2> QED
    BY <2>1
<1>2. ASSUME NEW n \in Nat, n \in S PROVE n + 1 \in S
  <2> SUFFICES ASSUME n + 1 <= Len(q) PROVE \E g : Upto(n + 1, g)
    OBVIOUS
  <2>1. Len(q) \in Nat /\ n + 1 \in 1..Len(q)
    OBVIOUS
  <2>2. PICK g : Upto(n, g)
    BY <1>2, <2>1
  <2>3. Weight(q[n + 1], k, of) \in Nat
    BY <2>1, WeightNat
  <2> DEFINE h == [i \in 0..n + 1 |-> IF i = n + 1 THEN g[n] + Weight(q[n + 1], k, of) ELSE g[i]]
  <2>4. h \in [0..n + 1 -> Nat] /\ h[0] = 0
    BY <2>2, <2>3
  <2>5. ASSUME NEW i \in 1..n + 1 PROVE h[i] = h[i - 1] + Weight(q[i], k, of)
    <3>1. CASE i = n + 1
      BY <3>1
    <3>2. CASE i \in 1..n
      BY <2>2, <3>2
    <3> QED
      BY <3>1, <3>2
  <2> QED
    BY <2>4, <2>5
<1> HIDE DEF S
<1>3. \A n \in Nat : n \in S
  BY <1>1, <1>2, SetInduction
<1>4. Len(q) \in S /\ Len(q) \in Nat
  BY <1>3
<1>5. \E g : Upto(Len(q), g)
  BY <1>4 DEF S
<1> QED
  BY <1>5 DEF Sums

\* They are unique.
LEMMA SumsUnique ==
  ASSUME NEW q \in Seq(Frames), NEW k, NEW of, NEW g, NEW h,
         Sums(q, k, of, g), Sums(q, k, of, h)
  PROVE  g[Len(q)] = h[Len(q)]
<1> DEFINE S == {n \in Nat : n <= Len(q) => g[n] = h[n]}
<1>1. 0 \in S
  BY DEF Sums
<1>2. ASSUME NEW n \in Nat, n \in S PROVE n + 1 \in S
  <2> SUFFICES ASSUME n + 1 <= Len(q) PROVE g[n + 1] = h[n + 1]
    OBVIOUS
  <2>1. Len(q) \in Nat /\ n + 1 \in 1..Len(q) /\ (n + 1) - 1 = n
    OBVIOUS
  <2>2. g[n] = h[n]
    BY <1>2, <2>1
  <2> QED
    BY <2>1, <2>2 DEF Sums
<1> HIDE DEF S
<1>3. \A n \in Nat : n \in S
  BY <1>1, <1>2, SetInduction
<1>4. Len(q) \in S /\ Len(q) \in Nat
  BY <1>3
<1> QED
  BY <1>4 DEF S

\* InFlight is the last of them.
LEMMA InFlightIs ==
  ASSUME NEW q \in Seq(Frames), NEW k, NEW of, NEW g, Sums(q, k, of, g)
  PROVE  InFlight(q, k, of) = g[Len(q)]
<1> DEFINE Eq(f) == f = [i \in 0..Len(q) |->
                          IF i = 0 THEN 0 ELSE f[i - 1] + Weight(q[i], k, of)]
           sum == CHOOSE f : Eq(f)
<1>1. Eq(g)
  BY DEF Sums
<1>2. Eq(sum)
  BY <1>1
<1>3. InFlight(q, k, of) = sum[Len(q)]
  BY DEF InFlight
<1> HIDE DEF sum
<1>4. Sums(q, k, of, sum)
  <2>0. Len(q) \in Nat
    OBVIOUS
  <2>1. sum[0] = 0 /\ \A i \in 1..Len(q) : sum[i] = sum[i - 1] + Weight(q[i], k, of)
    BY <1>2, <2>0
  <2> DEFINE S == {n \in Nat : n <= Len(q) => sum[n] \in Nat}
  <2>2. 0 \in S
    BY <2>1
  <2>3. ASSUME NEW n \in Nat, n \in S PROVE n + 1 \in S
    <3> SUFFICES ASSUME n + 1 <= Len(q) PROVE sum[n + 1] \in Nat
      OBVIOUS
    <3>1. n + 1 \in 1..Len(q) /\ (n + 1) - 1 = n /\ sum[n] \in Nat
      BY <2>0, <2>3
    <3>2. Weight(q[n + 1], k, of) \in Nat
      BY <3>1, WeightNat
    <3>3. sum[n + 1] = sum[n] + Weight(q[n + 1], k, of)
      BY <2>1, <3>1
    <3> QED
      BY <3>1, <3>2, <3>3
  <2> HIDE DEF S
  <2>4. \A n \in Nat : n \in S
    BY <2>2, <2>3, SetInduction
  <2>5. \A n \in 0..Len(q) : sum[n] \in Nat
    BY <2>4 DEF S
  <2>6. sum \in [0..Len(q) -> Nat]
    BY <1>2, <2>5
  <2> QED
    BY <2>1, <2>6 DEF Sums
<1> HIDE DEF Eq
<1> QED
  BY <1>3, <1>4, SumsUnique

\* Units are counted in natural numbers.
LEMMA InFlightNat ==
  ASSUME NEW q \in Seq(Frames), NEW k, NEW of
  PROVE  InFlight(q, k, of) \in Nat
<1>1. PICK g : Sums(q, k, of, g)
  BY SumsExist
<1>2. InFlight(q, k, of) = g[Len(q)] /\ Len(q) \in 0..Len(q)
  BY <1>1, InFlightIs
<1> QED
  BY <1>1, <1>2 DEF Sums

\* A channel without a frame of that kind has no units of it under way.
LEMMA InFlightNone ==
  ASSUME NEW q \in Seq(Frames), NEW k, NEW of,
         \A i \in 1..Len(q) : Weight(q[i], k, of) = 0
  PROVE  InFlight(q, k, of) = 0
<1> DEFINE g == [i \in 0..Len(q) |-> 0]
<1>1. Sums(q, k, of, g)
  BY DEF Sums
<1> QED
  BY <1>1, InFlightIs

\* Nothing is under way.
LEMMA InFlightEmpty ==
  ASSUME NEW k, NEW of
  PROVE  InFlight(<< >>, k, of) = 0
<1>0. << >> \in Seq(Frames) /\ Len(<< >>) = 0
  BY EmptySeq
<1>1. PICK q \in Seq(Frames) : q = << >> /\ Len(q) = 0
  BY <1>0
<1>2. \A i \in 1..Len(q) : Weight(q[i], k, of) = 0
  BY <1>1
<1>3. InFlight(q, k, of) = 0
  BY <1>2, InFlightNone
<1> QED
  BY <1>1, <1>3

\* A frame is added.
LEMMA InFlightAppend ==
  ASSUME NEW q \in Seq(Frames), NEW f \in Frames, NEW k, NEW of
  PROVE  InFlight(Append(q, f), k, of) = InFlight(q, k, of) + Weight(f, k, of)
<1>1. PICK g : Sums(q, k, of, g)
  BY SumsExist
<1>2. PICK w : w = Weight(f, k, of) /\ w \in Nat
  BY WeightNat
<1> DEFINE r == Append(q, f)
           n == Len(q)
           h == [i \in 0..n + 1 |-> IF i = n + 1 THEN g[n] + w ELSE g[i]]
<1>3. /\ r \in Seq(Frames) /\ n \in Nat /\ Len(r) = n + 1 /\ r[n + 1] = f
      /\ \A i \in 1..n : r[i] = q[i]
  OBVIOUS
<1> HIDE DEF r, n
<1>4. /\ g \in [0..n -> Nat] /\ g[0] = 0
      /\ \A i \in 1..n : g[i] = g[i - 1] + Weight(q[i], k, of)
  BY <1>1 DEF Sums, n
<1>5. h \in [0..n + 1 -> Nat] /\ h[0] = 0
  BY <1>2, <1>3, <1>4
<1>6. ASSUME NEW i \in 1..n + 1 PROVE h[i] = h[i - 1] + Weight(r[i], k, of)
  <2>1. CASE i = n + 1
    <3>1. h[i] = g[n] + w /\ h[i - 1] = g[n] /\ r[i] = f
      BY <1>3, <2>1
    <3> QED
      BY <1>2, <3>1
  <2>2. CASE i \in 1..n
    <3>1. h[i] = g[i] /\ h[i - 1] = g[i - 1] /\ r[i] = q[i]
      BY <1>3, <2>2
    <3> QED
      BY <1>4, <2>2, <3>1
  <2> QED
    BY <1>3, <2>1, <2>2
<1>7. Sums(r, k, of, h)
  BY <1>3, <1>5, <1>6 DEF Sums
<1>8. InFlight(r, k, of) = h[n + 1] /\ h[n + 1] = g[n] + w
  BY <1>3, <1>7, InFlightIs
<1>9. InFlight(q, k, of) = g[n]
  BY <1>1, InFlightIs DEF n
<1> QED
  BY <1>2, <1>8, <1>9 DEF r

\* A frame is taken.
LEMMA InFlightTail ==
  ASSUME NEW q \in Seq(Frames), q # << >>, NEW k, NEW of
  PROVE  InFlight(q, k, of) = Weight(Head(q), k, of) + InFlight(Tail(q), k, of)
<1>0. Tail(q) \in Seq(Frames) /\ Head(q) \in Frames
  OBVIOUS
<1>1. PICK g : Sums(Tail(q), k, of, g)
  BY <1>0, SumsExist
<1>2. PICK w : w = Weight(Head(q), k, of) /\ w \in Nat
  BY <1>0, WeightNat
<1> DEFINE r == Tail(q)
           n == Len(r)
           h == [i \in 0..n + 1 |-> IF i = 0 THEN 0 ELSE w + g[i - 1]]
<1>3. /\ r \in Seq(Frames) /\ n \in Nat /\ Len(q) = n + 1 /\ q[1] = Head(q)
      /\ \A i \in 1..n : r[i] = q[i + 1]
  OBVIOUS
<1>r. r = Tail(q)
  OBVIOUS
<1> HIDE DEF r, n
<1>4. /\ g \in [0..n -> Nat] /\ g[0] = 0
      /\ \A i \in 1..n : g[i] = g[i - 1] + Weight(r[i], k, of)
  BY <1>1 DEF Sums, n, r
<1>5. h \in [0..n + 1 -> Nat] /\ h[0] = 0
  BY <1>2, <1>3, <1>4
<1>6. ASSUME NEW i \in 1..n + 1 PROVE h[i] = h[i - 1] + Weight(q[i], k, of)
  <2>1. CASE i = 1
    <3>1. h[i] = w + g[0] /\ h[i - 1] = 0 /\ q[i] = Head(q)
      BY <1>3, <2>1
    <3> QED
      BY <1>2, <1>4, <3>1
  <2>2. CASE i # 1
    <3>1. i - 1 \in 1..n /\ (i - 1) + 1 = i /\ i # 0
      BY <1>3, <2>2
    <3>2. h[i] = w + g[i - 1] /\ h[i - 1] = w + g[i - 1 - 1] /\ r[i - 1] = q[i]
      BY <1>3, <3>1
    <3>3. g[i - 1] = g[i - 1 - 1] + Weight(q[i], k, of)
      BY <1>4, <3>1, <3>2
    <3>4. q[i] \in Frames /\ g[i - 1 - 1] \in Nat
      BY <1>3, <1>4, <3>1
    <3>5. Weight(q[i], k, of) \in Nat
      BY <3>4, WeightNat
    <3> QED
      BY <1>2, <3>2, <3>3, <3>4, <3>5
  <2> QED
    BY <2>1, <2>2
<1>7. Sums(q, k, of, h)
  BY <1>3, <1>5, <1>6 DEF Sums
<1>8. InFlight(q, k, of) = h[n + 1] /\ h[n + 1] = w + g[n]
  BY <1>3, <1>7, InFlightIs
<1>9. InFlight(r, k, of) = g[n]
  BY <1>1, <1>3, InFlightIs DEF n, r
<1> QED
  BY <1>2, <1>8, <1>9, <1>r

-----------------------------------------------------------------------------
(***************************************************************************)
(* The bounds.  What the counters add up to bounds them, so a step is      *)
(* shown to keep the sums first, for records with wider fields.            *)
(***************************************************************************)
USE StreamAssumption DEF StreamAssumption

\* The records without the bounds that follow from the sums.
H2Records ==
  [send : Nat, consumed : 0..Threshold - 1, initial : 0..MaxWindow, goaway : BOOLEAN]

StreamRecords ==
  [send : Int, consumed : Nat, body : Nat,
   status : {"none", "info", "ok", "error"}, end : BOOLEAN, reset : BOOLEAN]

ServerRecords ==
  [conn : Int, strm : Int, initial : 0..MaxWindow, got : Nat,
   oweConn : Nat, oweStrm : Nat, outConn : Nat, outStrm : Nat,
   open : BOOLEAN, replied : BOOLEAN, sent : 0..Response, ended : BOOLEAN,
   settings : 0..MaxSettings, extras : 0..MaxExtras, said : SUBSET Extras]

Wide ==
  /\ offset \in 0..Body /\ buf \in Nat /\ given \in Nat
  /\ h2 \in H2Records
  /\ strm \in StreamRecords
  /\ srv \in ServerRecords

\* The rest of the type invariant.
Plain ==
  /\ pc \in {"dial", "send", "status", "read", "done", "failed"}
  /\ request \in Requests /\ c2s \in Seq(Frames) /\ s2c \in Seq(Frames)
  /\ part \in BOOLEAN /\ torn \in BOOLEAN /\ closed \in BOOLEAN /\ cause \in Causes

\* The units of the response, and the threshold of maybe_window_update.
LEMMA Numbers ==
  /\ Response \in Nat /\ Threshold \in Nat /\ Threshold >= 1
  /\ Body \in Nat \ {0} /\ MaxFrame \in Nat \ {0} /\ MsgLen \in Nat \ {0}
  /\ OurWindow \in Nat /\ DefaultWindow \in Nat /\ MaxWindow \in Nat /\ Messages \in Nat
  /\ MaxSettings \in Nat /\ MaxExtras \in Nat /\ Windows \subseteq 0..MaxWindow
  /\ DefaultWindow <= OurWindow /\ DefaultWindow <= MaxWindow
<1>1. Messages \in Nat /\ MsgLen \in Nat
  OBVIOUS
<1>2. Messages * MsgLen \in Nat
  BY <1>1
<1>3. OurWindow \div 2 \in Nat /\ OurWindow \div 2 >= 1
  OBVIOUS
<1> QED
  BY <1>2, <1>3 DEF Response, Threshold

HIDE StreamAssumption DEF StreamAssumption

\* The units under way are natural numbers.
LEMMA Units ==
  ASSUME Plain
  PROVE  /\ InFlight(c2s, "data", "strm") \in Nat
         /\ InFlight(c2s, "window", "conn") \in Nat /\ InFlight(c2s, "window", "strm") \in Nat
         /\ InFlight(s2c, "window", "conn") \in Nat /\ InFlight(s2c, "window", "strm") \in Nat
         /\ InFlight(s2c, "data", "strm") \in Nat
BY InFlightNat DEF Plain

\* The fields of the records.
LEMMA WideFields ==
  ASSUME Wide
  PROVE  /\ offset \in 0..Body /\ buf \in Nat /\ given \in Nat
         /\ h2.send \in Nat /\ h2.consumed \in 0..Threshold - 1
         /\ h2.initial \in 0..MaxWindow /\ h2.goaway \in BOOLEAN
         /\ strm.send \in Int /\ strm.consumed \in Nat /\ strm.body \in Nat
         /\ strm.status \in {"none", "info", "ok", "error"}
         /\ strm.end \in BOOLEAN /\ strm.reset \in BOOLEAN
         /\ srv.conn \in Int /\ srv.strm \in Int /\ srv.initial \in 0..MaxWindow
         /\ srv.got \in Nat /\ srv.oweConn \in Nat /\ srv.oweStrm \in Nat
         /\ srv.outConn \in Nat /\ srv.outStrm \in Nat
         /\ srv.open \in BOOLEAN /\ srv.replied \in BOOLEAN /\ srv.ended \in BOOLEAN
         /\ srv.sent \in 0..Response
         /\ srv.settings \in 0..MaxSettings /\ srv.extras \in 0..MaxExtras
         /\ srv.said \subseteq Extras
BY DEF Wide, H2Records, StreamRecords, ServerRecords

\* Their numbers.
LEMMA WideNumbers ==
  ASSUME Wide
  PROVE  /\ offset \in Nat /\ buf \in Nat /\ given \in Nat
         /\ h2.send \in Nat /\ h2.consumed \in Nat /\ h2.initial \in Nat
         /\ strm.send \in Int /\ strm.consumed \in Nat /\ strm.body \in Nat
         /\ srv.conn \in Int /\ srv.strm \in Int /\ srv.initial \in Nat
         /\ srv.got \in Nat /\ srv.oweConn \in Nat /\ srv.oweStrm \in Nat
         /\ srv.outConn \in Nat /\ srv.outStrm \in Nat /\ srv.sent \in Nat
<1>1. 0..Body \subseteq Nat /\ 0..Threshold - 1 \subseteq Nat /\ 0..MaxWindow \subseteq Nat
      /\ 0..Response \subseteq Nat
  BY Numbers
<1> QED
  BY <1>1, WideFields

\* The type invariant has them.
LEMMA TypeWide == TypeOK => Wide /\ Plain
<1> SUFFICES ASSUME TypeOK PROVE Wide /\ Plain
  OBVIOUS
<1>1. Plain
  BY DEF TypeOK, Plain
<1>2. offset \in 0..Body /\ buf \in Nat /\ given \in Nat
  BY Numbers DEF TypeOK
<1>3. h2 \in H2Conns /\ strm \in Streams /\ srv \in Servers
  BY DEF TypeOK
<1>4. 0..DefaultWindow \subseteq Nat /\ -Body..MaxWindow \subseteq Int /\ 0..OurWindow \subseteq Nat
      /\ 0..Response \subseteq Nat /\ 0..Body \subseteq Nat /\ 0..DefaultWindow \subseteq Int
  BY Numbers
<1>5. h2 \in H2Records
  BY <1>3, <1>4 DEF H2Conns, H2Records
<1>6. strm \in StreamRecords
  BY <1>3, <1>4 DEF Streams, StreamRecords
<1>7. srv \in ServerRecords
  BY <1>3, <1>4 DEF Servers, ServerRecords
<1> QED
  BY <1>1, <1>2, <1>5, <1>6, <1>7 DEF Wide

\* A number of whole messages is at most that of the response.
LEMMA WholeMessages ==
  ASSUME NEW n \in Nat, n * MsgLen <= Response
  PROVE  n <= Messages
<1> SUFFICES ASSUME n >= Messages + 1 PROVE FALSE
  BY Numbers
<1>1. PICK d \in Nat : n = Messages + 1 + d
  <2>1. n - (Messages + 1) \in Nat /\ n = Messages + 1 + (n - (Messages + 1))
    BY Numbers
  <2> QED
    BY <2>1
<1>2. n * MsgLen = Messages * MsgLen + MsgLen + d * MsgLen
  BY <1>1, Numbers
<1>3. d * MsgLen \in Nat /\ Messages * MsgLen \in Nat
  BY Numbers
<1> QED
  BY <1>2, <1>3, Numbers DEF Response

\* The sums bound the fields.
LEMMA Ranges ==
  ASSUME Wide, Plain, Begins, SendsAddUp, GrantsHold, BodyAddsUp
  PROVE  TypeOK
<1>1. /\ InFlight(c2s, "data", "strm") \in Nat
      /\ InFlight(c2s, "window", "conn") \in Nat /\ InFlight(c2s, "window", "strm") \in Nat
      /\ InFlight(s2c, "window", "conn") \in Nat /\ InFlight(s2c, "window", "strm") \in Nat
      /\ InFlight(s2c, "data", "strm") \in Nat
  BY Units
<1>2. given * MsgLen \in Nat
  BY WideFields, Numbers
<1>3. /\ h2.send \in 0..DefaultWindow /\ srv.conn \in 0..DefaultWindow
      /\ srv.oweConn \in 0..DefaultWindow
  BY <1>1, WideFields, Numbers DEF SendsAddUp
<1>4. /\ srv.oweStrm \in 0..Body /\ srv.strm \in -Body..MaxWindow /\ srv.got \in 0..Body
  BY <1>1, WideFields, Numbers DEF SendsAddUp
<1>5. strm.send \in -Body..MaxWindow
  <2>1. CASE Undialed
    BY <2>1, Numbers DEF Begins
  <2>2. CASE ~Undialed
    BY <1>1, <2>2, WideFields, Numbers DEF SendsAddUp
  <2> QED
    BY <2>1, <2>2
<1>6. /\ srv.outConn \in 0..OurWindow /\ srv.outStrm \in 0..OurWindow
      /\ strm.consumed \in 0..OurWindow
  <2>1. \A x \in {DefaultWindow, OurWindow} : x \in Nat /\ x <= OurWindow
    BY Numbers
  <2>2. PICK a \in {DefaultWindow, OurWindow} :
          srv.outConn + InFlight(s2c, "data", "strm") + InFlight(c2s, "window", "conn")
            + h2.consumed = a
    BY DEF GrantsHold
  <2>3. PICK b \in {DefaultWindow, OurWindow} :
          srv.outStrm + InFlight(s2c, "data", "strm") + InFlight(c2s, "window", "strm")
            + strm.consumed = b
    BY DEF GrantsHold
  <2> QED
    BY <1>1, <2>1, <2>2, <2>3, WideFields, Numbers
<1>7. strm.body \in 0..Response /\ buf \in 0..Response /\ given * MsgLen <= Response
  BY <1>1, <1>2, WideFields, Numbers DEF BodyAddsUp
<1>8. given \in 0..Messages
  BY <1>7, WholeMessages, WideFields, Numbers
<1>9. h2 \in H2Conns
  BY <1>3 DEF Wide, H2Conns, H2Records
<1>10. strm \in Streams
  BY <1>5, <1>6, <1>7 DEF Wide, Streams, StreamRecords
<1>11. srv \in Servers
  BY <1>3, <1>4, <1>6 DEF Wide, Servers, ServerRecords
<1>12. offset \in 0..Body
  BY WideFields
<1> QED
  BY <1>7, <1>8, <1>9, <1>10, <1>11, <1>12 DEF Plain, TypeOK

\* The same, as an implication, which holds after a step as well.
LEMMA RangesImp == Wide /\ Plain /\ Begins /\ SendsAddUp /\ GrantsHold /\ BodyAddsUp => TypeOK
BY Ranges

\* A step keeps the invariant when it keeps its parts.
LEMMA Kept ==
  ASSUME Wide', Plain', Begins', FramesFit', GreetingFirst', SendsAddUp', GrantsHold', BodyAddsUp',
         EndsLast', LiteTakesOne', EndIsTheEnd'
  PROVE  StreamInv'
<1>1. (Wide /\ Plain /\ Begins /\ SendsAddUp /\ GrantsHold /\ BodyAddsUp => TypeOK)'
  BY RangesImp, PTL
<1>2. TypeOK'
  BY <1>1
<1> QED
  BY <1>2 DEF StreamInv

\* Initially.
LEMMA StreamInit == Init => StreamInv
<1> SUFFICES ASSUME Init PROVE StreamInv
  OBVIOUS
<1> USE Numbers
<1>0. 0 \in 0..Body /\ 0 \in 0..Threshold - 1 /\ DefaultWindow \in 0..MaxWindow /\ 0 \in 0..Response
      /\ 0 \in 0..MaxSettings /\ 0 \in 0..MaxExtras
  OBVIOUS
<1>1. Wide /\ Plain
  <2>1. Plain
    <3>1. << >> \in Seq(Frames)
      BY EmptySeq
    <3> QED
      BY <3>1 DEF Init, Plain, Causes
  <2>2. h2 \in H2Records
    BY <1>0 DEF Init, H2Records
  <2>3. strm \in StreamRecords
    BY <1>0 DEF Init, StreamRecords
  <2>4. offset \in 0..Body /\ buf \in Nat /\ given \in Nat
    BY <1>0 DEF Init
  <2>5. srv \in ServerRecords
    BY <1>0 DEF Init, ServerRecords
  <2> QED
    BY <2>1, <2>2, <2>3, <2>4, <2>5 DEF Wide
<1>2. Undialed /\ Unset
  BY DEF Init, Undialed, Unset
<1>3. Begins /\ GreetingFirst
  BY <1>2 DEF Init, Begins, GreetingFirst, Undialed
<1>4. \A k, of : InFlight(<<>>, k, of) = 0
  BY InFlightEmpty
<1>5. SendsAddUp
  BY <1>2, <1>4 DEF Init, SendsAddUp
<1>6. GrantsHold
  BY <1>2, <1>4 DEF Init, GrantsHold
<1>7. BodyAddsUp
  BY <1>4 DEF Init, BodyAddsUp
<1>8. FramesFit /\ EndsLast /\ LiteTakesOne /\ EndIsTheEnd
  BY DEF Init, FramesFit, EndsLast, LiteTakesOne, EndIsTheEnd
<1> QED
  BY <1>1, <1>3, <1>5, <1>6, <1>7, <1>8, Ranges DEF StreamInv

\* What the server keeps, without its bounds.
ServerKeeps ==
  <<srv.conn, srv.strm, srv.initial, srv.got, srv.oweConn, srv.oweStrm, srv.outConn,
    srv.outStrm, srv.open, srv.replied, srv.sent, srv.ended>>

\* A step that sends and reads nothing.
LEMMA ChannelsKept ==
  ASSUME FramesFit, GreetingFirst, SendsAddUp, GrantsHold, EndsLast,
         c2s' = c2s, s2c' = s2c, h2' = h2, offset' = offset, Undialed' <=> Undialed,
         strm'.send = strm.send, strm'.consumed = strm.consumed, strm'.end = strm.end,
         ServerKeeps' = ServerKeeps
  PROVE  FramesFit' /\ GreetingFirst' /\ SendsAddUp' /\ GrantsHold' /\ EndsLast'
<1>1. /\ srv'.conn = srv.conn /\ srv'.strm = srv.strm /\ srv'.initial = srv.initial
      /\ srv'.got = srv.got /\ srv'.oweConn = srv.oweConn /\ srv'.oweStrm = srv.oweStrm
      /\ srv'.outConn = srv.outConn /\ srv'.outStrm = srv.outStrm /\ srv'.open = srv.open
      /\ srv'.sent = srv.sent /\ srv'.ended = srv.ended
  BY DEF ServerKeeps
<1>2. GreetingFirst'
  BY <1>1 DEF GreetingFirst, Greeted
<1>3. SendsAddUp'
  BY <1>1 DEF SendsAddUp
<1>4. GrantsHold'
  BY <1>1 DEF GrantsHold, Unset
<1>5. EndsLast'
  BY <1>1 DEF EndsLast
<1>6. FramesFit'
  BY DEF FramesFit
<1> QED
  BY <1>2, <1>3, <1>4, <1>5, <1>6

\* A client that is under way has dialed, and has not failed.
LEMMA UnderWay ==
  ASSUME StreamInv, pc \notin {"dial", "failed"}
  PROVE  cause = "none" /\ ~Undialed
BY DEF StreamInv, Begins, Undialed

\* A client under way fails, for a cause c.
LEMMA Fails ==
  ASSUME StreamInv, pc \notin {"dial", "failed", "done"}, NEW c \in Causes \ {"none", "dial"},
         Fail(c), h2' = h2, strm' = strm, srv' = srv, c2s' = c2s, s2c' = s2c,
         UNCHANGED <<request, offset, buf, given, closed>>, part' \in BOOLEAN, torn' \in BOOLEAN
  PROVE  StreamInv'
<1>1. Wide /\ Plain
  BY TypeWide DEF StreamInv
<1>2. Wide'
  BY <1>1 DEF Wide
<1>3. Plain'
  BY <1>1 DEF Plain, Fail
<1>4. ~Undialed /\ ~Undialed'
  BY UnderWay DEF Undialed, Fail
<1>5. FramesFit' /\ GreetingFirst' /\ SendsAddUp' /\ GrantsHold' /\ EndsLast'
  BY <1>4, ChannelsKept DEF StreamInv, ServerKeeps
<1>6. Begins'
  <2>1. pc' = "failed" /\ cause' # "none"
    BY DEF Fail
  <2>2. (srv.replied => srv.open) /\ (~srv.replied => srv.sent = 0)
    BY DEF StreamInv, Begins
  <2> QED
    BY <1>4, <2>1, <2>2 DEF Begins
<1>7. BodyAddsUp'
  BY DEF StreamInv, BodyAddsUp
<1>8. LiteTakesOne' /\ EndIsTheEnd'
  BY DEF StreamInv, LiteTakesOne, EndIsTheEnd, Fail
<1> QED
  BY <1>2, <1>3, <1>5, <1>6, <1>7, <1>8, Kept

\* The dial fails.
LEMMA StreamDialFails == StreamInv /\ DialFails => StreamInv'
<1> SUFFICES ASSUME StreamInv, DialFails PROVE StreamInv'
  OBVIOUS
<1>1. Wide /\ Plain
  BY TypeWide DEF StreamInv
<1>2. Wide'
  BY <1>1 DEF Wide, DialFails
<1>3. Plain'
  BY <1>1 DEF Plain, DialFails, Fail, Causes
<1>4. Undialed /\ Undialed'
  BY DEF DialFails, Fail, Undialed
<1>5. FramesFit' /\ GreetingFirst' /\ SendsAddUp' /\ GrantsHold' /\ EndsLast'
  BY <1>4, ChannelsKept DEF StreamInv, ServerKeeps, DialFails
<1>6. Begins'
  BY <1>4 DEF StreamInv, Begins, DialFails, Fail
<1>7. BodyAddsUp'
  BY DEF StreamInv, BodyAddsUp, DialFails
<1>8. LiteTakesOne' /\ EndIsTheEnd'
  BY DEF StreamInv, LiteTakesOne, EndIsTheEnd, DialFails, Fail
<1> QED
  BY <1>2, <1>3, <1>5, <1>6, <1>7, <1>8, Kept

\* The failures of the client.
LEMMA StreamFailures == StreamInv /\ (SendReset \/ Garbage \/ Eof) => StreamInv'
<1> SUFFICES ASSUME StreamInv PROVE (SendReset \/ Garbage \/ Eof) => StreamInv'
  OBVIOUS
<1>0. Plain
  BY TypeWide DEF StreamInv
<1>1. part \in BOOLEAN /\ torn \in BOOLEAN
  BY <1>0 DEF Plain
<1>2. ASSUME SendReset PROVE StreamInv'
  BY <1>1, <1>2, Fails DEF SendReset, Causes
<1>3. ASSUME Garbage PROVE StreamInv'
  BY <1>1, <1>3, Fails DEF Garbage, Causes, Waiting
<1>4. ASSUME Eof PROVE StreamInv'
  BY <1>1, <1>4, Fails DEF Eof, Causes, Waiting
<1> QED
  BY <1>2, <1>3, <1>4

\* A step of a client under way, and still so or done, that touches no channel.
LEMMA Reads ==
  ASSUME StreamInv, Wide', Plain', BodyAddsUp', LiteTakesOne', EndIsTheEnd',
         pc \notin {"dial", "failed"}, pc' \notin {"dial", "failed"}, cause' = cause,
         c2s' = c2s, s2c' = s2c, h2' = h2, offset' = offset,
         strm'.send = strm.send, strm'.consumed = strm.consumed, strm'.end = strm.end,
         ServerKeeps' = ServerKeeps
  PROVE  StreamInv'
<1>1. ~Undialed /\ ~Undialed' /\ cause = "none"
  BY UnderWay DEF Undialed
<1>2. FramesFit' /\ GreetingFirst' /\ SendsAddUp' /\ GrantsHold' /\ EndsLast'
  BY <1>1, ChannelsKept DEF StreamInv
<1>3. srv'.open = srv.open /\ srv'.replied = srv.replied /\ srv'.sent = srv.sent
  BY DEF ServerKeeps
<1>4. (srv.replied => srv.open) /\ (~srv.replied => srv.sent = 0)
  BY DEF StreamInv, Begins
<1>5. Begins'
  BY <1>1, <1>3, <1>4 DEF Begins
<1> QED
  BY <1>2, <1>5, Kept

\* response_status.
LEMMA StreamStatus == StreamInv /\ Status => StreamInv'
<1> SUFFICES ASSUME StreamInv, Status PROVE StreamInv'
  OBVIOUS
<1>1. Wide /\ Plain
  BY TypeWide DEF StreamInv
<1>2. CASE \E c \in Causes \ {"none", "dial"} : Fail(c)
  BY <1>1, <1>2, Fails DEF Status, Plain
<1>3. CASE pc' = "read" /\ UNCHANGED cause
  <2>1. Wide'
    BY <1>1 DEF Wide, Status
  <2>2. Plain'
    BY <1>1, <1>3 DEF Plain, Status
  <2>3. BodyAddsUp'
    BY DEF StreamInv, BodyAddsUp, Status
  <2>4. LiteTakesOne' /\ EndIsTheEnd'
    BY <1>3 DEF StreamInv, LiteTakesOne, EndIsTheEnd, Status
  <2> QED
    BY <1>3, <2>1, <2>2, <2>3, <2>4, Reads DEF Status, ServerKeeps
<1>4. strm.reset \in BOOLEAN /\ strm.status \in {"none", "info", "ok", "error"}
  BY <1>1, WideFields
<1>5. (\E c \in Causes \ {"none", "dial"} : Fail(c)) \/ (pc' = "read" /\ UNCHANGED cause)
  <2>1. "rst" \in Causes \ {"none", "dial"} /\ "status" \in Causes \ {"none", "dial"}
        /\ "goaway" \in Causes \ {"none", "dial"}
    BY DEF Causes
  <2> QED
    BY <1>4, <2>1 DEF Status
<1> QED
  BY <1>2, <1>3, <1>5

\* Handing one message over.
LEMMA OneMore ==
  ASSUME NEW n \in Nat
  PROVE  (n + 1) * MsgLen = n * MsgLen + MsgLen /\ n * MsgLen \in Nat
BY Numbers

\* take_message.
LEMMA StreamTakeMessage == StreamInv /\ TakeMessage => StreamInv'
<1> SUFFICES ASSUME StreamInv, TakeMessage PROVE StreamInv'
  OBVIOUS
<1>1. Wide /\ Plain
  BY TypeWide DEF StreamInv
<1>2. buf - MsgLen \in Nat /\ given + 1 \in Nat
  BY <1>1, WideFields, Numbers DEF TakeMessage
<1>3. Wide'
  BY <1>1, <1>2 DEF Wide, TakeMessage
<1>4. Plain'
  BY <1>1 DEF Plain, TakeMessage
<1>5. BodyAddsUp'
  <2>1. /\ (given + 1) * MsgLen = given * MsgLen + MsgLen /\ given * MsgLen \in Nat
        /\ InFlight(s2c, "data", "strm") \in Nat
    BY <1>1, OneMore, InFlightNat, WideFields DEF Plain
  <2>2. InFlight(s2c, "data", "strm") + strm.body + buf + given * MsgLen = srv.sent
    BY DEF StreamInv, BodyAddsUp
  <2>3. /\ buf' = buf - MsgLen /\ given' * MsgLen = given * MsgLen + MsgLen
        /\ s2c' = s2c /\ strm' = strm /\ srv' = srv
    BY <2>1 DEF TakeMessage
  <2>4. strm.body \in Nat /\ buf \in Nat /\ srv.sent \in Nat
    BY <1>1, WideFields, Numbers
  <2> QED
    BY <2>1, <2>2, <2>3, <2>4, Numbers DEF BodyAddsUp
<1>6. LiteTakesOne' /\ EndIsTheEnd'
  <2>1. pc = "read" /\ request' = request /\ given' = given + 1
        /\ (request = "lite" => pc' = "done") /\ (request # "lite" => pc' = "read")
    BY DEF TakeMessage
  <2>2. request = "lite" => given = 0
    BY <2>1 DEF StreamInv, LiteTakesOne
  <2> QED
    BY <2>1, <2>2 DEF LiteTakesOne, EndIsTheEnd
<1>7. pc' \notin {"dial", "failed"}
  BY DEF TakeMessage
<1> QED
  BY <1>3, <1>4, <1>5, <1>6, <1>7, Reads DEF TakeMessage, ServerKeeps

\* read_body takes what there is.
LEMMA StreamReadBody == StreamInv /\ ReadBody => StreamInv'
<1> SUFFICES ASSUME StreamInv, ReadBody PROVE StreamInv'
  OBVIOUS
<1>1. Wide /\ Plain
  BY TypeWide DEF StreamInv
<1>2. /\ strm'.body = 0 /\ strm'.send = strm.send /\ strm'.consumed = strm.consumed
      /\ strm'.end = strm.end
  BY <1>1 DEF ReadBody, Wide
<1>3. Wide'
  <2>1. buf + strm.body \in Nat
    BY <1>1, WideFields
  <2> QED
    BY <1>1, <2>1 DEF Wide, ReadBody, StreamRecords
<1>4. Plain'
  BY <1>1 DEF Plain, ReadBody
<1>5. BodyAddsUp'
  <2>1. given * MsgLen \in Nat /\ InFlight(s2c, "data", "strm") \in Nat
    BY <1>1, OneMore, InFlightNat, WideFields DEF Plain
  <2>2. InFlight(s2c, "data", "strm") + strm.body + buf + given * MsgLen = srv.sent
    BY DEF StreamInv, BodyAddsUp
  <2>3. buf' = buf + strm.body /\ given' = given /\ s2c' = s2c /\ srv' = srv
    BY DEF ReadBody
  <2>4. strm.body \in Nat /\ buf \in Nat /\ srv.sent \in Nat
    BY <1>1, WideFields, Numbers
  <2> QED
    BY <1>2, <2>1, <2>2, <2>3, <2>4, Numbers DEF BodyAddsUp
<1>6. LiteTakesOne' /\ EndIsTheEnd'
  BY DEF StreamInv, LiteTakesOne, EndIsTheEnd, ReadBody
<1> QED
  BY <1>2, <1>3, <1>4, <1>5, <1>6, Reads DEF ReadBody, ServerKeeps

\* read_body says None: nothing of the response is left behind.
LEMMA StreamReadEnd == StreamInv /\ ReadEnd => StreamInv'
<1> SUFFICES ASSUME StreamInv, ReadEnd PROVE StreamInv'
  OBVIOUS
<1>1. Wide /\ Plain
  BY TypeWide DEF StreamInv
<1>2. CASE \E c \in Causes \ {"none", "dial"} : Fail(c)
  BY <1>1, <1>2, Fails DEF ReadEnd, Plain
<1>3. CASE strm.end /\ pc' = "done" /\ UNCHANGED cause
  <2>1. Wide'
    BY <1>1 DEF Wide, ReadEnd
  <2>2. Plain'
    BY <1>1, <1>3 DEF Plain, ReadEnd
  <2>3. BodyAddsUp'
    BY DEF StreamInv, BodyAddsUp, ReadEnd
  <2>4. LiteTakesOne'
    BY <1>3 DEF LiteTakesOne
  <2>5. srv.ended /\ srv.sent \in {0, Response} /\ \A j \in 1..Len(s2c) : s2c[j].kind # "data"
    BY <1>3 DEF StreamInv, EndsLast
  <2>6. InFlight(s2c, "data", "strm") = 0
    <3>1. \A j \in 1..Len(s2c) : Weight(s2c[j], "data", "strm") = 0
      BY <2>5 DEF Weight
    <3> QED
      BY <1>1, <3>1, InFlightNone DEF Plain
  <2>7. buf + given * MsgLen = srv.sent /\ buf < MsgLen
    <3>1. InFlight(s2c, "data", "strm") + strm.body + buf + given * MsgLen = srv.sent
      BY DEF StreamInv, BodyAddsUp
    <3>2. strm.body = 0 /\ buf < MsgLen
      BY DEF ReadEnd
    <3>3. buf \in Nat /\ given * MsgLen \in Nat
      BY <1>1, WideFields, OneMore
    <3> QED
      BY <2>6, <3>1, <3>2, <3>3
  <2>8. given * MsgLen = srv.sent
    <3>1. CASE srv.sent = 0
      <4>1. buf \in Nat /\ given * MsgLen \in Nat
        BY <1>1, WideFields, OneMore
      <4> QED
        BY <2>7, <3>1, <4>1
    <3>2. CASE srv.sent = Response
      <4>1. given \in Nat /\ buf \in Nat /\ given * MsgLen \in Nat
        BY <1>1, WideFields, OneMore
      <4>2. given <= Messages
        <5>1. given * MsgLen <= Response
          BY <2>7, <3>2, <4>1
        <5> QED
          BY <4>1, <5>1, WholeMessages
      <4>3. ASSUME given < Messages PROVE FALSE
        <5>1. given + 1 \in Nat /\ given + 1 <= Messages
          BY <4>1, <4>3, Numbers
        <5>2. PICK d \in Nat : Messages = given + 1 + d
          <6>1. Messages - (given + 1) \in Nat /\ Messages = given + 1 + (Messages - (given + 1))
            BY <5>1, Numbers
          <6> QED
            BY <6>1
        <5>3. Messages * MsgLen = given * MsgLen + MsgLen + d * MsgLen
          BY <4>1, <5>2, Numbers
        <5>4. d * MsgLen \in Nat
          BY OneMore
        <5> QED
          BY <2>7, <3>2, <4>1, <5>3, <5>4, Numbers DEF Response
      <4>4. given = Messages
        BY <4>1, <4>2, <4>3, Numbers
      <4> QED
        BY <3>2, <4>4 DEF Response
    <3> QED
      BY <2>5, <3>1, <3>2
  <2>9. EndIsTheEnd'
    BY <2>5, <2>8 DEF EndIsTheEnd, ReadEnd
  <2> QED
    BY <1>3, <2>1, <2>2, <2>3, <2>4, <2>9, Reads DEF ReadEnd, ServerKeeps
<1>4. strm.reset \in BOOLEAN /\ strm.end \in BOOLEAN
  BY <1>1, WideFields
<1>5. (\E c \in Causes \ {"none", "dial"} : Fail(c)) \/ (strm.end /\ pc' = "done" /\ UNCHANGED cause)
  <2>1. "rst" \in Causes \ {"none", "dial"} /\ "goaway" \in Causes \ {"none", "dial"}
    BY DEF Causes
  <2> QED
    BY <1>4, <2>1 DEF ReadEnd
<1> QED
  BY <1>2, <1>3, <1>5

\* The time is over, with or without a part of a record.
LEMMA StreamTimeout == StreamInv /\ Timeout => StreamInv'
<1> SUFFICES ASSUME StreamInv, Timeout PROVE StreamInv'
  OBVIOUS
<1>1. Wide /\ Plain
  BY TypeWide DEF StreamInv
<1>2. CASE Fail("timeout") /\ UNCHANGED torn
  <2>1. "timeout" \in Causes \ {"none", "dial"}
    BY DEF Causes
  <2> QED
    BY <1>1, <1>2, <2>1, Fails DEF Timeout, Plain, Waiting
<1>3. CASE pc = "read" /\ torn' = part /\ UNCHANGED <<pc, cause>>
  <2>1. Wide'
    BY <1>1 DEF Wide, Timeout
  <2>2. Plain'
    BY <1>1, <1>3 DEF Plain, Timeout
  <2>3. BodyAddsUp'
    BY DEF StreamInv, BodyAddsUp, Timeout
  <2>4. LiteTakesOne' /\ EndIsTheEnd'
    BY <1>3 DEF StreamInv, LiteTakesOne, EndIsTheEnd, Timeout
  <2> QED
    BY <1>3, <2>1, <2>2, <2>3, <2>4, Reads DEF Timeout, ServerKeeps
<1> QED
  BY <1>2, <1>3 DEF Timeout

\* Only a part of a record arrives, or the server closes the connection.
LEMMA StreamTransport == StreamInv /\ (ArrivesInPart \/ ServerCloses) => StreamInv'
<1> SUFFICES ASSUME StreamInv, ArrivesInPart \/ ServerCloses PROVE StreamInv'
  OBVIOUS
<1>1. Wide /\ Plain
  BY TypeWide DEF StreamInv
<1>2. /\ UNCHANGED client /\ c2s' = c2s /\ s2c' = s2c
  BY DEF ArrivesInPart, ServerCloses
<1>3. ServerKeeps' = ServerKeeps /\ srv'.settings = srv.settings
  <2>1. CASE ArrivesInPart
    BY <2>1 DEF ArrivesInPart, ServerKeeps
  <2>2. CASE ServerCloses
    BY <1>1, <2>2 DEF ServerCloses, ServerKeeps, Wide
  <2> QED
    BY <2>1, <2>2
<1>4. Wide'
  <2>1. CASE ArrivesInPart
    BY <1>1, <1>2, <2>1 DEF ArrivesInPart, Wide, client
  <2>2. CASE ServerCloses
    <3>1. srv.extras + 1 \in 0..MaxExtras
      BY <1>1, <2>2, WideFields, Numbers DEF ServerCloses
    <3> QED
      BY <1>1, <1>2, <2>2, <3>1 DEF ServerCloses, Wide, client, ServerRecords
  <2> QED
    BY <2>1, <2>2
<1>5. Plain'
  BY <1>1, <1>2 DEF Plain, client, ArrivesInPart, ServerCloses
<1>6. /\ srv'.open = srv.open /\ srv'.replied = srv.replied /\ srv'.sent = srv.sent
      /\ srv'.ended = srv.ended
  BY <1>3 DEF ServerKeeps
<1>7. Undialed' <=> Undialed
  BY <1>2 DEF Undialed, client
<1>8. FramesFit' /\ GreetingFirst' /\ SendsAddUp' /\ GrantsHold' /\ EndsLast'
  BY <1>2, <1>3, <1>7, ChannelsKept DEF StreamInv, client
<1>9. Begins'
  BY <1>2, <1>6, <1>7 DEF StreamInv, Begins, client
<1>10. BodyAddsUp'
  BY <1>2, <1>6 DEF StreamInv, BodyAddsUp, client
<1>11. LiteTakesOne' /\ EndIsTheEnd'
  BY <1>2, <1>6 DEF StreamInv, LiteTakesOne, EndIsTheEnd, client
<1> QED
  BY <1>4, <1>5, <1>8, <1>9, <1>10, <1>11, Kept

-----------------------------------------------------------------------------
(***************************************************************************)
(* The greeting.                                                           *)
(***************************************************************************)

\* A frame is one.
LEMMA FrameType ==
  ASSUME NEW k \in {"settings", "window", "headers", "info", "error", "data", "rst", "goaway",
                    "ping"},
         NEW of \in {"conn", "strm"}, NEW n \in Nat, NEW last \in BOOLEAN
  PROVE  /\ Frame(k, of, n, last) \in Frames
         /\ Frame(k, of, n, last).kind = k /\ Frame(k, of, n, last).of = of
         /\ Frame(k, of, n, last).n = n /\ Frame(k, of, n, last).last = last
BY DEF Frame, Frames

\* The frames of the greeting.
LEMMA GreetingFrames ==
  /\ Greeting \in Seq(Frames) /\ Len(Greeting) = 3
  /\ Greeting[1].kind = "settings" /\ Greeting[1].of = "conn" /\ Greeting[1].n = OurWindow
  /\ Greeting[2].kind = "window" /\ Greeting[2].of = "conn"
  /\ Greeting[2].n = OurWindow - DefaultWindow
  /\ Greeting[3].kind = "headers"
<1>1. OurWindow - DefaultWindow \in Nat
  BY Numbers
<1>2. /\ Frame("settings", "conn", OurWindow, FALSE) \in Frames
      /\ Frame("window", "conn", OurWindow - DefaultWindow, FALSE) \in Frames
      /\ Frame("headers", "strm", 0, FALSE) \in Frames
  BY <1>1, Numbers DEF Frame, Frames
<1>3. Greeting \in Seq(Frames) /\ Len(Greeting) = 3
  <2> DEFINE a == Frame("settings", "conn", OurWindow, FALSE)
             b == Frame("window", "conn", OurWindow - DefaultWindow, FALSE)
             c == Frame("headers", "strm", 0, FALSE)
  <2>1. Greeting = <<a, b, c>>
    BY DEF Greeting
  <2>2. a \in Frames /\ b \in Frames /\ c \in Frames
    BY <1>2
  <2> HIDE DEF a, b, c
  <2>3. <<a, b, c>> \in Seq(Frames) /\ Len(<<a, b, c>>) = 3
    BY <2>2
  <2> QED
    BY <2>1, <2>3
<1>4. /\ Greeting[1] = Frame("settings", "conn", OurWindow, FALSE)
      /\ Greeting[2] = Frame("window", "conn", OurWindow - DefaultWindow, FALSE)
      /\ Greeting[3] = Frame("headers", "strm", 0, FALSE)
  BY DEF Greeting
<1> QED
  BY <1>3, <1>4 DEF Frame

\* The units of the greeting: what OUR_WINDOW is above the default.
LEMMA GreetingUnits ==
  /\ InFlight(Greeting, "data", "strm") = 0 /\ InFlight(Greeting, "window", "strm") = 0
  /\ InFlight(Greeting, "window", "conn") = OurWindow - DefaultWindow
<1>1. \A i \in 1..3 : i = 1 \/ i = 2 \/ i = 3
  OBVIOUS
<1>2. InFlight(Greeting, "data", "strm") = 0
  <2>1. \A i \in 1..Len(Greeting) : Weight(Greeting[i], "data", "strm") = 0
    BY <1>1, GreetingFrames DEF Weight
  <2> QED
    BY <2>1, GreetingFrames, InFlightNone
<1>3. InFlight(Greeting, "window", "strm") = 0
  <2>1. \A i \in 1..Len(Greeting) : Weight(Greeting[i], "window", "strm") = 0
    BY <1>1, GreetingFrames DEF Weight
  <2> QED
    BY <2>1, GreetingFrames, InFlightNone
<1>4. InFlight(Greeting, "window", "conn") = OurWindow - DefaultWindow
  <2> DEFINE w(i) == Weight(Greeting[i], "window", "conn")
             g == [i \in 0..3 |-> IF i < 2 THEN 0 ELSE OurWindow - DefaultWindow]
  <2>1. w(1) = 0 /\ w(2) = OurWindow - DefaultWindow /\ w(3) = 0
    BY GreetingFrames DEF Weight
  <2>2. OurWindow - DefaultWindow \in Nat
    BY Numbers
  <2>3. g \in [0..3 -> Nat] /\ g[0] = 0 /\ g[1] = 0 /\ g[2] = OurWindow - DefaultWindow
        /\ g[3] = OurWindow - DefaultWindow
    BY <2>2
  <2> HIDE DEF g
  <2>4. /\ g[1] = g[1 - 1] + w(1) /\ g[2] = g[2 - 1] + w(2) /\ g[3] = g[3 - 1] + w(3)
    BY <2>1, <2>2, <2>3
  <2>5. \A i \in 1..3 : g[i] = g[i - 1] + w(i)
    BY <1>1, <2>4
  <2>6. Sums(Greeting, "window", "conn", g)
    BY <2>3, <2>5, GreetingFrames DEF Sums
  <2>7. InFlight(Greeting, "window", "conn") = g[3]
    BY <2>6, GreetingFrames, InFlightIs
  <2> QED
    BY <2>3, <2>7
<1> QED
  BY <1>2, <1>3, <1>4

\* controlbase::dial, the preface and the headers.
LEMMA StreamDial == ASSUME StreamInv, NEW early, Dial(early) PROVE StreamInv'
<1>1. Wide /\ Plain
  BY TypeWide DEF StreamInv
<1>2. /\ pc = "dial" /\ pc' = "send" /\ c2s' = Greeting /\ s2c' = s2c /\ srv' = srv /\ h2' = h2
      /\ UNCHANGED <<request, offset, buf, given, torn, cause, part, closed>>
  BY DEF Dial
<1>3. Undialed /\ ~Undialed' /\ cause = "none" /\ c2s = << >> /\ ~srv.open
  BY <1>2 DEF StreamInv, Begins, Undialed
<1>4. Unset /\ Unset'
  <2>1. Greeting # << >>
    BY DEF Greeting
  <2> QED
    BY <1>2, <1>3, <2>1, GreetingFrames DEF Unset
<1>5. /\ strm'.send = h2.initial /\ strm'.consumed = strm.consumed /\ strm'.body = strm.body
      /\ strm'.end = strm.end
  BY <1>1 DEF Dial, Wide
<1>6. Wide'
  <2>1. h2.initial \in Int
    BY <1>1, WideFields
  <2>2. strm' \in StreamRecords
    BY <1>1, <2>1 DEF Wide, Dial, StreamRecords
  <2> QED
    BY <1>1, <1>2, <2>2 DEF Wide
<1>7. Plain'
  <2>1. c2s' \in Seq(Frames)
    BY <1>2, GreetingFrames
  <2> QED
    BY <1>1, <1>2, <2>1 DEF Plain
<1>8. Begins'
  <2>1. (srv.replied => srv.open) /\ (~srv.replied => srv.sent = 0)
    BY DEF StreamInv, Begins
  <2> QED
    BY <1>2, <1>3, <2>1 DEF Begins
<1>9. GreetingFirst'
  <2>1. Len(Greeting) >= 3 /\ (\A i \in 1..3 : Greeting[i] = Greeting[3 - 3 + i])
        /\ 3 + 1..Len(Greeting) = {}
    BY GreetingFrames
  <2>2. Greeted(3)'
    BY <1>2, <2>1 DEF Greeted
  <2>3. ~srv'.open
    BY <1>2, <1>3
  <2>4. 3 \in 0..3 /\ 3 # 0
    OBVIOUS
  <2> QED
    BY <2>2, <2>3, <2>4 DEF GreetingFirst
<1>10. \A k, of : InFlight(c2s, k, of) = 0
  BY <1>3, InFlightEmpty
<1>11. SendsAddUp'
  <2>1. InFlight(c2s, "data", "strm") = 0 /\ InFlight(c2s', "data", "strm") = 0
    BY <1>2, <1>10, GreetingUnits
  <2> QED
    BY <1>2, <1>3, <1>5, <2>1 DEF StreamInv, SendsAddUp
<1>12. GrantsHold'
  <2>1. /\ InFlight(c2s, "window", "conn") = 0 /\ InFlight(c2s, "window", "strm") = 0
        /\ InFlight(c2s', "window", "conn") = OurWindow - DefaultWindow
        /\ InFlight(c2s', "window", "strm") = 0
    BY <1>2, <1>10, GreetingUnits
  <2>2. /\ srv.outConn + InFlight(s2c, "data", "strm") + 0 + h2.consumed = DefaultWindow
        /\ srv.outStrm + InFlight(s2c, "data", "strm") + 0 + strm.consumed = DefaultWindow
        /\ srv.outStrm = DefaultWindow
    BY <1>3, <1>4, <2>1 DEF StreamInv, GrantsHold
  <2>3. /\ InFlight(s2c, "data", "strm") \in Nat /\ srv.outConn \in Nat /\ h2.consumed \in Nat
        /\ OurWindow \in Nat /\ DefaultWindow \in Nat /\ srv.outStrm \in Nat
        /\ strm.consumed \in Nat
    BY <1>1, WideNumbers, Units, Numbers
  <2>4. srv.outConn + InFlight(s2c, "data", "strm") + (OurWindow - DefaultWindow) + h2.consumed
          = OurWindow
    <3>1. srv.outConn + InFlight(s2c, "data", "strm") + 0 + h2.consumed = DefaultWindow
      BY <2>2
    <3> QED
      BY <2>3, <3>1
  <2>5. srv.outStrm + InFlight(s2c, "data", "strm") + InFlight(c2s', "window", "strm")
          + strm'.consumed = DefaultWindow
    BY <1>5, <2>1, <2>2
  <2>6. srv' = srv /\ s2c' = s2c /\ h2' = h2
    BY <1>2
  <2>7. srv.outConn + InFlight(s2c, "data", "strm") + InFlight(c2s', "window", "conn") + h2.consumed
          = OurWindow
    BY <2>1, <2>4
  <2> QED
    BY <1>3, <1>4, <2>2, <2>5, <2>6, <2>7 DEF GrantsHold
<1>13. BodyAddsUp'
  BY <1>2, <1>5 DEF StreamInv, BodyAddsUp
<1>14. EndsLast'
  BY <1>2, <1>5 DEF StreamInv, EndsLast
<1>15. LiteTakesOne' /\ EndIsTheEnd'
  BY <1>2 DEF StreamInv, LiteTakesOne, EndIsTheEnd
<1>16. FramesFit'
  <2>1. \A i \in 1..3 : i = 1 \/ i = 2 \/ i = 3
    OBVIOUS
  <2>2. \A i \in 1..Len(Greeting) : Greeting[i].kind = "data" => Greeting[i].of = "strm"
    BY <2>1, GreetingFrames
  <2> QED
    BY <1>2, <2>2 DEF StreamInv, FramesFit
<1> QED
  BY <1>16, <1>6, <1>7, <1>8, <1>9, <1>11, <1>12, <1>13, <1>14, <1>15, Kept

\* k frames of the greeting are the first in a channel.
Led(q, k) ==
  /\ Len(q) >= k /\ \A i \in 1..k : q[i] = Greeting[3 - k + i]
  /\ \A i \in k + 1..Len(q) : q[i].kind \in {"data", "window"}

\* The SETTINGS are the first in a channel.
Opens(q) == q # << >> /\ q[1].kind = "settings"

\* A frame behind the greeting.
LEMMA LedAppend ==
  ASSUME NEW q \in Seq(Frames), NEW f \in Frames, f.kind \in {"data", "window"}, NEW k \in 0..3,
         Led(q, k)
  PROVE  Led(Append(q, f), k) /\ (Opens(Append(q, f)) <=> Opens(q))
<1> DEFINE r == Append(q, f)
<1>1. /\ Len(q) \in Nat /\ Len(r) = Len(q) + 1 /\ r[Len(q) + 1] = f
      /\ (\A i \in 1..Len(q) : r[i] = q[i]) /\ r # << >>
      /\ (q = << >> => Len(q) = 0)
  OBVIOUS
<1> HIDE DEF r
<1>2. Led(r, k)
  <2>1. Len(q) >= k
    BY DEF Led
  <2>2. Len(r) >= k
    BY <1>1, <2>1
  <2>3. ASSUME NEW i \in 1..k PROVE r[i] = Greeting[3 - k + i]
    <3>1. i \in 1..Len(q)
      BY <1>1, <2>1
    <3> QED
      BY <1>1, <3>1 DEF Led
  <2>4. ASSUME NEW i \in k + 1..Len(r) PROVE r[i].kind \in {"data", "window"}
    <3>1. CASE i = Len(q) + 1
      BY <1>1, <3>1
    <3>2. CASE i # Len(q) + 1
      <4>1. i \in 1..Len(q) /\ i \in k + 1..Len(q)
        BY <1>1, <3>2
      <4> QED
        BY <1>1, <4>1 DEF Led
    <3> QED
      BY <3>1, <3>2
  <2> QED
    BY <2>2, <2>3, <2>4 DEF Led
<1>3. Opens(r) <=> Opens(q)
  <2>1. CASE q = << >>
    <3>1. Len(q) = 0 /\ Len(q) + 1 = 1
      BY <1>1, <2>1
    <3>2. r[1] = f
      BY <1>1, <3>1
    <3> QED
      BY <2>1, <3>2 DEF Opens
  <2>2. CASE q # << >>
    <3>1. Len(q) # 0
      BY <2>2, EmptySeq
    <3>2. 1 \in 1..Len(q)
      BY <1>1, <3>1
    <3> QED
      BY <1>1, <2>2, <3>2 DEF Opens
  <2> QED
    BY <2>1, <2>2
<1> QED
  BY <1>2, <1>3 DEF r

\* The first frame is read: one of the greeting, or one behind it.
LEMMA LedTail ==
  ASSUME NEW q \in Seq(Frames), q # << >>, NEW k \in 0..3, Led(q, k)
  PROVE  /\ k = 0 => Head(q).kind \in {"data", "window"} /\ Led(Tail(q), 0) /\ ~Opens(Tail(q))
         /\ k # 0 => Head(q) = Greeting[4 - k] /\ Led(Tail(q), k - 1) /\ ~Opens(Tail(q))
         /\ Opens(q) <=> k = 3
<1> DEFINE r == Tail(q)
<1>1. /\ Len(q) \in Nat /\ Len(q) >= 1 /\ Len(r) = Len(q) - 1 /\ Head(q) = q[1]
      /\ (\A i \in 1..Len(r) : r[i] = q[i + 1]) /\ r \in Seq(Frames)
  OBVIOUS
<1> HIDE DEF r
<1>2. (\A i \in 1..k : q[i] = Greeting[3 - k + i]) /\ Len(q) >= k
      /\ \A i \in k + 1..Len(q) : q[i].kind \in {"data", "window"}
  BY DEF Led
<1>3. \A i \in 1..3 : Greeting[i].kind = "settings" <=> i = 1
  <2>1. \A i \in 1..3 : i = 1 \/ i = 2 \/ i = 3
    OBVIOUS
  <2> QED
    BY <2>1, GreetingFrames
<1>4. ASSUME k = 0
      PROVE  Head(q).kind \in {"data", "window"} /\ Led(r, 0) /\ ~Opens(r)
  <2>1. \A i \in 1..Len(q) : q[i].kind \in {"data", "window"}
    BY <1>2, <1>4
  <2>2. \A i \in 1..Len(r) : r[i].kind \in {"data", "window"}
    <3> TAKE i \in 1..Len(r)
    <3>1. i + 1 \in 1..Len(q)
      BY <1>1
    <3> QED
      BY <1>1, <2>1, <3>1
  <2>3. Head(q).kind \in {"data", "window"}
    BY <1>1, <2>1
  <2>4. Led(r, 0)
    BY <1>1, <2>2 DEF Led
  <2>5. ~Opens(r)
    <3> SUFFICES ASSUME r # << >> PROVE r[1].kind # "settings"
      BY DEF Opens
    <3>1. Len(r) \in Nat \ {0}
      BY <1>1, EmptySeq
    <3> QED
      BY <2>2, <3>1
  <2> QED
    BY <2>3, <2>4, <2>5
<1>5. ASSUME k # 0
      PROVE  Head(q) = Greeting[4 - k] /\ Led(r, k - 1) /\ ~Opens(r)
  <2>1. Head(q) = Greeting[4 - k]
    <3>1. 1 \in 1..k /\ 3 - k + 1 = 4 - k
      BY <1>5
    <3> QED
      BY <1>1, <1>2, <3>1
  <2>2. ASSUME NEW i \in 1..k - 1 PROVE r[i] = Greeting[3 - (k - 1) + i]
    <3>1. i \in 1..Len(r) /\ i + 1 \in 1..k /\ 3 - k + (i + 1) = 3 - (k - 1) + i
      BY <1>1, <1>2, <1>5
    <3>2. q[i + 1] = Greeting[3 - k + (i + 1)]
      BY <1>2, <3>1
    <3> QED
      BY <1>1, <3>1, <3>2
  <2>3. ASSUME NEW i \in (k - 1) + 1..Len(r) PROVE r[i].kind \in {"data", "window"}
    <3>1. i \in 1..Len(r) /\ i + 1 \in k + 1..Len(q)
      BY <1>1, <1>5
    <3> QED
      BY <1>1, <1>2, <3>1
  <2>4. Led(r, k - 1)
    <3>1. Len(r) >= k - 1
      BY <1>1, <1>2
    <3> QED
      BY <2>2, <2>3, <3>1 DEF Led
  <2>5. ~Opens(r)
    <3> SUFFICES ASSUME r # << >> PROVE r[1].kind # "settings"
      BY DEF Opens
    <3>1. Len(r) \in Nat \ {0}
      BY <1>1, EmptySeq
    <3>2. CASE k = 1
      BY <2>3, <3>1, <3>2
    <3>3. CASE k # 1
      <4>1. 1 \in 1..k - 1 /\ 3 - (k - 1) + 1 \in 1..3 /\ 3 - (k - 1) + 1 # 1
        BY <1>5, <3>3
      <4> QED
        BY <1>3, <2>2, <4>1
    <3> QED
      BY <3>2, <3>3
  <2> QED
    BY <2>1, <2>4, <2>5
<1>6. Opens(q) <=> k = 3
  <2>1. CASE k = 0
    <3>1. 1 \in k + 1..Len(q)
      BY <1>1, <2>1
    <3> QED
      BY <1>2, <2>1, <3>1 DEF Opens
  <2>2. CASE k # 0
    <3>1. 1 \in 1..k /\ 3 - k + 1 \in 1..3 /\ (3 - k + 1 = 1 <=> k = 3)
      BY <2>2
    <3> QED
      BY <1>2, <1>3, <3>1 DEF Opens
  <2> QED
    BY <2>1, <2>2
<1> QED
  BY <1>4, <1>5, <1>6 DEF r

-----------------------------------------------------------------------------
(***************************************************************************)
(* The client sends.                                                       *)
(***************************************************************************)

\* The smaller of two numbers.
LEMMA MinOfTwo ==
  ASSUME NEW a \in Int, NEW b \in Int
  PROVE  Min({a, b}) \in {a, b} /\ Min({a, b}) <= a /\ Min({a, b}) <= b
<1>1. \E x \in {a, b} : \A y \in {a, b} : x <= y
  OBVIOUS
<1>2. Min({a, b}) \in {a, b} /\ \A y \in {a, b} : Min({a, b}) <= y
  BY <1>1 DEF Min
<1> QED
  BY <1>2

\* The larger of 0 and a number.
LEMMA MaxOfZero ==
  ASSUME NEW b \in Int
  PROVE  Max({0, b}) \in {0, b}
<1>1. \E x \in {0, b} : \A y \in {0, b} : x >= y
  OBVIOUS
<1> QED
  BY <1>1 DEF Max

\* The least of three.
LEMMA MinOfThree ==
  ASSUME NEW a \in Int, NEW b \in Int, NEW c \in Int
  PROVE  /\ Min({a, b, c}) \in {a, b, c}
         /\ Min({a, b, c}) <= a /\ Min({a, b, c}) <= b /\ Min({a, b, c}) <= c
<1>1. \E x \in {a, b, c} : \A y \in {a, b, c} : x <= y
  OBVIOUS
<1>2. Min({a, b, c}) \in {a, b, c} /\ \A y \in {a, b, c} : Min({a, b, c}) <= y
  BY <1>1 DEF Min
<1> QED
  BY <1>2

\* send_body stays within the body and both windows.
LEMMA SendSize ==
  ASSUME Wide, NEW n, n = Min({Body - offset, Allowed, MaxFrame}), n > 0
  PROVE  n \in Nat /\ n <= Body - offset /\ n <= strm.send /\ n <= h2.send
<1>1. strm.send \in Int /\ h2.send \in Int /\ offset \in Int /\ Body \in Int /\ MaxFrame \in Int
  BY WideNumbers, Numbers
<1>2. PICK m : m = Min({strm.send, h2.send})
  OBVIOUS
<1>3. m \in Int /\ m <= strm.send /\ m <= h2.send
  BY <1>1, <1>2, MinOfTwo
<1>4. PICK a : a = Allowed
  OBVIOUS
<1>5. a \in {0, m}
  <2>1. a = Max({0, m})
    BY <1>2, <1>4 DEF Allowed
  <2> QED
    BY <1>3, <2>1, MaxOfZero, Zenon
<1>6. PICK b : b = Body - offset /\ b \in Int
  BY <1>1
<1>7. n \in {b, a, MaxFrame} /\ n <= b /\ n <= a
  <2>1. n = Min({b, a, MaxFrame})
    BY <1>4, <1>6
  <2>2. a \in Int
    BY <1>3, <1>5
  <2> QED
    <3>1. b \in Int /\ MaxFrame \in Int
      BY <1>1, <1>6
    <3>2. /\ Min({b, a, MaxFrame}) \in {b, a, MaxFrame}
          /\ Min({b, a, MaxFrame}) <= b /\ Min({b, a, MaxFrame}) <= a
      BY <2>2, <3>1, MinOfThree
    <3> QED
      BY <2>1, <3>2
<1>8. n \in Int
  BY <1>1, <1>3, <1>5, <1>6, <1>7
<1>9. n <= m
  BY <1>3, <1>5, <1>7, <1>8
<1> QED
  BY <1>1, <1>3, <1>6, <1>7, <1>8, <1>9

\* The greeting stays first when frames follow it.
LEMMA GreetingStays ==
  ASSUME GreetingFirst, ~Undialed, ~Undialed', srv'.open = srv.open,
         \A k \in 0..3 : Led(c2s, k) => Led(c2s', k) /\ (Opens(c2s') <=> Opens(c2s))
  PROVE  GreetingFirst' /\ (Unset' <=> Unset)
<1>1. PICK k \in 0..3 : Greeted(k) /\ (srv.open <=> k = 0)
  BY DEF GreetingFirst
<1>2. Led(c2s, k)
  BY <1>1 DEF Greeted, Led
<1>3. Led(c2s', k) /\ (Opens(c2s') <=> Opens(c2s))
  BY <1>2
<1>4. Greeted(k)'
  BY <1>3 DEF Greeted, Led
<1>5. GreetingFirst'
  BY <1>1, <1>4 DEF GreetingFirst
<1>6. Unset' <=> Unset
  BY <1>3 DEF Unset, Opens
<1> QED
  BY <1>5, <1>6

\* send_body: the units move from both windows into the channel.
LEMMA StreamSendData == StreamInv /\ SendData => StreamInv'
<1> SUFFICES ASSUME StreamInv, SendData PROVE StreamInv'
  OBVIOUS
<1>1. Wide /\ Plain
  BY TypeWide DEF StreamInv
<1>2. PICK n : n = Min({Body - offset, Allowed, MaxFrame})
  OBVIOUS
<1>3. /\ pc = "send" /\ n > 0 /\ c2s' = Append(c2s, Frame("data", "strm", n, offset + n = Body))
      /\ offset' = offset + n /\ h2' = [h2 EXCEPT !.send = @ - n]
      /\ strm' = [strm EXCEPT !.send = @ - n] /\ pc' \in {"send", "status"}
      /\ UNCHANGED <<request, buf, given, torn, cause, srv, s2c, part, closed>>
  BY <1>2 DEF SendData
<1>4. n \in Nat /\ n <= Body - offset /\ n <= strm.send /\ n <= h2.send
  BY <1>1, <1>2, <1>3, SendSize
<1>5. ~Undialed /\ ~Undialed' /\ cause = "none"
  BY <1>3, UnderWay DEF Undialed
<1>6. PICK f \in Frames : /\ f.kind = "data" /\ f.of = "strm" /\ f.n = n
                          /\ c2s' = Append(c2s, f)
  <2>1. PICK last \in BOOLEAN : last = (offset + n = Body)
    OBVIOUS
  <2>2. PICK f : f = Frame("data", "strm", n, last)
    OBVIOUS
  <2>3. f \in Frames /\ f.kind = "data" /\ f.of = "strm" /\ f.n = n
    BY <1>4, <2>2, FrameType
  <2>4. c2s' = Append(c2s, f)
    BY <1>3, <2>1, <2>2
  <2> QED
    BY <2>3, <2>4
<1>7. /\ h2'.send = h2.send - n /\ h2'.consumed = h2.consumed /\ h2'.initial = h2.initial
      /\ strm'.send = strm.send - n /\ strm'.consumed = strm.consumed
      /\ strm'.body = strm.body /\ strm'.end = strm.end
  BY <1>1, <1>3 DEF Wide
<1>8. Wide'
  <2>1. h2.send - n \in Nat /\ strm.send - n \in Int /\ offset + n \in 0..Body
    BY <1>1, <1>4, WideNumbers, WideFields, Numbers
  <2>2. h2' \in H2Records
    BY <1>1, <1>3, <2>1 DEF Wide, H2Records
  <2>3. strm' \in StreamRecords
    BY <1>1, <1>3, <2>1 DEF Wide, StreamRecords
  <2> QED
    BY <1>1, <1>3, <2>1, <2>2, <2>3 DEF Wide
<1>9. Plain'
  <2>1. c2s' \in Seq(Frames)
    BY <1>1, <1>6 DEF Plain
  <2> QED
    BY <1>1, <1>3, <2>1 DEF Plain
<1>10. Begins'
  <2>1. (srv.replied => srv.open) /\ (~srv.replied => srv.sent = 0)
    BY DEF StreamInv, Begins
  <2> QED
    BY <1>3, <1>5, <2>1 DEF Begins
<1>11. GreetingFirst' /\ (Unset' <=> Unset)
  <2>1. \A k \in 0..3 : Led(c2s, k) => Led(c2s', k) /\ (Opens(c2s') <=> Opens(c2s))
    BY <1>1, <1>6, LedAppend DEF Plain
  <2> QED
    BY <1>3, <1>5, <2>1, GreetingStays DEF StreamInv
<1>12. /\ InFlight(c2s', "data", "strm") = InFlight(c2s, "data", "strm") + n
       /\ InFlight(c2s', "window", "conn") = InFlight(c2s, "window", "conn")
       /\ InFlight(c2s', "window", "strm") = InFlight(c2s, "window", "strm")
  <2>1. /\ Weight(f, "data", "strm") = n /\ Weight(f, "window", "conn") = 0
        /\ Weight(f, "window", "strm") = 0
    BY <1>6 DEF Weight
  <2>2. c2s \in Seq(Frames) /\ c2s' = Append(c2s, f)
    BY <1>1, <1>6 DEF Plain
  <2>3. \A k, of : InFlight(c2s', k, of) = InFlight(c2s, k, of) + Weight(f, k, of)
    BY <2>2, InFlightAppend
  <2> QED
    BY <1>1, <2>1, <2>3, Units
<1>13. SendsAddUp'
  <2>0. SendsAddUp
    BY DEF StreamInv
  <2>o. offset' = offset + n
    BY <1>3
  <2>1. h2'.send + InFlight(c2s', "data", "strm") + InFlight(s2c, "window", "conn") = srv.conn
    <3>1. h2.send + InFlight(c2s, "data", "strm") + InFlight(s2c, "window", "conn") = srv.conn
      BY <2>0 DEF SendsAddUp
    <3> QED
      BY <1>1, <1>4, <1>7, <1>12, <3>1, Units, WideNumbers
  <2>2. strm'.send + InFlight(c2s', "data", "strm") + InFlight(s2c, "window", "strm")
          + (srv.initial - h2'.initial) = srv.strm
    <3>1. strm.send + InFlight(c2s, "data", "strm") + InFlight(s2c, "window", "strm")
            + (srv.initial - h2.initial) = srv.strm
      BY <1>5, <2>0 DEF SendsAddUp
    <3> QED
      BY <1>1, <1>4, <1>7, <1>12, <3>1, Units, WideNumbers
  <2>3. InFlight(c2s', "data", "strm") + srv.got = offset'
    <3>1. InFlight(c2s, "data", "strm") + srv.got = offset
      BY <2>0 DEF SendsAddUp
    <3> QED
      BY <1>1, <1>4, <1>12, <2>o, <3>1, Units, WideNumbers
  <2>4. srv.oweStrm + InFlight(s2c, "window", "strm") + InFlight(c2s', "data", "strm") <= offset'
    <3>1. srv.oweStrm + InFlight(s2c, "window", "strm") + InFlight(c2s, "data", "strm") <= offset
      BY <2>0 DEF SendsAddUp
    <3> QED
      BY <1>1, <1>4, <1>12, <2>o, <3>1, Units, WideNumbers
  <2> QED
    BY <1>3, <1>5, <2>0, <2>1, <2>2, <2>3, <2>4 DEF SendsAddUp
<1>14. GrantsHold'
  BY <1>3, <1>5, <1>7, <1>11, <1>12 DEF StreamInv, GrantsHold
<1>15. BodyAddsUp'
  BY <1>3, <1>7 DEF StreamInv, BodyAddsUp
<1>16. EndsLast'
  BY <1>3, <1>7 DEF StreamInv, EndsLast
<1>17. LiteTakesOne' /\ EndIsTheEnd'
  BY <1>3 DEF StreamInv, LiteTakesOne, EndIsTheEnd
<1>18. FramesFit'
  <2>1. c2s \in Seq(Frames) /\ c2s' = Append(c2s, f) /\ f.of = "strm"
    BY <1>1, <1>6 DEF Plain
  <2>2. \A i \in 1..Len(c2s) : c2s[i].kind = "data" => c2s[i].of = "strm"
    BY DEF StreamInv, FramesFit
  <2>3. \A i \in 1..Len(c2s') : c2s'[i].kind = "data" => c2s'[i].of = "strm"
    BY <2>1, <2>2
  <2> QED
    BY <1>3, <2>3 DEF StreamInv, FramesFit
<1> QED
  BY <1>18, <1>8, <1>9, <1>10, <1>11, <1>13, <1>14, <1>15, <1>16, <1>17, Kept

-----------------------------------------------------------------------------
(***************************************************************************)
(* The client handles a frame.                                             *)
(***************************************************************************)

\* What taking a frame does.
LEMMA Taken ==
  ASSUME StreamInv, NEW f, Take(f)
  PROVE  /\ f \in Frames /\ s2c' \in Seq(Frames)
         /\ \A k, of : InFlight(s2c, k, of) = Weight(f, k, of) + InFlight(s2c', k, of)
         /\ pc' = pc /\ cause' = cause /\ cause = "none" /\ pc \in {"send", "status", "read"}
         /\ srv' = srv /\ UNCHANGED <<request, offset, buf, given, torn, closed>>
         /\ part' = FALSE /\ ~Undialed /\ ~Undialed'
         /\ f.kind = "data" => f.of = "strm"
         /\ f.kind = "settings" => f.n <= MaxWindow
<1>1. Plain
  BY TypeWide DEF StreamInv
<1>2. /\ Waiting /\ s2c # << >> /\ f = Head(s2c) /\ s2c' = Tail(s2c) /\ part' = FALSE
      /\ srv' = srv /\ UNCHANGED <<pc, request, offset, buf, given, torn, cause, closed>>
  BY DEF Take
<1>3. pc \in {"send", "status", "read"}
  BY <1>2 DEF Waiting
<1>4. cause = "none" /\ ~Undialed
  BY <1>3, UnderWay
<1>5. ~Undialed'
  BY <1>2, <1>4 DEF Undialed
<1>6. s2c \in Seq(Frames)
  BY <1>1 DEF Plain
<1>7. f \in Frames /\ s2c' \in Seq(Frames) /\ 1 \in 1..Len(s2c) /\ f = s2c[1]
  BY <1>2, <1>6
<1>8. \A k, of : InFlight(s2c, k, of) = Weight(f, k, of) + InFlight(s2c', k, of)
  BY <1>2, <1>6, InFlightTail
<1>9. (f.kind = "data" => f.of = "strm") /\ (f.kind = "settings" => f.n <= MaxWindow)
  BY <1>7 DEF StreamInv, FramesFit
<1> QED
  BY <1>2, <1>3, <1>4, <1>5, <1>7, <1>8, <1>9

\* The end stays behind the data.
LEMMA EndsTaken ==
  ASSUME StreamInv, NEW f, Take(f), strm'.end => strm.end \/ f.last
  PROVE  EndsLast' /\ \A i \in 1..Len(s2c') : /\ s2c'[i].kind = "data" => s2c'[i].of = "strm"
                                              /\ s2c'[i].kind = "settings" => s2c'[i].n <= MaxWindow
<1>0. Plain
  BY TypeWide DEF StreamInv
<1>1. /\ s2c # << >> /\ f = Head(s2c) /\ s2c' = Tail(s2c) /\ srv' = srv /\ s2c \in Seq(Frames)
  BY <1>0 DEF Take, Plain
<1>2. PICK n \in Nat : Len(s2c) = n + 1 /\ Len(s2c') = n /\ f = s2c[1]
                       /\ \A i \in 1..n : s2c'[i] = s2c[i + 1]
  <2>1. /\ Len(s2c) - 1 \in Nat /\ Len(s2c) = (Len(s2c) - 1) + 1 /\ Len(s2c') = Len(s2c) - 1
        /\ f = s2c[1] /\ \A i \in 1..Len(s2c) - 1 : s2c'[i] = s2c[i + 1]
    BY <1>1
  <2> QED
    BY <2>1
<1>3. /\ \A i \in 1..n + 1 : s2c[i].last =>
           /\ srv.ended /\ srv.sent \in {0, Response}
           /\ \A j \in i + 1..n + 1 : s2c[j].kind # "data"
      /\ strm.end =>
           /\ srv.ended /\ srv.sent \in {0, Response}
           /\ \A j \in 1..n + 1 : s2c[j].kind # "data"
  BY <1>2 DEF StreamInv, EndsLast
<1>4. ASSUME NEW i \in 1..n, s2c'[i].last
      PROVE  /\ srv.ended /\ srv.sent \in {0, Response}
             /\ \A j \in i + 1..n : s2c'[j].kind # "data"
  <2>1. i + 1 \in 1..n + 1 /\ s2c[i + 1].last
    BY <1>2, <1>4
  <2>2. srv.ended /\ srv.sent \in {0, Response} /\ \A j \in (i + 1) + 1..n + 1 : s2c[j].kind # "data"
    BY <1>3, <2>1
  <2>3. ASSUME NEW j \in i + 1..n PROVE s2c'[j].kind # "data"
    <3>1. j + 1 \in (i + 1) + 1..n + 1 /\ j \in 1..n
      OBVIOUS
    <3> QED
      BY <1>2, <2>2, <3>1
  <2> QED
    BY <2>2, <2>3
<1>5. ASSUME strm'.end
      PROVE  /\ srv.ended /\ srv.sent \in {0, Response}
             /\ \A j \in 1..n : s2c'[j].kind # "data"
  <2>1. 1 \in 1..n + 1
    OBVIOUS
  <2>2. srv.ended /\ srv.sent \in {0, Response} /\ \A j \in 1 + 1..n + 1 : s2c[j].kind # "data"
    <3>1. CASE strm.end
      <4>1. \A j \in 1 + 1..n + 1 : j \in 1..n + 1
        OBVIOUS
      <4> QED
        BY <1>3, <3>1, <4>1
    <3>2. CASE f.last
      BY <1>2, <1>3, <2>1, <3>2
    <3> QED
      BY <1>5, <3>1, <3>2
  <2>3. ASSUME NEW j \in 1..n PROVE s2c'[j].kind # "data"
    <3>1. j + 1 \in 1 + 1..n + 1
      OBVIOUS
    <3> QED
      BY <1>2, <2>2, <3>1
  <2> QED
    BY <2>2, <2>3
<1>6. EndsLast'
  BY <1>1, <1>2, <1>4, <1>5 DEF EndsLast
<1>7. ASSUME NEW i \in 1..n
      PROVE  /\ s2c'[i].kind = "data" => s2c'[i].of = "strm"
             /\ s2c'[i].kind = "settings" => s2c'[i].n <= MaxWindow
  <2>1. i + 1 \in 1..Len(s2c) /\ s2c'[i] = s2c[i + 1]
    BY <1>2
  <2> QED
    BY <2>1 DEF StreamInv, FramesFit
<1> QED
  BY <1>2, <1>6, <1>7

\* A frame is handled: what is left to show.
LEMMA Handled ==
  ASSUME StreamInv, NEW f, Take(f), Wide', c2s' \in Seq(Frames), GreetingFirst', SendsAddUp',
         GrantsHold', BodyAddsUp', strm'.end => strm.end \/ f.last,
         \A i \in 1..Len(c2s') : c2s'[i].kind = "data" => c2s'[i].of = "strm"
  PROVE  StreamInv'
<1>1. Plain
  BY TypeWide DEF StreamInv
<1>2. /\ s2c' \in Seq(Frames) /\ srv' = srv /\ pc' = pc /\ cause' = cause /\ cause = "none"
      /\ pc \in {"send", "status", "read"} /\ ~Undialed' /\ part' = FALSE
      /\ UNCHANGED <<request, offset, buf, given, torn, closed>>
  BY Taken
<1>3. Plain'
  BY <1>1, <1>2 DEF Plain
<1>4. Begins'
  <2>1. (srv.replied => srv.open) /\ (~srv.replied => srv.sent = 0)
    BY DEF StreamInv, Begins
  <2> QED
    BY <1>2, <2>1 DEF Begins
<1>5. EndsLast' /\ FramesFit'
  BY EndsTaken DEF FramesFit
<1>6. LiteTakesOne' /\ EndIsTheEnd'
  BY <1>2 DEF StreamInv, LiteTakesOne, EndIsTheEnd
<1> QED
  BY <1>3, <1>4, <1>5, <1>6, Kept

\* The sums of which a step changes no part: what the client may send.
LEMMA SendsSame ==
  ASSUME SendsAddUp, ~Undialed, ~Undialed', srv' = srv, offset' = offset,
         h2'.send = h2.send, h2'.initial = h2.initial, strm'.send = strm.send,
         InFlight(c2s', "data", "strm") = InFlight(c2s, "data", "strm"),
         InFlight(s2c', "window", "conn") = InFlight(s2c, "window", "conn"),
         InFlight(s2c', "window", "strm") = InFlight(s2c, "window", "strm")
  PROVE  SendsAddUp'
BY DEF SendsAddUp

\* What the server may send.
LEMMA GrantsSame ==
  ASSUME GrantsHold, Undialed' <=> Undialed, Unset' <=> Unset, srv' = srv,
         h2'.consumed = h2.consumed, strm'.consumed = strm.consumed,
         InFlight(s2c', "data", "strm") = InFlight(s2c, "data", "strm"),
         InFlight(c2s', "window", "conn") = InFlight(c2s, "window", "conn"),
         InFlight(c2s', "window", "strm") = InFlight(c2s, "window", "strm")
  PROVE  GrantsHold'
BY DEF GrantsHold

\* The units of the response.
LEMMA BodySame ==
  ASSUME BodyAddsUp, srv' = srv, strm'.body = strm.body, buf' = buf, given' = given,
         InFlight(s2c', "data", "strm") = InFlight(s2c, "data", "strm")
  PROVE  BodyAddsUp'
BY DEF BodyAddsUp

\* Nothing is sent to the server.
LEMMA NothingSent ==
  ASSUME StreamInv, NEW f, Take(f), c2s' = c2s
  PROVE  /\ GreetingFirst' /\ (Unset' <=> Unset) /\ c2s' \in Seq(Frames)
         /\ \A i \in 1..Len(c2s') : c2s'[i].kind = "data" => c2s'[i].of = "strm"
<1>1. ~Undialed /\ ~Undialed' /\ srv' = srv
  BY Taken
<1>2. GreetingFirst'
  BY <1>1 DEF StreamInv, GreetingFirst, Greeted
<1>3. Unset' <=> Unset
  BY <1>1 DEF Unset
<1>4. c2s \in Seq(Frames)
  BY TypeWide DEF StreamInv, Plain
<1>5. \A i \in 1..Len(c2s) : c2s[i].kind = "data" => c2s[i].of = "strm"
  BY DEF StreamInv, FramesFit
<1> QED
  BY <1>2, <1>3, <1>4, <1>5

\* The units of a kind that a frame has none of stay.
LEMMA UnitsStay ==
  ASSUME StreamInv, NEW f, Take(f), NEW k, NEW of, Weight(f, k, of) = 0
  PROVE  InFlight(s2c', k, of) = InFlight(s2c, k, of)
<1>1. s2c' \in Seq(Frames) /\ InFlight(s2c, k, of) = Weight(f, k, of) + InFlight(s2c', k, of)
  BY Taken
<1>2. InFlight(s2c', k, of) \in Nat
  BY <1>1, InFlightNat
<1> QED
  BY <1>1, <1>2

\* A frame without units, of which the windows and the body are left alone.
LEMMA NoUnits ==
  ASSUME StreamInv, NEW f, Take(f), f.kind \notin {"data", "window"}, Wide', c2s' = c2s,
         h2'.send = h2.send, h2'.consumed = h2.consumed, h2'.initial = h2.initial,
         strm'.send = strm.send, strm'.consumed = strm.consumed, strm'.body = strm.body,
         strm'.end => strm.end \/ f.last
  PROVE  StreamInv'
<1>1. /\ InFlight(s2c', "data", "strm") = InFlight(s2c, "data", "strm")
      /\ InFlight(s2c', "window", "conn") = InFlight(s2c, "window", "conn")
      /\ InFlight(s2c', "window", "strm") = InFlight(s2c, "window", "strm")
  <2>1. /\ Weight(f, "data", "strm") = 0 /\ Weight(f, "window", "conn") = 0
        /\ Weight(f, "window", "strm") = 0
    BY DEF Weight
  <2> QED
    BY <2>1, UnitsStay
<1>2. ~Undialed /\ ~Undialed' /\ srv' = srv /\ offset' = offset /\ buf' = buf /\ given' = given
  BY Taken
<1>3. /\ GreetingFirst' /\ (Unset' <=> Unset) /\ c2s' \in Seq(Frames)
      /\ \A i \in 1..Len(c2s') : c2s'[i].kind = "data" => c2s'[i].of = "strm"
  BY NothingSent
<1>4. SendsAddUp'
  BY <1>1, <1>2, SendsSame DEF StreamInv
<1>5. GrantsHold'
  BY <1>1, <1>2, <1>3, GrantsSame DEF StreamInv
<1>6. BodyAddsUp'
  BY <1>1, <1>2, BodySame DEF StreamInv
<1> QED
  BY <1>3, <1>4, <1>5, <1>6, Handled

\* HEADERS.
LEMMA StreamHeaders == ASSUME StreamInv, NEW f, HandleHeaders(f) PROVE StreamInv'
<1>1. Wide
  BY TypeWide DEF StreamInv
<1>2. /\ f.kind \in {"headers", "error", "info"} /\ Take(f) /\ h2' = h2 /\ c2s' = c2s
  BY DEF HandleHeaders
<1>3. f \in Frames /\ UNCHANGED <<offset, buf, given>> /\ srv' = srv
  BY <1>2, Taken
<1>4. PICK st \in {"none", "info", "ok", "error"} :
        strm' = [strm EXCEPT !.end = (@ \/ f.last), !.status = st]
  <2>1. strm.status \in {"none", "info", "ok", "error"}
    BY <1>1, WideFields
  <2> QED
    BY <1>2, <2>1 DEF HandleHeaders
<1>5. /\ strm'.send = strm.send /\ strm'.consumed = strm.consumed /\ strm'.body = strm.body
      /\ strm'.end = (strm.end \/ f.last)
  BY <1>1, <1>4 DEF Wide
<1>6. Wide'
  <2>1. (strm.end \/ f.last) \in BOOLEAN
    OBVIOUS
  <2>2. strm' \in StreamRecords
    BY <1>1, <1>4, <2>1 DEF Wide, StreamRecords
  <2> QED
    BY <1>1, <1>2, <1>3, <2>2 DEF Wide
<1> QED
  BY <1>2, <1>5, <1>6, NoUnits

\* RST_STREAM, GOAWAY and PING.
LEMMA StreamOther == ASSUME StreamInv, NEW f, HandleOther(f) PROVE StreamInv'
<1>1. Wide
  BY TypeWide DEF StreamInv
<1>2. f.kind \in {"rst", "goaway", "ping"} /\ Take(f) /\ c2s' = c2s
  BY DEF HandleOther
<1>3. UNCHANGED <<offset, buf, given>> /\ srv' = srv
  BY <1>2, Taken
<1>4. PICK r \in BOOLEAN : strm' = [strm EXCEPT !.reset = r]
  BY DEF HandleOther
<1>5. PICK g \in BOOLEAN : h2' = [h2 EXCEPT !.goaway = g]
  BY DEF HandleOther
<1>6. /\ strm'.send = strm.send /\ strm'.consumed = strm.consumed /\ strm'.body = strm.body
      /\ strm'.end = strm.end
  BY <1>1, <1>4 DEF Wide
<1>7. h2'.send = h2.send /\ h2'.consumed = h2.consumed /\ h2'.initial = h2.initial
  BY <1>1, <1>5 DEF Wide
<1>8. Wide'
  <2>1. strm' \in StreamRecords
    BY <1>1, <1>4 DEF Wide, StreamRecords
  <2>2. h2' \in H2Records
    BY <1>1, <1>5 DEF Wide, H2Records
  <2> QED
    BY <1>1, <1>3, <2>1, <2>2 DEF Wide
<1> QED
  BY <1>2, <1>6, <1>7, <1>8, NoUnits

\* SETTINGS: the window of the open stream moves with the initial window.
LEMMA StreamSettings == ASSUME StreamInv, NEW f, HandleSettings(f) PROVE StreamInv'
<1>1. Wide /\ Plain
  BY TypeWide DEF StreamInv
<1>2. /\ f.kind = "settings" /\ Take(f) /\ c2s' = c2s
      /\ h2' = [h2 EXCEPT !.initial = f.n]
      /\ strm' = [strm EXCEPT !.send = @ + f.n - h2.initial]
  BY DEF HandleSettings, Settings
<1>3. /\ f \in Frames /\ UNCHANGED <<offset, buf, given>> /\ srv' = srv /\ f.n <= MaxWindow
      /\ ~Undialed /\ ~Undialed'
  BY <1>2, Taken
<1>4. f.n \in 0..MaxWindow /\ f.n \in Nat
  BY <1>3, Numbers DEF Frames
<1>5. /\ strm'.send = strm.send + f.n - h2.initial /\ strm'.consumed = strm.consumed
      /\ strm'.body = strm.body /\ strm'.end = strm.end
  BY <1>1, <1>2 DEF Wide
<1>6. h2'.send = h2.send /\ h2'.consumed = h2.consumed /\ h2'.initial = f.n
  BY <1>1, <1>2 DEF Wide
<1>7. Wide'
  <2>1. strm.send + f.n - h2.initial \in Int
    BY <1>1, <1>4, WideNumbers
  <2>2. strm' \in StreamRecords
    BY <1>1, <1>2, <2>1 DEF Wide, StreamRecords
  <2>3. h2' \in H2Records
    BY <1>1, <1>2, <1>4 DEF Wide, H2Records
  <2> QED
    BY <1>1, <1>3, <2>2, <2>3 DEF Wide
<1>8. /\ InFlight(s2c', "data", "strm") = InFlight(s2c, "data", "strm")
      /\ InFlight(s2c', "window", "conn") = InFlight(s2c, "window", "conn")
      /\ InFlight(s2c', "window", "strm") = InFlight(s2c, "window", "strm")
  <2>1. /\ Weight(f, "data", "strm") = 0 /\ Weight(f, "window", "conn") = 0
        /\ Weight(f, "window", "strm") = 0
    BY <1>2 DEF Weight
  <2> QED
    BY <1>2, <2>1, UnitsStay
<1>9. /\ GreetingFirst' /\ (Unset' <=> Unset) /\ c2s' \in Seq(Frames)
      /\ \A i \in 1..Len(c2s') : c2s'[i].kind = "data" => c2s'[i].of = "strm"
  BY <1>2, NothingSent
<1>10. SendsAddUp'
  <2>0. SendsAddUp
    BY DEF StreamInv
  <2>1. strm'.send + InFlight(c2s, "data", "strm") + InFlight(s2c, "window", "strm")
          + (srv.initial - h2'.initial) = srv.strm
    <3>1. strm.send + InFlight(c2s, "data", "strm") + InFlight(s2c, "window", "strm")
            + (srv.initial - h2.initial) = srv.strm
      BY <1>3, <2>0 DEF SendsAddUp
    <3> QED
      BY <1>1, <1>4, <1>5, <1>6, <3>1, Units, WideNumbers
  <2>2. h2'.send = h2.send /\ c2s' = c2s /\ srv' = srv /\ offset' = offset
    BY <1>2, <1>3, <1>6
  <2> QED
    BY <1>3, <1>8, <2>0, <2>1, <2>2 DEF SendsAddUp
<1>11. GrantsHold'
  BY <1>2, <1>3, <1>5, <1>6, <1>8, <1>9, GrantsSame DEF StreamInv
<1>12. BodyAddsUp'
  BY <1>3, <1>5, <1>8, BodySame DEF StreamInv
<1> QED
  BY <1>2, <1>5, <1>7, <1>9, <1>10, <1>11, <1>12, Handled

\* WINDOW_UPDATE: units move from the channel into a window.
LEMMA StreamWindow == ASSUME StreamInv, NEW f, HandleWindow(f) PROVE StreamInv'
<1>1. Wide /\ Plain
  BY TypeWide DEF StreamInv
<1>2. f.kind = "window" /\ Take(f) /\ c2s' = c2s
  BY DEF HandleWindow
<1>3. /\ f \in Frames /\ UNCHANGED <<offset, buf, given>> /\ srv' = srv
      /\ ~Undialed /\ ~Undialed' /\ s2c' \in Seq(Frames)
  BY <1>2, Taken
<1>4. f.n \in Nat /\ f.of \in {"conn", "strm"}
  BY <1>3 DEF Frames
<1>5. InFlight(s2c', "data", "strm") = InFlight(s2c, "data", "strm")
  <2>1. Weight(f, "data", "strm") = 0
    BY <1>2 DEF Weight
  <2> QED
    BY <1>2, <2>1, UnitsStay
<1>6. /\ GreetingFirst' /\ (Unset' <=> Unset) /\ c2s' \in Seq(Frames)
      /\ \A i \in 1..Len(c2s') : c2s'[i].kind = "data" => c2s'[i].of = "strm"
  BY <1>2, NothingSent
<1>7. SendsAddUp
  BY DEF StreamInv
<1>8. CASE f.of = "conn"
  <2>1. strm' = strm /\ h2' = [h2 EXCEPT !.send = @ + f.n]
    BY <1>8 DEF HandleWindow
  <2>2. h2'.send = h2.send + f.n /\ h2'.consumed = h2.consumed /\ h2'.initial = h2.initial
    BY <1>1, <2>1 DEF Wide
  <2>3. Wide'
    <3>1. h2.send + f.n \in Nat
      BY <1>1, <1>4, WideNumbers
    <3>2. h2' \in H2Records
      BY <1>1, <2>1, <3>1 DEF Wide, H2Records
    <3> QED
      BY <1>1, <1>3, <2>1, <3>2 DEF Wide
  <2>4. Weight(f, "window", "conn") = f.n /\ Weight(f, "window", "strm") = 0
    BY <1>2, <1>8 DEF Weight
  <2>5. /\ InFlight(s2c, "window", "conn") = f.n + InFlight(s2c', "window", "conn")
        /\ InFlight(s2c', "window", "strm") = InFlight(s2c, "window", "strm")
        /\ InFlight(s2c', "window", "conn") \in Nat
    <3>1. InFlight(s2c, "window", "conn")
            = Weight(f, "window", "conn") + InFlight(s2c', "window", "conn")
      BY <1>2, Taken
    <3>2. InFlight(s2c', "window", "strm") = InFlight(s2c, "window", "strm")
      BY <1>2, <2>4, UnitsStay
    <3>3. InFlight(s2c', "window", "conn") \in Nat
      BY <1>3, InFlightNat
    <3> QED
      BY <2>4, <3>1, <3>2, <3>3
  <2>6. SendsAddUp'
    <3>1. h2'.send + InFlight(c2s, "data", "strm") + InFlight(s2c', "window", "conn") = srv.conn
      <4>1. h2.send + InFlight(c2s, "data", "strm") + InFlight(s2c, "window", "conn") = srv.conn
        BY <1>7 DEF SendsAddUp
      <4> QED
        BY <1>1, <1>4, <2>2, <2>5, <4>1, Units, WideNumbers
    <3>2. strm'.send = strm.send /\ c2s' = c2s /\ srv' = srv /\ offset' = offset
          /\ h2'.initial = h2.initial
      BY <1>2, <1>3, <2>1, <2>2
    <3> QED
      BY <1>3, <1>7, <2>5, <3>1, <3>2 DEF SendsAddUp
  <2>7. GrantsHold' /\ BodyAddsUp'
    BY <1>2, <1>3, <1>5, <1>6, <2>1, <2>2, GrantsSame, BodySame DEF StreamInv
  <2> QED
    BY <1>2, <1>6, <2>1, <2>3, <2>6, <2>7, Handled
<1>9. CASE f.of = "strm"
  <2>1. h2' = h2 /\ strm' = [strm EXCEPT !.send = @ + f.n]
    BY <1>9 DEF HandleWindow
  <2>2. /\ strm'.send = strm.send + f.n /\ strm'.consumed = strm.consumed
        /\ strm'.body = strm.body /\ strm'.end = strm.end
    BY <1>1, <2>1 DEF Wide
  <2>3. Wide'
    <3>1. strm.send + f.n \in Int
      BY <1>1, <1>4, WideNumbers
    <3>2. strm' \in StreamRecords
      BY <1>1, <2>1, <3>1 DEF Wide, StreamRecords
    <3> QED
      BY <1>1, <1>3, <2>1, <3>2 DEF Wide
  <2>4. Weight(f, "window", "strm") = f.n /\ Weight(f, "window", "conn") = 0
    BY <1>2, <1>9 DEF Weight
  <2>5. /\ InFlight(s2c, "window", "strm") = f.n + InFlight(s2c', "window", "strm")
        /\ InFlight(s2c', "window", "conn") = InFlight(s2c, "window", "conn")
        /\ InFlight(s2c', "window", "strm") \in Nat
    <3>1. InFlight(s2c, "window", "strm")
            = Weight(f, "window", "strm") + InFlight(s2c', "window", "strm")
      BY <1>2, Taken
    <3>2. InFlight(s2c', "window", "conn") = InFlight(s2c, "window", "conn")
      BY <1>2, <2>4, UnitsStay
    <3>3. InFlight(s2c', "window", "strm") \in Nat
      BY <1>3, InFlightNat
    <3> QED
      BY <2>4, <3>1, <3>2, <3>3
  <2>6. SendsAddUp'
    <3>1. strm'.send + InFlight(c2s, "data", "strm") + InFlight(s2c', "window", "strm")
            + (srv.initial - h2.initial) = srv.strm
      <4>1. strm.send + InFlight(c2s, "data", "strm") + InFlight(s2c, "window", "strm")
              + (srv.initial - h2.initial) = srv.strm
        BY <1>3, <1>7 DEF SendsAddUp
      <4> QED
        BY <1>1, <1>4, <2>2, <2>5, <4>1, Units, WideNumbers
    <3>2. srv.oweStrm + InFlight(s2c', "window", "strm") + InFlight(c2s, "data", "strm") <= offset
      <4>1. srv.oweStrm + InFlight(s2c, "window", "strm") + InFlight(c2s, "data", "strm") <= offset
        BY <1>7 DEF SendsAddUp
      <4> QED
        BY <1>1, <1>4, <2>5, <4>1, Units, WideNumbers
    <3>3. h2' = h2 /\ c2s' = c2s /\ srv' = srv /\ offset' = offset
      BY <1>2, <1>3, <2>1
    <3> QED
      BY <1>3, <1>7, <2>5, <3>1, <3>2, <3>3 DEF SendsAddUp
  <2>7. GrantsHold' /\ BodyAddsUp'
    BY <1>2, <1>3, <1>5, <1>6, <2>1, <2>2, GrantsSame, BodySame DEF StreamInv
  <2> QED
    BY <1>2, <1>6, <2>2, <2>3, <2>6, <2>7, Handled
<1> QED
  BY <1>4, <1>8, <1>9

\* What the updates c of the connection and s of the stream add to a channel
\* (0 where there is none).
Gives(q, r, c, s) ==
  /\ r \in Seq(Frames)
  /\ InFlight(r, "data", "strm") = InFlight(q, "data", "strm")
  /\ InFlight(r, "window", "conn") = InFlight(q, "window", "conn") + c
  /\ InFlight(r, "window", "strm") = InFlight(q, "window", "strm") + s
  /\ \A k \in 0..3 : Led(q, k) => Led(r, k) /\ (Opens(r) <=> Opens(q))
  /\ (\A i \in 1..Len(q) : q[i].kind = "data" => q[i].of = "strm")
       => \A i \in 1..Len(r) : r[i].kind = "data" => r[i].of = "strm"

\* No update.
LEMMA GivesNone ==
  ASSUME NEW q \in Seq(Frames)
  PROVE  Gives(q, q, 0, 0)
<1>1. /\ InFlight(q, "window", "conn") \in Nat /\ InFlight(q, "window", "strm") \in Nat
  BY InFlightNat
<1> QED
  BY <1>1 DEF Gives

\* One update.
LEMMA GivesOne ==
  ASSUME NEW q \in Seq(Frames), NEW of \in {"conn", "strm"}, NEW n \in Nat
  PROVE  Gives(q, Append(q, Frame("window", of, n, FALSE)),
               IF of = "conn" THEN n ELSE 0, IF of = "strm" THEN n ELSE 0)
<1>1. PICK f : f = Frame("window", of, n, FALSE)
  OBVIOUS
<1>2. f \in Frames /\ f.kind = "window" /\ f.of = of /\ f.n = n
  BY <1>1 DEF Frame, Frames
<1>3. PICK r : r = Append(q, f)
  OBVIOUS
<1>4. r \in Seq(Frames)
  BY <1>2, <1>3
<1>5. \A k, o : InFlight(r, k, o) = InFlight(q, k, o) + Weight(f, k, o)
  BY <1>2, <1>3, InFlightAppend
<1>6. /\ Weight(f, "data", "strm") = 0
      /\ Weight(f, "window", "conn") = IF of = "conn" THEN n ELSE 0
      /\ Weight(f, "window", "strm") = IF of = "strm" THEN n ELSE 0
  BY <1>2 DEF Weight
<1>7. InFlight(q, "data", "strm") \in Nat
  BY InFlightNat
<1>8. InFlight(r, "data", "strm") = InFlight(q, "data", "strm")
  BY <1>5, <1>6, <1>7
<1>9. \A k \in 0..3 : Led(q, k) => Led(r, k) /\ (Opens(r) <=> Opens(q))
  BY <1>2, <1>3, LedAppend
<1>10. ASSUME \A i \in 1..Len(q) : q[i].kind = "data" => q[i].of = "strm"
       PROVE  \A i \in 1..Len(r) : r[i].kind = "data" => r[i].of = "strm"
  BY <1>2, <1>3, <1>10
<1> DEFINE c == IF of = "conn" THEN n ELSE 0
           s == IF of = "strm" THEN n ELSE 0
<1>11. /\ InFlight(r, "window", "conn") = InFlight(q, "window", "conn") + c
       /\ InFlight(r, "window", "strm") = InFlight(q, "window", "strm") + s
  BY <1>5, <1>6
<1> HIDE DEF c, s
<1>12. Gives(q, r, c, s)
  BY <1>4, <1>8, <1>9, <1>10, <1>11 DEF Gives
<1> QED
  BY <1>1, <1>3, <1>12 DEF c, s

\* One after the other.
LEMMA GivesBoth ==
  ASSUME NEW q \in Seq(Frames), NEW r, NEW t, NEW a \in Nat, NEW b \in Nat,
         Gives(q, r, a, 0), Gives(r, t, 0, b)
  PROVE  Gives(q, t, a, b)
<1>1. /\ InFlight(q, "window", "conn") \in Nat /\ InFlight(q, "window", "strm") \in Nat
  BY InFlightNat
<1> QED
  BY <1>1 DEF Gives

\* maybe_window_update gives back what it takes off its counters.
LEMMA UpdatesGive ==
  ASSUME NEW q \in Seq(Frames), NEW conn \in Nat, NEW s \in Nat, NEW end \in BOOLEAN,
         NEW up, up = Updates(conn, s, end)
  PROVE  /\ Gives(q, q \o up, IF conn >= Threshold THEN conn ELSE 0,
                  IF s >= Threshold /\ ~end THEN s ELSE 0)
         /\ (\E i \in DOMAIN up : up[i].of = "conn") <=> conn >= Threshold
         /\ (\E i \in DOMAIN up : up[i].of = "strm") <=> s >= Threshold /\ ~end
<1>0. Threshold \in Nat
  BY Numbers
<1>1. PICK a : a = Frame("window", "conn", conn, FALSE)
  OBVIOUS
<1>2. PICK b : b = Frame("window", "strm", s, FALSE)
  OBVIOUS
<1>3. a \in Frames /\ b \in Frames /\ a.of = "conn" /\ b.of = "strm"
  BY <1>1, <1>2 DEF Frame, Frames
<1>4. /\ Gives(q, Append(q, a), conn, 0)
      /\ \A r \in Seq(Frames) : Gives(r, Append(r, b), 0, s)
  <2>1. Gives(q, Append(q, a), IF "conn" = "conn" THEN conn ELSE 0, IF "conn" = "strm" THEN conn ELSE 0)
    BY <1>1, GivesOne
  <2>2. ASSUME NEW r \in Seq(Frames)
        PROVE  Gives(r, Append(r, b), IF "strm" = "conn" THEN s ELSE 0, IF "strm" = "strm" THEN s ELSE 0)
    BY <1>2, GivesOne
  <2> QED
    BY <2>1, <2>2
<1>5. CASE conn >= Threshold /\ (s >= Threshold /\ ~end)
  <2>1. up = <<a>> \o <<b>>
    BY <1>1, <1>2, <1>5 DEF Updates
  <2>2. q \o up = Append(Append(q, a), b) /\ DOMAIN up = 1..2 /\ up[1] = a /\ up[2] = b
    <3>1. <<a>> \in Seq(Frames) /\ <<b>> \in Seq(Frames) /\ Append(q, a) \in Seq(Frames)
      BY <1>3
    <3>2. Append(q, a) = q \o <<a>> /\ Append(Append(q, a), b) = Append(q, a) \o <<b>>
      BY <1>3, <3>1, AppendIsConcat
    <3>3. (q \o <<a>>) \o <<b>> = q \o (<<a>> \o <<b>>)
      BY <3>1, ConcatAssociative
    <3>4. DOMAIN up = 1..2 /\ up[1] = a /\ up[2] = b
      BY <2>1, <3>1
    <3> QED
      BY <2>1, <3>2, <3>3, <3>4
  <2>3. Append(q, a) \in Seq(Frames)
    BY <1>3
  <2>4. Gives(q, q \o up, conn, s)
    <3>1. PICK r \in Seq(Frames) : r = Append(q, a)
      BY <2>3
    <3>2. PICK t : t = Append(r, b)
      OBVIOUS
    <3>3. Gives(q, r, conn, 0) /\ Gives(r, t, 0, s)
      BY <1>4, <3>1, <3>2
    <3>4. Gives(q, t, conn, s)
      BY <3>3, GivesBoth
    <3> QED
      BY <2>2, <3>1, <3>2, <3>4
  <2>5. 1 \in DOMAIN up /\ 2 \in DOMAIN up /\ up[1].of = "conn" /\ up[2].of = "strm"
    BY <1>3, <2>2
  <2> QED
    BY <1>5, <2>4, <2>5
<1>6. CASE conn >= Threshold /\ ~(s >= Threshold /\ ~end)
  <2>1. up = <<a>> \o << >>
    BY <1>1, <1>6 DEF Updates
  <2>2. up = <<a>> /\ q \o up = Append(q, a)
    BY <1>3, <2>1
  <2>3. DOMAIN up = {1} /\ up[1].of = "conn"
    BY <1>3, <2>2
  <2> QED
    BY <1>4, <1>6, <2>2, <2>3
<1>7. CASE ~(conn >= Threshold) /\ (s >= Threshold /\ ~end)
  <2>1. up = << >> \o <<b>>
    BY <1>2, <1>7 DEF Updates
  <2>2. up = <<b>> /\ q \o up = Append(q, b)
    BY <1>3, <2>1
  <2>3. DOMAIN up = {1} /\ up[1].of = "strm"
    BY <1>3, <2>2
  <2> QED
    BY <1>4, <1>7, <2>2, <2>3
<1>8. CASE ~(conn >= Threshold) /\ ~(s >= Threshold /\ ~end)
  <2>1. up = << >> \o << >>
    BY <1>8 DEF Updates
  <2>2. up = << >>
    BY <2>1
  <2>3. q \o up = q /\ DOMAIN up = {}
    BY <2>2
  <2> QED
    BY <1>8, <2>3, GivesNone
<1> QED
  BY <1>5, <1>6, <1>7, <1>8

\* DATA: the units move from the channel to the body, and to what is to be
\* reported, or at once into an update.
LEMMA StreamData == ASSUME StreamInv, NEW f, HandleData(f) PROVE StreamInv'
<1>1. Wide /\ Plain
  BY TypeWide DEF StreamInv
<1>2. f.kind = "data" /\ Take(f)
  BY DEF HandleData
<1>3. /\ f \in Frames /\ UNCHANGED <<offset, buf, given>> /\ srv' = srv /\ f.of = "strm"
      /\ ~Undialed /\ ~Undialed' /\ s2c' \in Seq(Frames)
  BY <1>2, Taken
<1>4. f.n \in Nat /\ f.last \in BOOLEAN
  BY <1>3 DEF Frames
<1>5. PICK conn \in Nat : conn = h2.consumed + f.n
  BY <1>1, <1>4, WideNumbers
<1>6. PICK s \in Nat : s = strm.consumed + f.n
  BY <1>1, <1>4, WideNumbers
<1>7. PICK end \in BOOLEAN : end = (strm.end \/ f.last)
  OBVIOUS
<1>8. PICK up : up = Updates(conn, s, end)
  OBVIOUS
<1>9. /\ h2' = [h2 EXCEPT !.consumed = IF \E i \in DOMAIN up : up[i].of = "conn" THEN 0 ELSE conn]
      /\ strm' = [strm EXCEPT !.body = @ + f.n, !.end = end,
                    !.consumed = IF \E i \in DOMAIN up : up[i].of = "strm" THEN 0 ELSE s]
      /\ c2s' = c2s \o up
  BY <1>5, <1>6, <1>7, <1>8 DEF HandleData
<1>10. PICK uc, us : uc = (IF conn >= Threshold THEN conn ELSE 0)
                     /\ us = (IF s >= Threshold /\ ~end THEN s ELSE 0)
  OBVIOUS
<1>11. uc \in Nat /\ us \in Nat /\ conn - uc \in 0..Threshold - 1 /\ s - us \in Nat
  BY <1>10, Numbers
<1>t. /\ Gives(c2s, c2s \o up, IF conn >= Threshold THEN conn ELSE 0,
               IF s >= Threshold /\ ~end THEN s ELSE 0)
      /\ (\E i \in DOMAIN up : up[i].of = "conn") <=> conn >= Threshold
      /\ (\E i \in DOMAIN up : up[i].of = "strm") <=> s >= Threshold /\ ~end
  <2>1. c2s \in Seq(Frames)
    BY <1>1 DEF Plain
  <2> QED
    BY <1>8, <2>1, UpdatesGive
<1>12. Gives(c2s, c2s', uc, us)
  BY <1>9, <1>10, <1>t
<1>13. /\ h2' = [h2 EXCEPT !.consumed = conn - uc]
       /\ strm' = [strm EXCEPT !.body = @ + f.n, !.end = end, !.consumed = s - us]
  <2>2. /\ (\E i \in DOMAIN up : up[i].of = "conn") <=> conn >= Threshold
        /\ (\E i \in DOMAIN up : up[i].of = "strm") <=> s >= Threshold /\ ~end
    BY <1>t
  <2>3. (IF \E i \in DOMAIN up : up[i].of = "conn" THEN 0 ELSE conn) = conn - uc
    BY <1>10, <2>2
  <2>4. (IF \E i \in DOMAIN up : up[i].of = "strm" THEN 0 ELSE s) = s - us
    BY <1>10, <2>2
  <2> QED
    BY <1>9, <2>3, <2>4
<1>14. h2'.send = h2.send /\ h2'.consumed = conn - uc /\ h2'.initial = h2.initial
  BY <1>1, <1>13 DEF Wide
<1>15. /\ strm'.send = strm.send /\ strm'.consumed = s - us /\ strm'.body = strm.body + f.n
       /\ strm'.end = end
  BY <1>1, <1>13 DEF Wide
<1>16. Wide'
  <2>1. strm.body + f.n \in Nat
    BY <1>1, <1>4, WideNumbers
  <2>2. strm' \in StreamRecords
    BY <1>1, <1>11, <1>13, <2>1 DEF Wide, StreamRecords
  <2>3. h2' \in H2Records
    BY <1>1, <1>11, <1>13 DEF Wide, H2Records
  <2> QED
    BY <1>1, <1>3, <2>2, <2>3 DEF Wide
<1>17. /\ c2s' \in Seq(Frames)
       /\ InFlight(c2s', "data", "strm") = InFlight(c2s, "data", "strm")
       /\ InFlight(c2s', "window", "conn") = InFlight(c2s, "window", "conn") + uc
       /\ InFlight(c2s', "window", "strm") = InFlight(c2s, "window", "strm") + us
       /\ \A k \in 0..3 : Led(c2s, k) => Led(c2s', k) /\ (Opens(c2s') <=> Opens(c2s))
       /\ (\A i \in 1..Len(c2s) : c2s[i].kind = "data" => c2s[i].of = "strm")
            => \A i \in 1..Len(c2s') : c2s'[i].kind = "data" => c2s'[i].of = "strm"
  BY <1>12 DEF Gives
<1>18. \A i \in 1..Len(c2s') : c2s'[i].kind = "data" => c2s'[i].of = "strm"
  BY <1>17 DEF StreamInv, FramesFit
<1>19. GreetingFirst' /\ (Unset' <=> Unset)
  <2>1. \A k \in 0..3 : Led(c2s, k) => Led(c2s', k) /\ (Opens(c2s') <=> Opens(c2s))
    BY <1>17
  <2> QED
    BY <1>3, <2>1, GreetingStays DEF StreamInv
<1>20. /\ InFlight(s2c, "data", "strm") = f.n + InFlight(s2c', "data", "strm")
       /\ InFlight(s2c', "data", "strm") \in Nat
       /\ InFlight(s2c', "window", "conn") = InFlight(s2c, "window", "conn")
       /\ InFlight(s2c', "window", "strm") = InFlight(s2c, "window", "strm")
  <2>1. /\ Weight(f, "data", "strm") = f.n /\ Weight(f, "window", "conn") = 0
        /\ Weight(f, "window", "strm") = 0
    BY <1>2, <1>3 DEF Weight
  <2>2. InFlight(s2c, "data", "strm") = Weight(f, "data", "strm") + InFlight(s2c', "data", "strm")
    BY <1>2, Taken
  <2>3. /\ InFlight(s2c', "window", "conn") = InFlight(s2c, "window", "conn")
        /\ InFlight(s2c', "window", "strm") = InFlight(s2c, "window", "strm")
    BY <1>2, <2>1, UnitsStay
  <2>4. InFlight(s2c', "data", "strm") \in Nat
    BY <1>3, InFlightNat
  <2> QED
    BY <2>1, <2>2, <2>3, <2>4
<1>21. SendsAddUp'
  BY <1>3, <1>14, <1>15, <1>17, <1>20, SendsSame DEF StreamInv
<1>22. GrantsHold'
  <2>0. GrantsHold
    BY DEF StreamInv
  <2>1. PICK a : a = IF Unset THEN DefaultWindow ELSE OurWindow
    OBVIOUS
  <2>2. srv.outConn + InFlight(s2c', "data", "strm") + InFlight(c2s', "window", "conn")
          + h2'.consumed = OurWindow
    <3>1. srv.outConn + InFlight(s2c, "data", "strm") + InFlight(c2s, "window", "conn")
            + h2.consumed = OurWindow
      BY <1>3, <2>0 DEF GrantsHold
    <3>2. /\ InFlight(c2s', "window", "conn") = InFlight(c2s, "window", "conn") + uc
          /\ InFlight(s2c, "data", "strm") = f.n + InFlight(s2c', "data", "strm")
          /\ InFlight(s2c', "data", "strm") \in Nat
      BY <1>17, <1>20
    <3> QED
      BY <1>1, <1>4, <1>5, <1>11, <1>14, <3>1, <3>2, Units, WideNumbers
  <2>3. srv.outStrm + InFlight(s2c', "data", "strm") + InFlight(c2s', "window", "strm")
          + strm'.consumed = a
    <3>1. srv.outStrm + InFlight(s2c, "data", "strm") + InFlight(c2s, "window", "strm")
            + strm.consumed = a
      BY <2>0, <2>1 DEF GrantsHold
    <3>2. /\ InFlight(c2s', "window", "strm") = InFlight(c2s, "window", "strm") + us
          /\ InFlight(s2c, "data", "strm") = f.n + InFlight(s2c', "data", "strm")
          /\ InFlight(s2c', "data", "strm") \in Nat
      BY <1>17, <1>20
    <3> QED
      BY <1>1, <1>4, <1>6, <1>11, <1>15, <3>1, <3>2, Units, WideNumbers
  <2> QED
    BY <1>3, <1>19, <2>0, <2>1, <2>2, <2>3 DEF GrantsHold
<1>23. BodyAddsUp'
  <2>1. InFlight(s2c, "data", "strm") + strm.body + buf + given * MsgLen = srv.sent
    BY DEF StreamInv, BodyAddsUp
  <2>2. given * MsgLen \in Nat
    BY <1>1, WideNumbers, OneMore
  <2>3. InFlight(s2c', "data", "strm") + strm'.body + buf + given * MsgLen = srv.sent
    BY <1>1, <1>4, <1>15, <1>20, <2>1, <2>2, WideNumbers
  <2> QED
    BY <1>3, <2>3 DEF BodyAddsUp
<1> QED
  BY <1>2, <1>7, <1>15, <1>16, <1>17, <1>18, <1>19, <1>21, <1>22, <1>23, Handled

-----------------------------------------------------------------------------
(***************************************************************************)
(* The server.                                                             *)
(***************************************************************************)

\* A server that has the request has read the greeting.
LEMMA OpenIsSet ==
  ASSUME StreamInv, srv.open
  PROVE  ~Undialed /\ ~Unset
<1>1. ~Undialed
  BY DEF StreamInv, Begins
<1>2. PICK k \in 0..3 : Greeted(k) /\ (srv.open <=> k = 0)
  BY <1>1 DEF StreamInv, GreetingFirst
<1>3. Led(c2s, k) /\ k = 0 /\ c2s \in Seq(Frames)
  BY <1>2, TypeWide DEF StreamInv, Plain, Greeted, Led
<1>4. ~Opens(c2s)
  <2>1. CASE c2s = << >>
    BY <2>1 DEF Opens
  <2>2. CASE c2s # << >>
    BY <1>3, <2>2, LedTail
  <2> QED
    BY <2>1, <2>2
<1> QED
  BY <1>1, <1>4 DEF Unset, Opens

\* What sending a frame does.
LEMMA Sent ==
  ASSUME StreamInv, NEW f \in Frames, ServerSends(f)
  PROVE  /\ s2c' \in Seq(Frames) /\ s2c' = Append(s2c, f)
         /\ \A k, of : InFlight(s2c', k, of) = InFlight(s2c, k, of) + Weight(f, k, of)
         /\ h2' = h2 /\ strm' = strm /\ c2s' = c2s
         /\ pc' = pc /\ pc \notin {"done", "failed"} /\ cause' = cause
         /\ UNCHANGED <<request, offset, buf, given, torn, part, closed>>
         /\ (Undialed' <=> Undialed) /\ (Unset' <=> Unset)
<1>1. s2c \in Seq(Frames)
  BY TypeWide DEF StreamInv, Plain
<1>2. /\ h2' = h2 /\ strm' = strm /\ c2s' = c2s /\ s2c' = Append(s2c, f)
      /\ pc' = pc /\ pc \notin {"done", "failed"} /\ cause' = cause
      /\ UNCHANGED <<request, offset, buf, given, torn, part, closed>>
  BY DEF ServerSends, client, Dropped
<1>3. s2c' \in Seq(Frames)
  BY <1>1, <1>2
<1>4. \A k, of : InFlight(s2c', k, of) = InFlight(s2c, k, of) + Weight(f, k, of)
  BY <1>1, <1>2, InFlightAppend
<1>5. Undialed' <=> Undialed
  BY <1>2 DEF Undialed
<1>6. Unset' <=> Unset
  BY <1>2, <1>5 DEF Unset
<1> QED
  BY <1>2, <1>3, <1>4, <1>5, <1>6

\* A frame is sent: what is left to show.  After the end there is no data.
LEMMA Sending ==
  ASSUME StreamInv, NEW f \in Frames, ServerSends(f), Wide', SendsAddUp', GrantsHold',
         BodyAddsUp', srv'.open = srv.open, srv'.replied => srv.open,
         ~srv'.replied => srv'.sent = 0,
         srv.ended => srv'.ended /\ srv'.sent = srv.sent /\ f.kind # "data",
         f.last => srv'.ended /\ srv'.sent \in {0, Response},
         f.kind = "data" => f.of = "strm", f.kind = "settings" => f.n <= MaxWindow
  PROVE  StreamInv'
<1>1. Plain
  BY TypeWide DEF StreamInv
<1>2. /\ s2c' \in Seq(Frames) /\ s2c' = Append(s2c, f) /\ strm' = strm /\ c2s' = c2s
      /\ pc' = pc /\ pc \notin {"done", "failed"} /\ cause' = cause
      /\ UNCHANGED <<request, offset, buf, given, torn, part, closed>>
      /\ (Undialed' <=> Undialed)
  BY Sent
<1>3. Plain'
  BY <1>1, <1>2 DEF Plain
<1>4. Begins'
  BY <1>2 DEF StreamInv, Begins
<1>5. GreetingFirst'
  BY <1>2 DEF StreamInv, GreetingFirst, Greeted
<1>6. LiteTakesOne' /\ EndIsTheEnd'
  BY <1>2 DEF StreamInv, LiteTakesOne, EndIsTheEnd
<1>7. PICK n \in Nat : Len(s2c) = n /\ Len(s2c') = n + 1 /\ s2c'[n + 1] = f
                       /\ \A i \in 1..n : s2c'[i] = s2c[i]
  <2>1. s2c \in Seq(Frames)
    BY <1>1 DEF Plain
  <2>2. /\ Len(s2c) \in Nat /\ Len(s2c') = Len(s2c) + 1 /\ s2c'[Len(s2c) + 1] = f
        /\ \A i \in 1..Len(s2c) : s2c'[i] = s2c[i]
    BY <1>2, <2>1
  <2> QED
    BY <2>2
<1>8. \A i \in 1..n + 1 : i \in 1..n \/ i = n + 1
  OBVIOUS
<1>9. FramesFit'
  <2>1. \A i \in 1..n : /\ s2c[i].kind = "data" => s2c[i].of = "strm"
                        /\ s2c[i].kind = "settings" => s2c[i].n <= MaxWindow
    BY <1>7 DEF StreamInv, FramesFit
  <2>2. \A i \in 1..n + 1 : /\ s2c'[i].kind = "data" => s2c'[i].of = "strm"
                            /\ s2c'[i].kind = "settings" => s2c'[i].n <= MaxWindow
    BY <1>7, <1>8, <2>1
  <2> QED
    BY <1>2, <1>7, <2>2 DEF StreamInv, FramesFit
<1>10. EndsLast'
  <2>1. /\ \A i \in 1..n : s2c[i].last =>
             /\ srv.ended /\ srv.sent \in {0, Response}
             /\ \A j \in i + 1..n : s2c[j].kind # "data"
        /\ strm.end =>
             /\ srv.ended /\ srv.sent \in {0, Response}
             /\ \A j \in 1..n : s2c[j].kind # "data"
    BY <1>7 DEF StreamInv, EndsLast
  <2>2. ASSUME NEW i \in 1..n + 1, s2c'[i].last
        PROVE  /\ srv'.ended /\ srv'.sent \in {0, Response}
               /\ \A j \in i + 1..n + 1 : s2c'[j].kind # "data"
    <3>1. CASE i = n + 1
      <4>1. i + 1..n + 1 = {}
        BY <3>1
      <4> QED
        BY <1>7, <2>2, <3>1, <4>1
    <3>2. CASE i \in 1..n
      <4>1. /\ srv.ended /\ srv.sent \in {0, Response}
            /\ \A j \in i + 1..n : s2c[j].kind # "data"
        BY <1>7, <2>1, <2>2, <3>2
      <4>2. ASSUME NEW j \in i + 1..n + 1 PROVE s2c'[j].kind # "data"
        <5>1. j = n + 1 \/ (j \in i + 1..n /\ j \in 1..n)
          BY <3>2
        <5> QED
          BY <1>7, <4>1, <5>1
      <4> QED
        BY <4>1, <4>2
    <3> QED
      BY <1>8, <3>1, <3>2
  <2>3. ASSUME strm.end
        PROVE  /\ srv'.ended /\ srv'.sent \in {0, Response}
               /\ \A j \in 1..n + 1 : s2c'[j].kind # "data"
    BY <1>7, <1>8, <2>1, <2>3
  <2> QED
    BY <1>2, <1>7, <2>2, <2>3 DEF EndsLast
<1> QED
  BY <1>3, <1>4, <1>5, <1>6, <1>9, <1>10, Kept

\* A frame of the server has no units, and the numbers stay.
LEMMA SendingNoUnits ==
  ASSUME StreamInv, NEW f \in Frames, ServerSends(f), f.kind \notin {"data", "window"},
         srv'.outConn = srv.outConn, srv'.outStrm = srv.outStrm, srv'.sent = srv.sent
  PROVE  /\ GrantsHold' /\ BodyAddsUp'
         /\ InFlight(s2c', "window", "conn") = InFlight(s2c, "window", "conn")
         /\ InFlight(s2c', "window", "strm") = InFlight(s2c, "window", "strm")
<1>1. /\ \A k, of : InFlight(s2c', k, of) = InFlight(s2c, k, of) + Weight(f, k, of)
      /\ h2' = h2 /\ strm' = strm /\ c2s' = c2s /\ buf' = buf /\ given' = given
      /\ (Undialed' <=> Undialed) /\ (Unset' <=> Unset)
  BY Sent
<1>2. /\ Weight(f, "data", "strm") = 0 /\ Weight(f, "window", "conn") = 0
      /\ Weight(f, "window", "strm") = 0
  BY DEF Weight
<1>3. Plain
  BY TypeWide DEF StreamInv
<1>4. /\ InFlight(s2c', "data", "strm") = InFlight(s2c, "data", "strm")
      /\ InFlight(s2c', "window", "conn") = InFlight(s2c, "window", "conn")
      /\ InFlight(s2c', "window", "strm") = InFlight(s2c, "window", "strm")
  BY <1>1, <1>2, <1>3, Units
<1>5. GrantsHold'
  BY <1>1, <1>4 DEF StreamInv, GrantsHold
<1>6. BodyAddsUp'
  BY <1>1, <1>4 DEF StreamInv, BodyAddsUp
<1> QED
  BY <1>4, <1>5, <1>6

\* A frame of the server leaves what the client may send.
LEMMA SendingSends ==
  ASSUME StreamInv, NEW f \in Frames, ServerSends(f),
         srv'.conn = srv.conn, srv'.strm = srv.strm, srv'.initial = srv.initial,
         srv'.got = srv.got, srv'.oweConn = srv.oweConn, srv'.oweStrm = srv.oweStrm,
         InFlight(s2c', "window", "conn") = InFlight(s2c, "window", "conn"),
         InFlight(s2c', "window", "strm") = InFlight(s2c, "window", "strm")
  PROVE  SendsAddUp'
<1>1. h2' = h2 /\ strm' = strm /\ c2s' = c2s /\ offset' = offset /\ (Undialed' <=> Undialed)
  BY Sent
<1> QED
  BY <1>1 DEF StreamInv, SendsAddUp

\* SETTINGS of the server, the first or a later one.
LEMMA StreamServerSettings ==
  ASSUME StreamInv, NEW w \in Windows, ServerSettings(w) PROVE StreamInv'
<1>1. Wide /\ Plain
  BY TypeWide DEF StreamInv
<1>2. w \in 0..MaxWindow /\ w \in Nat
  BY Numbers
<1>3. PICK f \in Frames : /\ f = Frame("settings", "conn", w, FALSE) /\ f.kind = "settings"
                          /\ f.n = w /\ ~f.last
  <2>1. PICK f : f = Frame("settings", "conn", w, FALSE)
    OBVIOUS
  <2>2. f \in Frames /\ f.kind = "settings" /\ f.n = w /\ ~f.last
    BY <1>2, <2>1 DEF Frame, Frames
  <2> QED
    BY <2>1, <2>2
<1>4. /\ ServerSends(f) /\ srv.settings < MaxSettings
      /\ srv' = [srv EXCEPT !.settings = @ + 1, !.initial = w, !.strm = @ + w - srv.initial]
  BY <1>3 DEF ServerSettings
<1>5. /\ srv'.initial = w /\ srv'.strm = srv.strm + w - srv.initial
      /\ srv'.conn = srv.conn /\ srv'.got = srv.got
      /\ srv'.oweConn = srv.oweConn /\ srv'.oweStrm = srv.oweStrm
      /\ srv'.outConn = srv.outConn /\ srv'.outStrm = srv.outStrm /\ srv'.sent = srv.sent
      /\ srv'.open = srv.open /\ srv'.replied = srv.replied /\ srv'.ended = srv.ended
  BY <1>1, <1>4 DEF Wide
<1>6. Wide'
  <2>1. srv.strm + w - srv.initial \in Int /\ srv.settings + 1 \in 0..MaxSettings
    BY <1>1, <1>2, <1>4, WideNumbers, WideFields, Numbers
  <2>2. srv' \in ServerRecords
    BY <1>1, <1>2, <1>4, <2>1 DEF Wide, ServerRecords
  <2>3. h2' = h2 /\ strm' = strm /\ offset' = offset /\ buf' = buf /\ given' = given
    BY <1>4, Sent
  <2> QED
    BY <1>1, <2>2, <2>3 DEF Wide
<1>7. /\ GrantsHold' /\ BodyAddsUp'
      /\ InFlight(s2c', "window", "conn") = InFlight(s2c, "window", "conn")
      /\ InFlight(s2c', "window", "strm") = InFlight(s2c, "window", "strm")
  BY <1>3, <1>4, <1>5, SendingNoUnits
<1>8. SendsAddUp'
  <2>0. SendsAddUp
    BY DEF StreamInv
  <2>1. h2' = h2 /\ strm' = strm /\ c2s' = c2s /\ offset' = offset /\ (Undialed' <=> Undialed)
    BY <1>4, Sent
  <2>2. PICK x : x = IF Undialed THEN h2.initial ELSE strm.send
    OBVIOUS
  <2>3. x \in Int
    BY <1>1, <2>2, WideNumbers
  <2>4. x + InFlight(c2s, "data", "strm") + InFlight(s2c, "window", "strm")
          + (srv'.initial - h2.initial) = srv'.strm
    <3>1. x + InFlight(c2s, "data", "strm") + InFlight(s2c, "window", "strm")
            + (srv.initial - h2.initial) = srv.strm
      BY <2>0, <2>2 DEF SendsAddUp
    <3>2. srv'.initial = w /\ srv'.strm = srv.strm + w - srv.initial
      BY <1>5
    <3> QED
      BY <1>1, <1>2, <2>3, <3>1, <3>2, Units, WideNumbers
  <2>5. srv'.strm + srv'.oweStrm = srv'.initial
    <3>1. srv.strm + srv.oweStrm = srv.initial
      BY <2>0 DEF SendsAddUp
    <3> QED
      BY <1>1, <1>2, <1>5, <3>1, WideNumbers
  <2> QED
    BY <1>5, <1>7, <2>0, <2>1, <2>2, <2>4, <2>5 DEF SendsAddUp
<1>9. (srv.replied => srv.open) /\ (~srv.replied => srv.sent = 0)
  BY DEF StreamInv, Begins
<1>10. f.n <= MaxWindow
  <2>1. w <= MaxWindow
    BY <1>2, Numbers
  <2> QED
    BY <1>3, <2>1
<1> QED
  BY <1>3, <1>4, <1>5, <1>6, <1>7, <1>8, <1>9, <1>10, Sending

\* WINDOW_UPDATE of the server: what it owes moves into its window and into
\* the channel.
LEMMA StreamServerWindow ==
  ASSUME StreamInv, NEW of \in {"conn", "strm"}, ServerWindow(of) PROVE StreamInv'
<1>1. Wide /\ Plain
  BY TypeWide DEF StreamInv
<1>2. PICK n \in Nat : n = IF of = "conn" THEN srv.oweConn ELSE srv.oweStrm
  BY <1>1, WideNumbers
<1>3. PICK f \in Frames : /\ f = Frame("window", of, n, FALSE) /\ f.kind = "window"
                          /\ f.of = of /\ f.n = n /\ ~f.last
  <2>1. PICK f : f = Frame("window", of, n, FALSE)
    OBVIOUS
  <2>2. f \in Frames /\ f.kind = "window" /\ f.of = of /\ f.n = n /\ ~f.last
    BY <1>2, <2>1 DEF Frame, Frames
  <2> QED
    BY <2>1, <2>2
<1>4. /\ ServerSends(f)
      /\ srv' = IF of = "conn" THEN [srv EXCEPT !.conn = @ + n, !.oweConn = 0]
                               ELSE [srv EXCEPT !.strm = @ + n, !.oweStrm = 0]
  BY <1>2, <1>3 DEF ServerWindow
<1>5. /\ \A k, o : InFlight(s2c', k, o) = InFlight(s2c, k, o) + Weight(f, k, o)
      /\ h2' = h2 /\ strm' = strm /\ c2s' = c2s /\ UNCHANGED <<offset, buf, given>>
      /\ (Undialed' <=> Undialed) /\ (Unset' <=> Unset)
  BY <1>4, Sent
<1>6. /\ srv'.initial = srv.initial /\ srv'.got = srv.got
      /\ srv'.outConn = srv.outConn /\ srv'.outStrm = srv.outStrm /\ srv'.sent = srv.sent
      /\ srv'.open = srv.open /\ srv'.replied = srv.replied /\ srv'.ended = srv.ended
  <2>1. CASE of = "conn"
    BY <1>1, <1>4, <2>1 DEF Wide
  <2>2. CASE of # "conn"
    BY <1>1, <1>4, <2>2 DEF Wide
  <2> QED
    BY <2>1, <2>2
<1>7. Wide'
  <2>1. srv.conn + n \in Int /\ srv.strm + n \in Int
    BY <1>1, WideNumbers
  <2>2. srv' \in ServerRecords
    <3>1. CASE of = "conn"
      BY <1>1, <1>4, <2>1, <3>1 DEF Wide, ServerRecords
    <3>2. CASE of # "conn"
      BY <1>1, <1>4, <2>1, <3>2 DEF Wide, ServerRecords
    <3> QED
      BY <3>1, <3>2
  <2> QED
    BY <1>1, <1>5, <2>2 DEF Wide
<1>8. InFlight(s2c', "data", "strm") = InFlight(s2c, "data", "strm")
  <2>1. Weight(f, "data", "strm") = 0
    BY <1>3 DEF Weight
  <2>2. InFlight(s2c', "data", "strm") = InFlight(s2c, "data", "strm") + Weight(f, "data", "strm")
    BY <1>5
  <2> QED
    BY <1>1, <2>1, <2>2, Units
<1>9. GrantsHold'
  BY <1>5, <1>6, <1>8 DEF StreamInv, GrantsHold
<1>10. BodyAddsUp'
  BY <1>5, <1>6, <1>8 DEF StreamInv, BodyAddsUp
<1>11. SendsAddUp'
  <2>0. SendsAddUp
    BY DEF StreamInv
  <2>1. PICK x : x = IF Undialed THEN h2.initial ELSE strm.send
    OBVIOUS
  <2>2. x \in Int
    BY <1>1, <2>1, WideNumbers
  <2>3. /\ InFlight(s2c', "window", "conn")
             = InFlight(s2c, "window", "conn") + Weight(f, "window", "conn")
        /\ InFlight(s2c', "window", "strm")
             = InFlight(s2c, "window", "strm") + Weight(f, "window", "strm")
    BY <1>5
  <2>4. x + InFlight(c2s, "data", "strm") + InFlight(s2c, "window", "strm")
          + (srv.initial - h2.initial) = srv.strm
    BY <2>0, <2>1 DEF SendsAddUp
  <2>5. CASE of = "conn"
    <3>1. Weight(f, "window", "conn") = n /\ Weight(f, "window", "strm") = 0 /\ n = srv.oweConn
      BY <1>2, <1>3, <2>5 DEF Weight
    <3>2. /\ srv'.conn = srv.conn + n /\ srv'.oweConn = 0 /\ srv'.strm = srv.strm
          /\ srv'.oweStrm = srv.oweStrm
      BY <1>1, <1>4, <2>5 DEF Wide
    <3>3. InFlight(s2c', "window", "strm") = InFlight(s2c, "window", "strm")
      BY <1>1, <2>3, <3>1, Units
    <3>4. h2.send + InFlight(c2s, "data", "strm") + InFlight(s2c', "window", "conn") = srv'.conn
      <4>1. h2.send + InFlight(c2s, "data", "strm") + InFlight(s2c, "window", "conn") = srv.conn
        BY <2>0 DEF SendsAddUp
      <4> QED
        BY <1>1, <2>3, <3>1, <3>2, <4>1, Units, WideNumbers
    <3>5. srv'.conn + srv'.oweConn = DefaultWindow
      <4>1. srv.conn + srv.oweConn = DefaultWindow
        BY <2>0 DEF SendsAddUp
      <4> QED
        BY <1>1, <3>1, <3>2, <4>1, WideNumbers
    <3> QED
      BY <1>5, <1>6, <2>0, <3>2, <3>3, <3>4, <3>5 DEF SendsAddUp
  <2>6. CASE of = "strm"
    <3>1. Weight(f, "window", "strm") = n /\ Weight(f, "window", "conn") = 0 /\ n = srv.oweStrm
      BY <1>2, <1>3, <2>6 DEF Weight
    <3>2. /\ srv'.strm = srv.strm + n /\ srv'.oweStrm = 0 /\ srv'.conn = srv.conn
          /\ srv'.oweConn = srv.oweConn
      BY <1>1, <1>4, <2>6 DEF Wide
    <3>3. InFlight(s2c', "window", "conn") = InFlight(s2c, "window", "conn")
      BY <1>1, <2>3, <3>1, Units
    <3>4. x + InFlight(c2s, "data", "strm") + InFlight(s2c', "window", "strm")
            + (srv.initial - h2.initial) = srv'.strm
      BY <1>1, <2>2, <2>3, <2>4, <3>1, <3>2, Units, WideNumbers
    <3>5. srv'.strm + srv'.oweStrm = srv.initial
      <4>1. srv.strm + srv.oweStrm = srv.initial
        BY <2>0 DEF SendsAddUp
      <4> QED
        BY <1>1, <3>1, <3>2, <4>1, WideNumbers
    <3>6. srv'.oweStrm + InFlight(s2c', "window", "strm") + InFlight(c2s, "data", "strm") <= offset
      <4>1. srv.oweStrm + InFlight(s2c, "window", "strm") + InFlight(c2s, "data", "strm") <= offset
        BY <2>0 DEF SendsAddUp
      <4> QED
        BY <1>1, <2>3, <3>1, <3>2, <4>1, Units, WideNumbers
    <3> QED
      BY <1>5, <1>6, <2>0, <2>1, <3>2, <3>3, <3>4, <3>5, <3>6 DEF SendsAddUp
  <2> QED
    BY <2>5, <2>6
<1>12. (srv.replied => srv.open) /\ (~srv.replied => srv.sent = 0)
  BY DEF StreamInv, Begins
<1> QED
  BY <1>3, <1>4, <1>6, <1>7, <1>9, <1>10, <1>11, <1>12, Sending

\* The answer.
LEMMA StreamServerReplies ==
  ASSUME StreamInv, NEW empty \in BOOLEAN, ServerReplies(empty) PROVE StreamInv'
<1>1. Wide /\ Plain
  BY TypeWide DEF StreamInv
<1>2. PICK f \in Frames : f = Frame("headers", "strm", 0, empty) /\ f.kind = "headers" /\ f.last = empty
  <2>1. PICK f : f = Frame("headers", "strm", 0, empty)
    OBVIOUS
  <2>2. f \in Frames /\ f.kind = "headers" /\ f.last = empty
    BY <2>1 DEF Frame, Frames
  <2> QED
    BY <2>1, <2>2
<1>3. /\ ServerSends(f) /\ srv.open /\ ~srv.replied /\ ~srv.ended
      /\ srv' = [srv EXCEPT !.replied = TRUE, !.ended = empty]
  BY <1>2 DEF ServerReplies
<1>4. /\ srv'.initial = srv.initial /\ srv'.strm = srv.strm /\ srv'.conn = srv.conn
      /\ srv'.got = srv.got /\ srv'.oweConn = srv.oweConn /\ srv'.oweStrm = srv.oweStrm
      /\ srv'.outConn = srv.outConn /\ srv'.outStrm = srv.outStrm /\ srv'.sent = srv.sent
      /\ srv'.open = srv.open /\ srv'.replied = TRUE /\ srv'.ended = empty
  BY <1>1, <1>3 DEF Wide, ServerRecords
<1>5. Wide'
  <2>1. srv' \in ServerRecords
    BY <1>1, <1>3 DEF Wide, ServerRecords
  <2>2. h2' = h2 /\ strm' = strm /\ offset' = offset /\ buf' = buf /\ given' = given
    BY <1>3, Sent
  <2> QED
    BY <1>1, <2>1, <2>2 DEF Wide
<1>6. /\ GrantsHold' /\ BodyAddsUp'
      /\ InFlight(s2c', "window", "conn") = InFlight(s2c, "window", "conn")
      /\ InFlight(s2c', "window", "strm") = InFlight(s2c, "window", "strm")
  BY <1>2, <1>3, <1>4, SendingNoUnits
<1>7. SendsAddUp'
  BY <1>3, <1>4, <1>6, SendingSends
<1>8. srv'.sent = 0
  BY <1>3, <1>4 DEF StreamInv, Begins
<1> QED
  BY <1>2, <1>3, <1>4, <1>5, <1>6, <1>7, <1>8, Sending

\* A refusal, an informational answer, a reset, a shutdown, a ping.
LEMMA StreamServerExtra ==
  ASSUME StreamInv, NEW k \in Extras, ServerExtra(k)
  PROVE  StreamInv'
<1>1. Wide /\ Plain
  BY TypeWide DEF StreamInv
<1>2. PICK of \in {"conn", "strm"}, last \in BOOLEAN :
        of = (IF k = "ping" THEN "conn" ELSE "strm") /\ last = (k = "error")
  <2>1. (k = "error") \in BOOLEAN /\ (IF k = "ping" THEN "conn" ELSE "strm") \in {"conn", "strm"}
    OBVIOUS
  <2> QED
    BY <2>1
<1>3. PICK f \in Frames : f = Frame(k, of, 0, last) /\ f.kind = k /\ f.last = last
  <2>1. PICK f : f = Frame(k, of, 0, last)
    OBVIOUS
  <2>2. f \in Frames /\ f.kind = k /\ f.last = last
    BY <2>1 DEF Frame, Frames, Extras
  <2> QED
    BY <2>1, <2>2
<1>4. /\ ServerSends(f) /\ srv.extras < MaxExtras /\ (k = "ping" \/ (srv.open /\ ~srv.ended))
      /\ k \in {"error", "info"} => ~srv.replied
      /\ srv' = [srv EXCEPT !.extras = @ + 1, !.said = @ \cup {k},
                            !.replied = @ \/ k = "error",
                            !.ended = @ \/ k \in {"error", "rst"}]
  BY <1>2, <1>3 DEF ServerExtra
<1>5. PICK r \in BOOLEAN, e \in BOOLEAN :
        r = (srv.replied \/ k = "error") /\ e = (srv.ended \/ k \in {"error", "rst"})
  OBVIOUS
<1>6. srv' = [srv EXCEPT !.extras = @ + 1, !.said = @ \cup {k}, !.replied = r, !.ended = e]
  BY <1>4, <1>5
<1>7. /\ srv'.initial = srv.initial /\ srv'.strm = srv.strm /\ srv'.conn = srv.conn
      /\ srv'.got = srv.got /\ srv'.oweConn = srv.oweConn /\ srv'.oweStrm = srv.oweStrm
      /\ srv'.outConn = srv.outConn /\ srv'.outStrm = srv.outStrm /\ srv'.sent = srv.sent
      /\ srv'.open = srv.open /\ srv'.replied = r /\ srv'.ended = e
  BY <1>1, <1>6 DEF Wide
<1>8. Wide'
  <2>1. srv.extras + 1 \in 0..MaxExtras
    BY <1>1, <1>4, WideFields, Numbers
  <2>2. srv' \in ServerRecords
    BY <1>1, <1>6, <2>1 DEF Wide, ServerRecords
  <2>3. h2' = h2 /\ strm' = strm /\ offset' = offset /\ buf' = buf /\ given' = given
    BY <1>4, Sent
  <2> QED
    BY <1>1, <2>2, <2>3 DEF Wide
<1>9. /\ GrantsHold' /\ BodyAddsUp'
      /\ InFlight(s2c', "window", "conn") = InFlight(s2c, "window", "conn")
      /\ InFlight(s2c', "window", "strm") = InFlight(s2c, "window", "strm")
  BY <1>3, <1>4, <1>7, SendingNoUnits DEF Extras
<1>10. SendsAddUp'
  BY <1>4, <1>7, <1>9, SendingSends
<1>11. (srv.replied => srv.open) /\ (~srv.replied => srv.sent = 0)
  BY DEF StreamInv, Begins
<1>12. /\ srv'.replied => srv.open
       /\ ~srv'.replied => srv'.sent = 0
       /\ srv.ended => srv'.ended /\ srv'.sent = srv.sent /\ f.kind # "data"
       /\ f.last => srv'.ended /\ srv'.sent \in {0, Response}
  <2>1. f.last => k = "error" /\ ~srv.replied
    BY <1>2, <1>3, <1>4
  <2> QED
    BY <1>3, <1>4, <1>5, <1>7, <1>11, <2>1 DEF Extras
<1> QED
  BY <1>3, <1>4, <1>7, <1>8, <1>9, <1>10, <1>12, Sending DEF Extras

\* The least of four numbers.
LEMMA MinOfFour ==
  ASSUME NEW a \in Int, NEW b \in Int, NEW c \in Int, NEW d \in Int, NEW n \in Int,
         n <= Min({a, b, c, d})
  PROVE  n <= a /\ n <= b /\ n <= c
<1>1. \E x \in {a, b, c, d} : \A y \in {a, b, c, d} : x <= y
  <2>1. PICK x \in {a, b} : x <= a /\ x <= b
    OBVIOUS
  <2>2. PICK y \in {c, d} : y <= c /\ y <= d
    OBVIOUS
  <2>3. CASE x <= y
    BY <2>1, <2>2, <2>3
  <2>4. CASE y <= x
    BY <2>1, <2>2, <2>4
  <2> QED
    BY <2>1, <2>2, <2>3, <2>4
<1>2. PICK m \in {a, b, c, d} : m = Min({a, b, c, d}) /\ \A y \in {a, b, c, d} : m <= y
  BY <1>1 DEF Min
<1> QED
  BY <1>2

\* DATA of the server: the units move from both of its windows into the
\* channel.
LEMMA StreamServerData ==
  ASSUME StreamInv, NEW n \in 0..MaxFrame, ServerData(n) PROVE StreamInv'
<1>1. Wide /\ Plain
  BY TypeWide DEF StreamInv
<1>2. PICK rest \in Int : rest = Response - srv.sent
  BY <1>1, WideNumbers, Numbers
<1>3. PICK last \in BOOLEAN : last = (n = rest)
  OBVIOUS
<1>4. n \in Nat
  BY Numbers
<1>5. PICK f \in Frames : /\ f = Frame("data", "strm", n, last) /\ f.kind = "data"
                          /\ f.of = "strm" /\ f.n = n /\ f.last = last
  <2>1. PICK f : f = Frame("data", "strm", n, last)
    OBVIOUS
  <2>2. f \in Frames /\ f.kind = "data" /\ f.of = "strm" /\ f.n = n /\ f.last = last
    BY <1>4, <2>1 DEF Frame, Frames
  <2> QED
    BY <2>1, <2>2
<1>6. /\ ServerSends(f) /\ srv.replied /\ ~srv.ended
      /\ n <= Min({srv.outConn, srv.outStrm, rest, MaxFrame})
      /\ srv' = [srv EXCEPT !.sent = @ + n, !.outConn = @ - n, !.outStrm = @ - n, !.ended = last]
  BY <1>2, <1>3, <1>5 DEF ServerData
<1>7. n <= srv.outConn /\ n <= srv.outStrm /\ n <= rest
  <2>1. srv.outConn \in Int /\ srv.outStrm \in Int /\ MaxFrame \in Int /\ n \in Int
    BY <1>1, <1>4, WideNumbers, Numbers
  <2> QED
    BY <1>2, <1>6, <2>1, MinOfFour
<1>8. /\ \A k, of : InFlight(s2c', k, of) = InFlight(s2c, k, of) + Weight(f, k, of)
      /\ h2' = h2 /\ strm' = strm /\ c2s' = c2s /\ UNCHANGED <<offset, buf, given>>
      /\ (Undialed' <=> Undialed) /\ (Unset' <=> Unset)
  BY <1>6, Sent
<1>9. /\ srv'.initial = srv.initial /\ srv'.strm = srv.strm /\ srv'.conn = srv.conn
      /\ srv'.got = srv.got /\ srv'.oweConn = srv.oweConn /\ srv'.oweStrm = srv.oweStrm
      /\ srv'.outConn = srv.outConn - n /\ srv'.outStrm = srv.outStrm - n
      /\ srv'.sent = srv.sent + n
      /\ srv'.open = srv.open /\ srv'.replied = srv.replied /\ srv'.ended = last
  BY <1>1, <1>6 DEF Wide, ServerRecords
<1>10. srv.sent + n \in 0..Response /\ (last => srv.sent + n = Response)
  <2>1. srv.sent \in Nat /\ Response \in Nat /\ n <= rest
    BY <1>1, <1>7, WideNumbers, Numbers
  <2>2. rest = Response - srv.sent
    BY <1>2
  <2>3. last => n = rest
    BY <1>3
  <2>4. srv.sent + n \in 0..Response
    BY <1>4, <2>1, <2>2
  <2>5. n = rest => srv.sent + n = Response
    BY <1>4, <2>1, <2>2
  <2> QED
    BY <2>3, <2>4, <2>5
<1>11. Wide'
  <2>1. srv.outConn - n \in Nat /\ srv.outStrm - n \in Nat
    BY <1>1, <1>4, <1>7, WideNumbers
  <2>2. srv' \in ServerRecords
    BY <1>1, <1>6, <1>10, <2>1 DEF Wide, ServerRecords
  <2> QED
    BY <1>1, <1>8, <2>2 DEF Wide
<1>12. /\ Weight(f, "data", "strm") = n /\ Weight(f, "window", "conn") = 0
       /\ Weight(f, "window", "strm") = 0
  BY <1>5 DEF Weight
<1>13. /\ InFlight(s2c', "data", "strm") = InFlight(s2c, "data", "strm") + n
       /\ InFlight(s2c', "window", "conn") = InFlight(s2c, "window", "conn")
       /\ InFlight(s2c', "window", "strm") = InFlight(s2c, "window", "strm")
  BY <1>1, <1>8, <1>12, Units
<1>14. SendsAddUp'
  BY <1>6, <1>9, <1>13, SendingSends
<1>15. (srv.replied => srv.open) /\ ~Undialed /\ ~Unset
  <2>1. srv.replied => srv.open
    BY DEF StreamInv, Begins
  <2> QED
    BY <1>6, <2>1, OpenIsSet
<1>16. GrantsHold'
  <2>0. GrantsHold
    BY DEF StreamInv
  <2>1. srv'.outConn + InFlight(s2c', "data", "strm") + InFlight(c2s, "window", "conn")
          + h2.consumed = OurWindow
    <3>1. srv.outConn + InFlight(s2c, "data", "strm") + InFlight(c2s, "window", "conn")
            + h2.consumed = OurWindow
      BY <1>15, <2>0 DEF GrantsHold
    <3>2. /\ srv'.outConn = srv.outConn - n
          /\ InFlight(s2c', "data", "strm") = InFlight(s2c, "data", "strm") + n
      BY <1>9, <1>13
    <3> QED
      BY <1>1, <1>4, <3>1, <3>2, Units, WideNumbers
  <2>2. srv'.outStrm + InFlight(s2c', "data", "strm") + InFlight(c2s, "window", "strm")
          + strm.consumed = OurWindow
    <3>1. srv.outStrm + InFlight(s2c, "data", "strm") + InFlight(c2s, "window", "strm")
            + strm.consumed = OurWindow
      BY <1>15, <2>0 DEF GrantsHold
    <3>2. /\ srv'.outStrm = srv.outStrm - n
          /\ InFlight(s2c', "data", "strm") = InFlight(s2c, "data", "strm") + n
      BY <1>9, <1>13
    <3> QED
      BY <1>1, <1>4, <3>1, <3>2, Units, WideNumbers
  <2> QED
    BY <1>8, <1>15, <2>1, <2>2 DEF GrantsHold
<1>17. BodyAddsUp'
  <2>1. InFlight(s2c, "data", "strm") + strm.body + buf + given * MsgLen = srv.sent
    BY DEF StreamInv, BodyAddsUp
  <2>2. given * MsgLen \in Nat
    BY <1>1, WideNumbers, OneMore
  <2>3. /\ srv'.sent = srv.sent + n
        /\ InFlight(s2c', "data", "strm") = InFlight(s2c, "data", "strm") + n
    BY <1>9, <1>13
  <2>4. InFlight(s2c', "data", "strm") + strm.body + buf + given * MsgLen = srv'.sent
    BY <1>1, <1>4, <2>1, <2>2, <2>3, Units, WideNumbers
  <2> QED
    BY <1>8, <2>4 DEF BodyAddsUp
<1>18. f.last => srv'.ended /\ srv'.sent \in {0, Response}
  BY <1>5, <1>9, <1>10
<1> QED
  BY <1>5, <1>6, <1>9, <1>11, <1>14, <1>15, <1>16, <1>17, <1>18, Sending

\* The server reads a frame: what is left to show.
LEMMA Reading ==
  ASSUME StreamInv, ServerReads, NEW k \in 0..3, Wide', SendsAddUp', GrantsHold',
         Led(c2s', k), srv'.open <=> k = 0, srv.open => srv'.open,
         srv'.replied = srv.replied, srv'.sent = srv.sent, srv'.ended = srv.ended
  PROVE  StreamInv'
<1>1. Plain
  BY TypeWide DEF StreamInv
<1>2. /\ UNCHANGED client /\ s2c' = s2c /\ part' = part /\ closed' = closed /\ c2s # << >>
      /\ c2s' = Tail(c2s) /\ c2s \in Seq(Frames) /\ ~Dropped
  BY <1>1 DEF ServerReads, Plain
<1>3. /\ pc' = pc /\ cause' = cause /\ request' = request /\ strm' = strm /\ given' = given
      /\ buf' = buf /\ torn' = torn
  BY <1>2 DEF client
<1>4. ~Undialed /\ ~Undialed'
  BY <1>2, <1>3 DEF StreamInv, Begins, Undialed
<1>5. Plain'
  <2>1. c2s' \in Seq(Frames)
    BY <1>2
  <2> QED
    BY <1>1, <1>2, <1>3, <2>1 DEF Plain
<1>6. Begins'
  <2>1. (srv.replied => srv.open) /\ (~srv.replied => srv.sent = 0)
        /\ (pc = "failed" <=> cause # "none")
    BY DEF StreamInv, Begins
  <2> QED
    BY <1>3, <1>4, <2>1 DEF Begins
<1>7. GreetingFirst'
  <2>1. Greeted(k)'
    BY DEF Greeted, Led
  <2> QED
    BY <2>1 DEF GreetingFirst
<1>8. FramesFit'
  <2>1. \A i \in 1..Len(c2s) : c2s[i].kind = "data" => c2s[i].of = "strm"
    BY DEF StreamInv, FramesFit
  <2>2. ASSUME NEW i \in 1..Len(c2s') PROVE c2s'[i].kind = "data" => c2s'[i].of = "strm"
    <3>1. i + 1 \in 1..Len(c2s) /\ c2s'[i] = c2s[i + 1]
      BY <1>2
    <3> QED
      BY <2>1, <3>1
  <2> QED
    BY <1>2, <2>2 DEF StreamInv, FramesFit
<1>9. BodyAddsUp'
  BY <1>2, <1>3 DEF StreamInv, BodyAddsUp
<1>10. EndsLast'
  BY <1>2, <1>3 DEF StreamInv, EndsLast
<1>11. LiteTakesOne' /\ EndIsTheEnd'
  BY <1>3 DEF StreamInv, LiteTakesOne, EndIsTheEnd
<1> QED
  BY <1>5, <1>6, <1>7, <1>8, <1>9, <1>10, <1>11, Kept

\* The facts about the frame that the server reads.
LEMMA ReadFrame ==
  ASSUME StreamInv, ServerReads
  PROVE  \E k \in 0..3 :
           /\ srv.open <=> k = 0
           /\ k = 0 => Head(c2s).kind \in {"data", "window"} /\ Led(c2s', 0)
           /\ k # 0 => Head(c2s) = Greeting[4 - k] /\ Led(c2s', k - 1)
           /\ Unset <=> k = 3
           /\ ~Unset' /\ ~Undialed /\ ~Undialed'
           /\ Head(c2s) \in Frames /\ (Head(c2s).kind = "data" => Head(c2s).of = "strm")
           /\ c2s' \in Seq(Frames) /\ s2c' = s2c /\ h2' = h2 /\ strm' = strm
           /\ UNCHANGED <<offset, buf, given>>
           /\ \A kd, of : InFlight(c2s, kd, of) = Weight(Head(c2s), kd, of) + InFlight(c2s', kd, of)
<1>1. /\ c2s # << >> /\ c2s' = Tail(c2s) /\ UNCHANGED client /\ s2c' = s2c /\ c2s \in Seq(Frames)
  BY TypeWide DEF ServerReads, StreamInv, Plain
<1>2. /\ h2' = h2 /\ strm' = strm /\ UNCHANGED <<offset, buf, given>> /\ pc' = pc /\ cause' = cause
  BY <1>1 DEF client
<1>3. ~Undialed /\ ~Undialed'
  BY <1>1, <1>2 DEF StreamInv, Begins, Undialed
<1>4. PICK k \in 0..3 : Greeted(k) /\ (srv.open <=> k = 0)
  BY <1>3 DEF StreamInv, GreetingFirst
<1>5. Led(c2s, k)
  BY <1>4 DEF Greeted, Led
<1>6. /\ k = 0 => Head(c2s).kind \in {"data", "window"} /\ Led(c2s', 0) /\ ~Opens(c2s')
      /\ k # 0 => Head(c2s) = Greeting[4 - k] /\ Led(c2s', k - 1) /\ ~Opens(c2s')
      /\ Opens(c2s) <=> k = 3
  BY <1>1, <1>5, LedTail
<1>7. (Unset <=> k = 3) /\ ~Unset'
  <2>1. (Unset <=> Opens(c2s)) /\ (Unset' <=> Opens(c2s'))
    BY <1>3 DEF Unset, Opens
  <2> QED
    BY <1>6, <2>1
<1>8. Head(c2s) \in Frames /\ c2s' \in Seq(Frames) /\ 1 \in 1..Len(c2s) /\ Head(c2s) = c2s[1]
  BY <1>1
<1>9. Head(c2s).kind = "data" => Head(c2s).of = "strm"
  BY <1>8 DEF StreamInv, FramesFit
<1>10. \A kd, of : InFlight(c2s, kd, of) = Weight(Head(c2s), kd, of) + InFlight(c2s', kd, of)
  BY <1>1, InFlightTail
<1> QED
  BY <1>1, <1>2, <1>3, <1>4, <1>6, <1>7, <1>8, <1>9, <1>10

\* The server reads a frame.
LEMMA StreamServerReads == StreamInv /\ ServerReads => StreamInv'
<1> SUFFICES ASSUME StreamInv, ServerReads PROVE StreamInv'
  OBVIOUS
<1>1. Wide /\ Plain /\ SendsAddUp /\ GrantsHold
  BY TypeWide DEF StreamInv
<1>2. PICK k \in 0..3 :
           /\ srv.open <=> k = 0
           /\ k = 0 => Head(c2s).kind \in {"data", "window"} /\ Led(c2s', 0)
           /\ k # 0 => Head(c2s) = Greeting[4 - k] /\ Led(c2s', k - 1)
           /\ Unset <=> k = 3
           /\ ~Unset' /\ ~Undialed /\ ~Undialed'
           /\ Head(c2s) \in Frames /\ (Head(c2s).kind = "data" => Head(c2s).of = "strm")
           /\ c2s' \in Seq(Frames) /\ s2c' = s2c /\ h2' = h2 /\ strm' = strm
           /\ UNCHANGED <<offset, buf, given>>
           /\ \A kd, of : InFlight(c2s, kd, of) = Weight(Head(c2s), kd, of) + InFlight(c2s', kd, of)
  BY ReadFrame
<1>3. PICK f \in Frames : f = Head(c2s)
  BY <1>2
<1>4. f.n \in Nat /\ f.of \in {"conn", "strm"}
  BY DEF Frames
<1>5. /\ InFlight(c2s', "data", "strm") \in Nat /\ InFlight(c2s', "window", "conn") \in Nat
      /\ InFlight(c2s', "window", "strm") \in Nat
  BY <1>2, InFlightNat
<1>6. /\ InFlight(c2s, "data", "strm") = Weight(f, "data", "strm") + InFlight(c2s', "data", "strm")
      /\ InFlight(c2s, "window", "conn")
           = Weight(f, "window", "conn") + InFlight(c2s', "window", "conn")
      /\ InFlight(c2s, "window", "strm")
           = Weight(f, "window", "strm") + InFlight(c2s', "window", "strm")
  BY <1>2, <1>3
<1>7. srv \in ServerRecords
  BY <1>1 DEF Wide, ServerRecords
<1>8. ASSUME srv' \in ServerRecords PROVE Wide'
  BY <1>1, <1>2, <1>8 DEF Wide, ServerRecords
<1>9. srv.open \in BOOLEAN
  BY <1>1, WideFields
<1>10. CASE k = 3
  <2>1. f = Greeting[1] /\ Led(c2s', 2) /\ ~srv.open /\ Unset
    <3>1. k # 0 /\ 4 - k = 1 /\ k - 1 = 2
      BY <1>10
    <3> QED
      BY <1>2, <1>3, <1>10, <3>1
  <2>2. f.kind = "settings" /\ f.n = OurWindow
    BY <2>1, GreetingFrames
  <2>3. srv' = [srv EXCEPT !.outStrm = OurWindow]
    BY <1>3, <2>2 DEF ServerReads
  <2>4. /\ srv'.outStrm = OurWindow /\ srv'.outConn = srv.outConn /\ srv'.conn = srv.conn
        /\ srv'.strm = srv.strm /\ srv'.initial = srv.initial /\ srv'.got = srv.got
        /\ srv'.oweConn = srv.oweConn /\ srv'.oweStrm = srv.oweStrm /\ srv'.open = srv.open
        /\ srv'.replied = srv.replied /\ srv'.sent = srv.sent /\ srv'.ended = srv.ended
    BY <1>7, <2>3 DEF ServerRecords
  <2>5. Wide'
    BY <1>7, <1>8, <2>3, Numbers DEF ServerRecords
  <2>6. /\ Weight(f, "data", "strm") = 0 /\ Weight(f, "window", "conn") = 0
        /\ Weight(f, "window", "strm") = 0
    BY <2>2 DEF Weight
  <2>7. /\ InFlight(c2s', "data", "strm") = InFlight(c2s, "data", "strm")
        /\ InFlight(c2s', "window", "conn") = InFlight(c2s, "window", "conn")
        /\ InFlight(c2s', "window", "strm") = InFlight(c2s, "window", "strm")
    BY <1>5, <1>6, <2>6
  <2>8. SendsAddUp'
    BY <1>1, <1>2, <2>4, <2>7 DEF SendsAddUp
  <2>9. GrantsHold'
    <3>1. srv.outStrm + InFlight(s2c, "data", "strm") + InFlight(c2s, "window", "strm")
            + strm.consumed = DefaultWindow
      BY <1>1, <2>1 DEF GrantsHold
    <3>2. srv.outStrm = DefaultWindow
      BY <1>1, <2>1 DEF GrantsHold
    <3>3. OurWindow + InFlight(s2c, "data", "strm") + InFlight(c2s, "window", "strm")
            + strm.consumed = OurWindow
      BY <1>1, <3>1, <3>2, Units, WideNumbers, Numbers
    <3>4. srv'.outStrm + InFlight(s2c, "data", "strm") + InFlight(c2s', "window", "strm")
            + strm.consumed = OurWindow
      BY <2>4, <2>7, <3>3
    <3> QED
      BY <1>1, <1>2, <2>4, <2>7, <3>4 DEF GrantsHold
  <2> QED
    BY <2>1, <2>4, <2>5, <2>8, <2>9, Reading
<1>11. CASE k = 1
  <2>1. f = Greeting[3] /\ Led(c2s', 0) /\ ~srv.open
    <3>1. k # 0 /\ 4 - k = 3 /\ k - 1 = 0
      BY <1>11
    <3> QED
      BY <1>2, <1>3, <1>11, <3>1
  <2>2. f.kind = "headers"
    BY <2>1, GreetingFrames
  <2>3. srv' = [srv EXCEPT !.open = TRUE]
    BY <1>3, <2>2 DEF ServerReads
  <2>4. /\ srv'.outStrm = srv.outStrm /\ srv'.outConn = srv.outConn /\ srv'.conn = srv.conn
        /\ srv'.strm = srv.strm /\ srv'.initial = srv.initial /\ srv'.got = srv.got
        /\ srv'.oweConn = srv.oweConn /\ srv'.oweStrm = srv.oweStrm /\ srv'.open
        /\ srv'.replied = srv.replied /\ srv'.sent = srv.sent /\ srv'.ended = srv.ended
    BY <1>7, <2>3 DEF ServerRecords
  <2>5. Wide'
    BY <1>7, <1>8, <2>3 DEF ServerRecords
  <2>6. /\ Weight(f, "data", "strm") = 0 /\ Weight(f, "window", "conn") = 0
        /\ Weight(f, "window", "strm") = 0
    BY <2>2 DEF Weight
  <2>7. /\ InFlight(c2s', "data", "strm") = InFlight(c2s, "data", "strm")
        /\ InFlight(c2s', "window", "conn") = InFlight(c2s, "window", "conn")
        /\ InFlight(c2s', "window", "strm") = InFlight(c2s, "window", "strm")
    BY <1>5, <1>6, <2>6
  <2>8. SendsAddUp'
    BY <1>1, <1>2, <2>4, <2>7 DEF SendsAddUp
  <2>9. GrantsHold'
    <3>1. ~Unset
      BY <1>2, <1>11
    <3> QED
      BY <1>1, <1>2, <2>4, <2>7, <3>1 DEF GrantsHold
  <2> QED
    BY <2>1, <2>4, <2>5, <2>8, <2>9, Reading
<1>12. CASE k = 2 \/ k = 0
  <2>1. PICK j \in 0..3 : Led(c2s', j) /\ (srv.open <=> j = 0)
    <3>1. CASE k = 2
      <4>1. k # 0 /\ k - 1 = 1 /\ 1 \in 0..3
        BY <3>1
      <4> QED
        BY <1>2, <4>1
    <3>2. CASE k = 0
      BY <1>2, <3>2
    <3> QED
      BY <1>12, <3>1, <3>2
  <2>2. ~Unset
    BY <1>2, <1>12
  <2>3. f.kind \in {"data", "window"}
    <3>1. CASE k = 2
      <4>1. k # 0 /\ 4 - k = 2
        BY <3>1
      <4>2. f = Greeting[2]
        BY <1>2, <1>3, <3>1, <4>1
      <4> QED
        BY <4>2, GreetingFrames
    <3>2. CASE k = 0
      BY <1>2, <1>3, <3>2
    <3> QED
      BY <1>12, <3>1, <3>2
  <2>4. CASE f.kind = "window" /\ f.of = "conn"
    <3>1. srv' = [srv EXCEPT !.outConn = @ + f.n]
      BY <1>3, <2>4 DEF ServerReads
    <3>2. /\ srv'.outStrm = srv.outStrm /\ srv'.outConn = srv.outConn + f.n
          /\ srv'.conn = srv.conn
          /\ srv'.strm = srv.strm /\ srv'.initial = srv.initial /\ srv'.got = srv.got
          /\ srv'.oweConn = srv.oweConn /\ srv'.oweStrm = srv.oweStrm /\ srv'.open = srv.open
          /\ srv'.replied = srv.replied /\ srv'.sent = srv.sent /\ srv'.ended = srv.ended
      BY <1>7, <3>1 DEF ServerRecords
    <3>3. Wide'
      <4>1. srv.outConn + f.n \in Nat
        BY <1>1, <1>4, WideNumbers
      <4> QED
        BY <1>7, <1>8, <3>1, <4>1 DEF ServerRecords
    <3>4. /\ Weight(f, "data", "strm") = 0 /\ Weight(f, "window", "conn") = f.n
          /\ Weight(f, "window", "strm") = 0
      BY <2>4 DEF Weight
    <3>5. /\ InFlight(c2s', "data", "strm") = InFlight(c2s, "data", "strm")
          /\ InFlight(c2s', "window", "strm") = InFlight(c2s, "window", "strm")
      BY <1>5, <1>6, <3>4
    <3>6. SendsAddUp'
      BY <1>1, <1>2, <3>2, <3>5 DEF SendsAddUp
    <3>7. GrantsHold'
      <4>1. srv.outConn + InFlight(s2c, "data", "strm") + InFlight(c2s, "window", "conn")
              + h2.consumed = OurWindow
        BY <1>1, <1>2 DEF GrantsHold
      <4>2. srv'.outConn = srv.outConn + f.n
            /\ InFlight(c2s, "window", "conn") = f.n + InFlight(c2s', "window", "conn")
        BY <1>6, <3>2, <3>4
      <4>3. srv'.outConn + InFlight(s2c, "data", "strm") + InFlight(c2s', "window", "conn")
              + h2.consumed = OurWindow
        BY <1>1, <1>4, <1>5, <4>1, <4>2, Units, WideNumbers
      <4> QED
        BY <1>1, <1>2, <2>2, <3>2, <3>5, <4>3 DEF GrantsHold
    <3> QED
      BY <2>1, <3>2, <3>3, <3>6, <3>7, Reading
  <2>5. CASE f.kind = "window" /\ f.of = "strm"
    <3>1. srv' = [srv EXCEPT !.outStrm = @ + f.n]
      BY <1>3, <2>5 DEF ServerReads
    <3>2. /\ srv'.outStrm = srv.outStrm + f.n /\ srv'.outConn = srv.outConn
          /\ srv'.conn = srv.conn
          /\ srv'.strm = srv.strm /\ srv'.initial = srv.initial /\ srv'.got = srv.got
          /\ srv'.oweConn = srv.oweConn /\ srv'.oweStrm = srv.oweStrm /\ srv'.open = srv.open
          /\ srv'.replied = srv.replied /\ srv'.sent = srv.sent /\ srv'.ended = srv.ended
      BY <1>7, <3>1 DEF ServerRecords
    <3>3. Wide'
      <4>1. srv.outStrm + f.n \in Nat
        BY <1>1, <1>4, WideNumbers
      <4> QED
        BY <1>7, <1>8, <3>1, <4>1 DEF ServerRecords
    <3>4. /\ Weight(f, "data", "strm") = 0 /\ Weight(f, "window", "strm") = f.n
          /\ Weight(f, "window", "conn") = 0
      BY <2>5 DEF Weight
    <3>5. /\ InFlight(c2s', "data", "strm") = InFlight(c2s, "data", "strm")
          /\ InFlight(c2s', "window", "conn") = InFlight(c2s, "window", "conn")
      BY <1>5, <1>6, <3>4
    <3>6. SendsAddUp'
      BY <1>1, <1>2, <3>2, <3>5 DEF SendsAddUp
    <3>7. GrantsHold'
      <4>1. srv.outStrm + InFlight(s2c, "data", "strm") + InFlight(c2s, "window", "strm")
              + strm.consumed = OurWindow
        BY <1>1, <2>2 DEF GrantsHold
      <4>2. srv'.outStrm = srv.outStrm + f.n
            /\ InFlight(c2s, "window", "strm") = f.n + InFlight(c2s', "window", "strm")
        BY <1>6, <3>2, <3>4
      <4>3. srv'.outStrm + InFlight(s2c, "data", "strm") + InFlight(c2s', "window", "strm")
              + strm.consumed = OurWindow
        BY <1>1, <1>4, <1>5, <4>1, <4>2, Units, WideNumbers
      <4> QED
        BY <1>1, <1>2, <2>2, <3>2, <3>5, <4>3 DEF GrantsHold
    <3> QED
      BY <2>1, <3>2, <3>3, <3>6, <3>7, Reading
  <2>6. CASE f.kind = "data"
    <3>0. f.of = "strm"
      BY <1>2, <1>3, <2>6
    <3>1. srv' = [srv EXCEPT !.conn = @ - f.n, !.strm = @ - f.n, !.oweConn = @ + f.n,
                             !.oweStrm = @ + f.n, !.got = @ + f.n]
      BY <1>3, <2>6 DEF ServerReads
    <3>2. /\ srv'.outStrm = srv.outStrm /\ srv'.outConn = srv.outConn
          /\ srv'.conn = srv.conn - f.n /\ srv'.strm = srv.strm - f.n
          /\ srv'.initial = srv.initial /\ srv'.got = srv.got + f.n
          /\ srv'.oweConn = srv.oweConn + f.n /\ srv'.oweStrm = srv.oweStrm + f.n
          /\ srv'.open = srv.open
          /\ srv'.replied = srv.replied /\ srv'.sent = srv.sent /\ srv'.ended = srv.ended
      BY <1>7, <3>1 DEF ServerRecords
    <3>3. Wide'
      <4>1. /\ srv.conn - f.n \in Int /\ srv.strm - f.n \in Int /\ srv.got + f.n \in Nat
            /\ srv.oweConn + f.n \in Nat /\ srv.oweStrm + f.n \in Nat
        BY <1>1, <1>4, WideNumbers
      <4> QED
        BY <1>7, <1>8, <3>1, <4>1 DEF ServerRecords
    <3>4. /\ Weight(f, "data", "strm") = f.n /\ Weight(f, "window", "strm") = 0
          /\ Weight(f, "window", "conn") = 0
      BY <2>6, <3>0 DEF Weight
    <3>5. /\ InFlight(c2s, "data", "strm") = f.n + InFlight(c2s', "data", "strm")
          /\ InFlight(c2s', "window", "conn") = InFlight(c2s, "window", "conn")
          /\ InFlight(c2s', "window", "strm") = InFlight(c2s, "window", "strm")
      BY <1>5, <1>6, <3>4
    <3>6. SendsAddUp'
      <4>0. InFlight(c2s, "data", "strm") = f.n + InFlight(c2s', "data", "strm")
        BY <3>5
      <4>1. h2.send + InFlight(c2s', "data", "strm") + InFlight(s2c, "window", "conn") = srv'.conn
        <5>1. h2.send + InFlight(c2s, "data", "strm") + InFlight(s2c, "window", "conn") = srv.conn
          BY <1>1 DEF SendsAddUp
        <5>2. srv'.conn = srv.conn - f.n
          BY <3>2
        <5> QED
          BY <1>1, <1>4, <1>5, <4>0, <5>1, <5>2, Units, WideNumbers
      <4>2. srv'.conn + srv'.oweConn = DefaultWindow
        <5>1. srv.conn + srv.oweConn = DefaultWindow
          BY <1>1 DEF SendsAddUp
        <5>2. srv'.conn = srv.conn - f.n /\ srv'.oweConn = srv.oweConn + f.n
          BY <3>2
        <5> QED
          BY <1>1, <1>4, <5>1, <5>2, WideNumbers
      <4>3. strm.send + InFlight(c2s', "data", "strm") + InFlight(s2c, "window", "strm")
              + (srv.initial - h2.initial) = srv'.strm
        <5>1. strm.send + InFlight(c2s, "data", "strm") + InFlight(s2c, "window", "strm")
                + (srv.initial - h2.initial) = srv.strm
          BY <1>1, <1>2 DEF SendsAddUp
        <5>2. srv'.strm = srv.strm - f.n
          BY <3>2
        <5> QED
          BY <1>1, <1>4, <1>5, <4>0, <5>1, <5>2, Units, WideNumbers
      <4>4. srv'.strm + srv'.oweStrm = srv.initial
        <5>1. srv.strm + srv.oweStrm = srv.initial
          BY <1>1 DEF SendsAddUp
        <5>2. srv'.strm = srv.strm - f.n /\ srv'.oweStrm = srv.oweStrm + f.n
          BY <3>2
        <5> QED
          BY <1>1, <1>4, <5>1, <5>2, WideNumbers
      <4>5. InFlight(c2s', "data", "strm") + srv'.got = offset
        <5>1. InFlight(c2s, "data", "strm") + srv.got = offset
          BY <1>1 DEF SendsAddUp
        <5>2. srv'.got = srv.got + f.n
          BY <3>2
        <5> QED
          BY <1>1, <1>4, <1>5, <4>0, <5>1, <5>2, WideNumbers
      <4>6. srv'.oweStrm + InFlight(s2c, "window", "strm") + InFlight(c2s', "data", "strm") <= offset
        <5>1. srv.oweStrm + InFlight(s2c, "window", "strm") + InFlight(c2s, "data", "strm") <= offset
          BY <1>1 DEF SendsAddUp
        <5>2. srv'.oweStrm = srv.oweStrm + f.n
          BY <3>2
        <5> QED
          BY <1>1, <1>4, <1>5, <4>0, <5>1, <5>2, Units, WideNumbers
      <4>7. srv'.initial = srv.initial
        BY <3>2
      <4> QED
        BY <1>2, <4>1, <4>2, <4>3, <4>4, <4>5, <4>6, <4>7 DEF SendsAddUp
    <3>7. GrantsHold'
      BY <1>1, <1>2, <2>2, <3>2, <3>5 DEF GrantsHold
    <3> QED
      BY <2>1, <3>2, <3>3, <3>6, <3>7, Reading
  <2> QED
    BY <1>4, <2>3, <2>4, <2>5, <2>6
<1> QED
  BY <1>10, <1>11, <1>12

-----------------------------------------------------------------------------
(***************************************************************************)
(* The theorems.                                                           *)
(***************************************************************************)

\* Every step keeps the invariant.
LEMMA StreamStep == StreamInv /\ [Next]_vars => StreamInv'
<1> SUFFICES ASSUME StreamInv, [Next]_vars PROVE StreamInv'
  OBVIOUS
<1>1. CASE Client
  <2>1. ASSUME NEW early \in BOOLEAN, Dial(early) PROVE StreamInv'
    BY <2>1, StreamDial
  <2>2. ASSUME SendData \/ SendReset \/ Status \/ TakeMessage \/ ReadBody \/ ReadEnd \/ Garbage \/ Eof
        PROVE  StreamInv'
    BY <2>2, StreamSendData, StreamFailures, StreamStatus, StreamTakeMessage, StreamReadBody,
       StreamReadEnd
  <2>3. ASSUME NEW f,
               HandleSettings(f) \/ HandleWindow(f) \/ HandleHeaders(f) \/ HandleData(f)
                 \/ HandleOther(f)
        PROVE  StreamInv'
    BY <2>3, StreamSettings, StreamWindow, StreamHeaders, StreamData, StreamOther
  <2> QED
    BY <1>1, <2>1, <2>2, <2>3 DEF Client, Handle
<1>2. CASE Server
  <2>1. ASSUME NEW w \in Windows, ServerSettings(w) PROVE StreamInv'
    BY <2>1, StreamServerSettings
  <2>2. ASSUME NEW of \in {"conn", "strm"}, ServerWindow(of) PROVE StreamInv'
    BY <2>2, StreamServerWindow
  <2>3. ASSUME NEW empty \in BOOLEAN, ServerReplies(empty) PROVE StreamInv'
    BY <2>3, StreamServerReplies
  <2>4. ASSUME NEW n \in 0..MaxFrame, ServerData(n) PROVE StreamInv'
    BY <2>4, StreamServerData
  <2> QED
    BY <1>2, <2>1, <2>2, <2>3, <2>4, StreamServerReads DEF Server
<1>3. CASE ArrivesInPart
  BY <1>3, StreamTransport
<1>4. CASE Faults
  <2>1. ASSUME NEW k \in Extras, ServerExtra(k)
        PROVE  StreamInv'
    BY <2>1, StreamServerExtra
  <2> QED
    BY <1>4, <2>1, StreamDialFails, StreamTimeout, StreamTransport DEF Faults
<1>5. CASE UNCHANGED vars
  <2>1. UNCHANGED <<pc, request, offset, h2, strm, buf, given, torn, cause>>
        /\ UNCHANGED <<srv, c2s, s2c, part, closed>>
    BY <1>5 DEF vars, client
  <2>2. TypeOK' /\ FramesFit' /\ LiteTakesOne' /\ EndIsTheEnd' /\ BodyAddsUp'
    BY <2>1 DEF StreamInv, TypeOK, FramesFit, LiteTakesOne, EndIsTheEnd, BodyAddsUp
  <2>3. Begins' /\ (Undialed' <=> Undialed)
    BY <2>1 DEF StreamInv, Begins, Undialed
  <2>4. GreetingFirst' /\ SendsAddUp' /\ GrantsHold' /\ EndsLast'
    BY <2>1, <2>3, ChannelsKept DEF StreamInv, ServerKeeps
  <2> QED
    BY <2>2, <2>3, <2>4 DEF StreamInv
<1> QED
  BY <1>1, <1>2, <1>3, <1>4, <1>5 DEF Next

\* The invariant of the stream, and with it the type invariant, holds for
\* every length of the body, the response, the frames and the windows
\* (h2.rs, H2Conn and Stream).
THEOREM StreamHolds == Spec => []StreamInv
<1>1. Init => StreamInv
  BY StreamInit
<1>2. StreamInv /\ [Next]_vars => StreamInv'
  BY StreamStep
<1> QED
  BY <1>1, <1>2, PTL DEF Spec

\* The client's send windows are the server's, whatever is under way: a
\* SETTINGS that changes the window of the open stream, behind which the
\* client sends on, and updates that pass its data (h2.rs, send_body and
\* handle_frame).
THEOREM SendWindowsHold == Spec => []SendInv
<1>1. StreamInv => SendInv
  <2> SUFFICES ASSUME StreamInv PROVE SendInv
    OBVIOUS
  <2>1. TypeOK /\ SendsAddUp
    BY DEF StreamInv
  <2>2. Wide
    BY <2>1, TypeWide
  <2>3. h2.send >= 0
    BY <2>2, WideNumbers
  <2>4. SendWindowsAgree
    BY <2>1, <2>3 DEF SendsAddUp, SendWindowsAgree, Undialed
  <2> QED
    BY <2>1, <2>4 DEF SendInv
<1> QED
  BY <1>1, StreamHolds, PTL

\* No unit of the windows we grant is lost: what the server may send, what is
\* under way and what maybe_window_update has not reported yet is OUR_WINDOW
\* (h2.rs, handle_frame and maybe_window_update).
THEOREM GrantsAreNeverLost == Spec => []GrantsAddUp
<1>1. StreamInv => GrantsAddUp
  <2> SUFFICES ASSUME StreamInv, srv.open PROVE GrantsAddUp
    BY DEF GrantsAddUp
  <2>1. ~Undialed /\ ~Unset
    BY OpenIsSet
  <2>2. GrantsHold
    BY DEF StreamInv
  <2> QED
    BY <2>1, <2>2 DEF GrantsHold, GrantsAddUp
<1> QED
  BY <1>1, StreamHolds, PTL

\* When read_body says None every message that the server sent was handed
\* over, in whatever parts it came (h2.rs, read_body; control.rs,
\* take_message).
THEOREM EndComesLast == Spec => []EndIsTheEnd
<1>1. StreamInv => EndIsTheEnd
  BY DEF StreamInv
<1> QED
  BY <1>1, StreamHolds, PTL
=============================================================================
