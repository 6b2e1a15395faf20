---------------------------- MODULE ConsoleProofs ----------------------------
(***************************************************************************)
(* The console, for every keyboard, ring, size of screen and set of        *)
(* commands: no modifier sticks, keys reach the shell in order, and the    *)
(* screen shows the line that the shell will execute.                      *)
(*                                                                         *)
(* The first part proves that the keyboard driver implements TypeAhead,    *)
(* from what the bytes that are still under way will do to the driver; the *)
(* second proves about the terminal and the display that what is put into  *)
(* the cells is in the ring of the back buffer too, and about the line     *)
(* editor that every key leaves the prompt and the line on the screen.     *)
(***************************************************************************)
EXTENDS Console, LoopTheorems, SequenceTheorems, TLAPS

-----------------------------------------------------------------------------
(* The driver's state and its bytes.                                       *)

KeyboardState == [shift : BOOLEAN, caps : BOOLEAN, e0 : BOOLEAN, ring : Seq(KeyCodes)]
KeyNames == Letters \cup Others \cup ExtendedKeys \cup Modifiers
Bytes == [key : KeyNames \cup {"E0"}, released : BOOLEAN]

(* k with the ring r. *)
Holding(k, r) == [k EXCEPT !.ring = r]

(* Another ring changes nothing else. *)
LEMMA HoldingIs ==
    ASSUME NEW k \in KeyboardState, NEW r \in Seq(KeyCodes)
    PROVE  /\ Holding(k, r) \in KeyboardState /\ Holding(k, r).ring = r
           /\ Holding(k, r).shift = k.shift /\ Holding(k, r).caps = k.caps
           /\ Holding(k, r).e0 = k.e0
BY DEF Holding, KeyboardState

(* Of two rings put into the driver, the second stays: push and the reply  *)
(* of the driver write only the ring.                                      *)
LEMMA HoldingTwice ==
    ASSUME NEW k \in KeyboardState, NEW r \in Seq(KeyCodes), NEW q \in Seq(KeyCodes)
    PROVE  Holding(Holding(k, r), q) = Holding(k, q)
BY DEF Holding, KeyboardState

(* The ring of the driver holds key codes, and putting it back changes     *)
(* nothing.                                                                *)
LEMMA HoldingOwn ==
    ASSUME NEW k \in KeyboardState
    PROVE  k.ring \in Seq(KeyCodes) /\ Holding(k, k.ring) = k
BY DEF Holding, KeyboardState

(* Sequences of at most one element. *)
LEMMA ShortSequences ==
    ASSUME NEW S
    PROVE  /\ <<>> \in Seq(S) /\ Len(<<>>) = 0
           /\ \A c \in S : <<c>> \in Seq(S) /\ Len(<<c>>) = 1
           /\ \A r \in Seq(S) : r \o <<>> = r /\ <<>> \o r = r
           /\ \A r \in Seq(S), c \in S : Append(r, c) = r \o <<c>>
OBVIOUS

(* A sequence of length at most one is empty or has one element: a byte    *)
(* yields at most one key.                                                 *)
LEMMA AtMostOne ==
    ASSUME NEW S, NEW r \in Seq(S), Len(r) <= 1
    PROVE  r = <<>> \/ \E c \in S : r = <<c>>
<1>1. CASE Len(r) = 0
  BY <1>1
<1>2. CASE Len(r) = 1
  BY <1>2
<1>3. Len(r) = 0 \/ Len(r) = 1
  <2>1. PICK n \in Nat : n = Len(r)
    OBVIOUS
  <2>2. n <= 1
    BY <2>1
  <2>3. QED
    BY <2>1, <2>2
<1>4. QED
  BY <1>1, <1>2, <1>3

(* Concatenation is associative and stays within the sequences over S.     *)
LEMMA Regroup ==
    ASSUME NEW S, NEW r \in Seq(S), NEW p \in Seq(S), NEW q \in Seq(S)
    PROVE  /\ (r \o p) \o q = r \o (p \o q)
           /\ r \o p \in Seq(S) /\ p \o q \in Seq(S) /\ r \o (p \o q) \in Seq(S)
OBVIOUS

(* The ring r after the driver has put out into it. *)
Put(r, out) == IF Len(r) = KEYBOARD_BUFFER_SIZE - 1 THEN r ELSE r \o out

(* What a byte does to the flags, and which key it yields, does not depend *)
(* on the ring.                                                            *)
Yields(k, b, f, out) ==
    /\ f \in KeyboardState /\ out \in Seq(KeyCodes) /\ Len(out) <= 1
    /\ \A r \in Seq(KeyCodes) :
          HandleScancode(Holding(k, r), b) = Holding(f, Put(r, out))

(* push: a key goes behind the others, or is dropped when the ring is      *)
(* full.                                                                   *)
LEMMA PushIs ==
    ASSUME NEW k \in KeyboardState, NEW c \in KeyCodes
    PROVE  Push(k, c) = Holding(k, Put(k.ring, <<c>>))
<1>1. k.ring \in Seq(KeyCodes) /\ Append(k.ring, c) = k.ring \o <<c>>
  BY ShortSequences DEF KeyboardState
<1>2. CASE Len(k.ring) = KEYBOARD_BUFFER_SIZE - 1
  BY <1>1, <1>2, HoldingOwn DEF Push, Put
<1>3. CASE Len(k.ring) # KEYBOARD_BUFFER_SIZE - 1
  BY <1>1, <1>3 DEF Push, Put, Holding
<1>4. QED
  BY <1>2, <1>3

(* The cases of handleScancode exclude each other: modifiers are no keys.  *)
LEMMA PlainModifiers ==
    ASSUME NEW k, NEW b, b # E0, ~k.e0
    PROVE  /\ b.key = "Shift" =>
                 HandleScancode(k, b) = [k EXCEPT !.shift = ~b.released]
           /\ b.key = "CapsLock" =>
                 HandleScancode(k, b) = [k EXCEPT !.caps = IF b.released THEN @ ELSE ~@]
<1>1. DOMAIN Shifted \cap {"Shift", "CapsLock"} = {}
  BY KeyboardAssumption, KeyNamesAssumption DEF Modifiers
<1>2. QED
  BY <1>1 DEF HandleScancode

(* handleScancode, case by case: every byte has its effect on the flags    *)
(* and yields at most one key, the same for every content of the ring.     *)
LEMMA HandleIs ==
    ASSUME NEW k \in KeyboardState, NEW b \in Bytes
    PROVE  \E f, out : Yields(k, b, f, out)
<1>0. /\ \A r \in Seq(KeyCodes) : Put(r, <<>>) = r
      /\ <<>> \in Seq(KeyCodes) /\ Len(<<>>) = 0
      /\ \A c \in KeyCodes : <<c>> \in Seq(KeyCodes) /\ Len(<<c>>) = 1
  BY ShortSequences DEF Put
<1>a. b.key \in KeyNames \cup {"E0"} /\ b.released \in BOOLEAN
  BY DEF Bytes
<1>1. CASE b = E0
  <2> DEFINE f == [k EXCEPT !.e0 = TRUE]
  <2>1. f \in KeyboardState
    BY DEF KeyboardState
  <2>2. ASSUME NEW r \in Seq(KeyCodes)
        PROVE  HandleScancode(Holding(k, r), b) = Holding(f, Put(r, <<>>))
    BY <1>0, <1>1 DEF HandleScancode, Holding, KeyboardState
  <2> HIDE DEF f
  <2>3. Yields(k, b, f, <<>>)
    BY <1>0, <2>1, <2>2 DEF Yields
  <2>4. QED
    BY <2>3
<1>2. CASE b # E0 /\ k.e0
  <2> DEFINE f == [k EXCEPT !.e0 = FALSE]
             out == IF ~b.released /\ b.key \in ExtendedKeys THEN <<b.key>> ELSE <<>>
  <2>1. f \in KeyboardState
    BY DEF KeyboardState
  <2>2. ASSUME NEW r \in Seq(KeyCodes)
        PROVE  HandleScancode(Holding(k, r), b) = Holding(f, Put(r, out))
    <3> DEFINE h == Holding(k, r)
               plain == [h EXCEPT !.e0 = FALSE]
    <3>1. h \in KeyboardState /\ h.e0
      BY <1>2, HoldingIs
    <3>2. plain = Holding(f, r) /\ plain \in KeyboardState /\ plain.ring = r
      <4>1. plain = Holding(f, r)
        BY DEF Holding, KeyboardState
      <4> HIDE DEF f, plain
      <4>2. QED
        BY <4>1, <2>1, HoldingIs
    <3>3. HandleScancode(h, b) = AfterPrefix(h, b)
      BY <1>2, <3>1 DEF HandleScancode
    <3>4. AfterPrefix(h, b) =
            IF ~b.released /\ b.key \in ExtendedKeys THEN Push(plain, b.key) ELSE plain
      BY DEF AfterPrefix
    <3> HIDE DEF h, plain, f
    <3>5. CASE ~b.released /\ b.key \in ExtendedKeys
      <4>1. b.key \in KeyCodes
        BY <3>5 DEF KeyCodes
      <4>2. Push(plain, b.key) = Holding(plain, Put(r, <<b.key>>))
        BY <4>1, <3>2, PushIs
      <4>3. Put(r, <<b.key>>) \in Seq(KeyCodes)
        BY <4>1 DEF Put
      <4>4. Holding(plain, Put(r, <<b.key>>)) = Holding(f, Put(r, <<b.key>>))
        BY <4>3, <3>2, <2>1, HoldingTwice
      <4>5. QED
        BY <3>3, <3>4, <3>5, <4>2, <4>4 DEF h
    <3>6. CASE ~(~b.released /\ b.key \in ExtendedKeys)
      BY <1>0, <3>2, <3>3, <3>4, <3>6 DEF h
    <3>7. QED
      BY <3>5, <3>6
  <2>3. out \in Seq(KeyCodes) /\ Len(out) <= 1
    <3>1. b.key \in ExtendedKeys => b.key \in KeyCodes
      BY DEF KeyCodes
    <3>2. QED
      BY <1>0, <3>1
  <2> HIDE DEF f, out
  <2>4. Yields(k, b, f, out)
    BY <2>1, <2>2, <2>3 DEF Yields
  <2>5. QED
    BY <2>4
<1>3. CASE b # E0 /\ ~k.e0
  <2>0. \A r \in Seq(KeyCodes) : Holding(k, r).e0 = k.e0
    BY HoldingIs
  <2>1. CASE b.key = "Shift"
    <3> DEFINE f == [k EXCEPT !.shift = ~b.released]
    <3>1. f \in KeyboardState
      BY <1>a DEF KeyboardState
    <3>2. ASSUME NEW r \in Seq(KeyCodes)
          PROVE  HandleScancode(Holding(k, r), b) = Holding(f, Put(r, <<>>))
      <4>1. HandleScancode(Holding(k, r), b) = [Holding(k, r) EXCEPT !.shift = ~b.released]
        BY <1>3, <2>0, <2>1, PlainModifiers
      <4>2. QED
        BY <1>0, <4>1 DEF Holding, KeyboardState
    <3> HIDE DEF f
    <3>3. Yields(k, b, f, <<>>)
      BY <1>0, <3>1, <3>2 DEF Yields
    <3>4. QED
      BY <3>3
  <2>2. CASE b.key = "CapsLock"
    <3> DEFINE f == [k EXCEPT !.caps = IF b.released THEN @ ELSE ~@]
    <3>1. f \in KeyboardState
      BY <1>a DEF KeyboardState
    <3>2. ASSUME NEW r \in Seq(KeyCodes)
          PROVE  HandleScancode(Holding(k, r), b) = Holding(f, Put(r, <<>>))
      <4>1. HandleScancode(Holding(k, r), b) =
              [Holding(k, r) EXCEPT !.caps = IF b.released THEN @ ELSE ~@]
        BY <1>3, <2>0, <2>2, PlainModifiers
      <4>2. QED
        BY <1>0, <4>1 DEF Holding, KeyboardState
    <3> HIDE DEF f
    <3>3. Yields(k, b, f, <<>>)
      BY <1>0, <3>1, <3>2 DEF Yields
    <3>4. QED
      BY <3>3
  <2>3. CASE b.key \notin Modifiers /\ b.key \in DOMAIN Shifted /\ ~b.released
    <3> DEFINE c == Translated(k, b.key)
    <3>1. c \in KeyCodes
      BY <2>3, KeyboardAssumption DEF Translated, KeyCodes
    <3>2. ASSUME NEW r \in Seq(KeyCodes)
          PROVE  HandleScancode(Holding(k, r), b) = Holding(k, Put(r, <<c>>))
      <4> DEFINE h == Holding(k, r)
      <4>1. h \in KeyboardState /\ h.ring = r /\ h.shift = k.shift /\ h.caps = k.caps
        BY HoldingIs
      <4>2. HandleScancode(h, b) = Push(h, Translated(h, b.key))
        BY <1>3, <2>0, <2>3 DEF HandleScancode, Modifiers
      <4>3. Translated(h, b.key) = c
        BY <4>1 DEF Translated
      <4> HIDE DEF h, c
      <4>4. Push(h, c) = Holding(h, Put(r, <<c>>))
        BY <3>1, <4>1, PushIs
      <4>5. Put(r, <<c>>) \in Seq(KeyCodes)
        BY <3>1 DEF Put
      <4>6. Holding(h, Put(r, <<c>>)) = Holding(k, Put(r, <<c>>))
        BY <4>5, HoldingTwice DEF h
      <4>7. QED
        BY <4>2, <4>3, <4>4, <4>6 DEF h
    <3> HIDE DEF c
    <3>3. Yields(k, b, k, <<c>>)
      BY <1>0, <3>1, <3>2 DEF Yields
    <3>4. QED
      BY <3>3
  <2>4. CASE b.key \notin Modifiers /\ ~(b.key \in DOMAIN Shifted /\ ~b.released)
    <3>1. ASSUME NEW r \in Seq(KeyCodes)
          PROVE  HandleScancode(Holding(k, r), b) = Holding(k, Put(r, <<>>))
      BY <1>0, <1>3, <2>0, <2>4 DEF HandleScancode, Modifiers
    <3>2. Yields(k, b, k, <<>>)
      BY <1>0, <3>1 DEF Yields
    <3>3. QED
      BY <3>2
  <2>5. QED
    BY <2>1, <2>2, <2>3, <2>4 DEF Modifiers
<1>4. QED
  BY <1>1, <1>2, <1>3

(* A byte adds its key behind the others. *)
LEMMA TakenIs ==
    ASSUME NEW k \in KeyboardState, NEW b \in Bytes,
           NEW f \in KeyboardState, NEW out \in Seq(KeyCodes), Yields(k, b, f, out)
    PROVE  /\ \A r \in Seq(KeyCodes) : Taken(Holding(k, r), b) = Holding(f, r \o out)
           /\ Taken(k, b) = Holding(f, k.ring \o out)
           /\ Taken(k, b) \in KeyboardState
<1>1. f \in KeyboardState /\ out \in Seq(KeyCodes) /\ k.ring \in Seq(KeyCodes)
  BY DEF Yields, KeyboardState
<1>2. ASSUME NEW r \in Seq(KeyCodes)
      PROVE  Taken(Holding(k, r), b) = Holding(f, r \o out)
  <2> DEFINE h == Holding(k, r)
             n == HandleScancode(Holding(h, <<>>), b)
  <2>1. <<>> \in Seq(KeyCodes) /\ <<>> \o out = out /\ Len(<<>>) = 0
    BY <1>1, ShortSequences
  <2>2. h.ring = r /\ Holding(h, <<>>) = Holding(k, <<>>)
    BY <2>1, HoldingIs, HoldingTwice
  <2>3. Put(<<>>, out) = out
    BY <2>1, KeyboardAssumption DEF Put
  <2>4. n = Holding(f, out)
    BY <2>1, <2>2, <2>3 DEF Yields
  <2>5. Taken(h, b) = [n EXCEPT !.ring = h.ring \o @]
    BY DEF Taken, Holding
  <2> HIDE DEF h, n
  <2>6. n.ring = out /\ r \o out \in Seq(KeyCodes)
    BY <1>1, <2>4, HoldingIs
  <2>7. Taken(h, b) = Holding(n, r \o out)
    BY <2>2, <2>5, <2>6 DEF Holding
  <2>8. Holding(n, r \o out) = Holding(f, r \o out)
    BY <1>1, <2>4, <2>6, HoldingTwice
  <2>9. QED
    BY <2>7, <2>8 DEF h
<1>3. Taken(k, b) = Holding(f, k.ring \o out)
  BY <1>1, <1>2, HoldingOwn
<1>4. k.ring \o out \in Seq(KeyCodes)
  BY <1>1
<1>5. QED
  BY <1>1, <1>2, <1>3, <1>4, HoldingIs

-----------------------------------------------------------------------------
(* The bytes that are on their way.                                        *)

(* g holds the driver after each byte of in. *)
Handles(g, k, in) ==
    /\ g \in [0 .. Len(in) -> KeyboardState]
    /\ g[0] = k
    /\ \A i \in 1 .. Len(in) : g[i] = Taken(g[i - 1], in[i])

(* The driver after a byte, were there room, is a state of the driver.     *)
LEMMA TakenType ==
    ASSUME NEW k \in KeyboardState, NEW b \in Bytes
    PROVE  Taken(k, b) \in KeyboardState
<1>1. PICK f, out : Yields(k, b, f, out)
  BY HandleIs
<1>2. f \in KeyboardState /\ out \in Seq(KeyCodes)
  BY <1>1 DEF Yields
<1>3. QED
  BY <1>1, <1>2, TakenIs

(* The loop over the bytes under way has a trace, so that Handled says     *)
(* what it seems to say.                                                   *)
LEMMA HandledIs ==
    ASSUME NEW k \in KeyboardState, NEW in \in Seq(Bytes)
    PROVE  \E g : Handles(g, k, in) /\ Handled(k, in) = g[Len(in)]
<1> DEFINE n == Len(in)
           Round == [x \in KeyboardState \X (1 .. n) |-> Taken(x[1], in[x[2]])]
           d == CHOOSE g : g = [i \in 0 .. n |-> IF i = 0 THEN k ELSE Taken(g[i - 1], in[i])]
<1>1. Handled(k, in) = d[n]
  BY DEF Handled
<1>2. n \in Nat /\ \A i \in 1 .. n : in[i] \in Bytes
  OBVIOUS
<1>3. Round \in [KeyboardState \X (1 .. n) -> KeyboardState]
  BY <1>2, TakenType
<1>4. \E g : IsTrace(g, n, KeyboardState, k, Round)
  <2> HIDE DEF n, Round
  <2>1. QED
    BY <1>2, <1>3, LoopTrace
<1>5. PICK g : IsTrace(g, n, KeyboardState, k, Round)
  BY <1>4
<1>6. /\ g \in [0 .. n -> KeyboardState] /\ g[0] = k
      /\ \A i \in 1 .. n : g[i] = Taken(g[i - 1], in[i])
  <2>1. /\ g \in [0 .. n -> KeyboardState] /\ g[0] = k
        /\ \A i \in 1 .. n : g[i] = Round[<<g[i - 1], i>>]
    BY <1>5 DEF IsTrace
  <2>2. ASSUME NEW i \in 1 .. n PROVE <<g[i - 1], i>> \in KeyboardState \X (1 .. n)
    BY <1>2, <2>1
  <2>3. QED
    BY <2>1, <2>2
<1>7. g = [i \in 0 .. n |-> IF i = 0 THEN k ELSE Taken(g[i - 1], in[i])]
  <2>1. \A i \in 0 .. n : i = 0 \/ i \in 1 .. n
    BY <1>2
  <2> HIDE DEF n, Round
  <2>2. QED
    BY <1>6, <2>1
<1>8. d = [i \in 0 .. n |-> IF i = 0 THEN k ELSE Taken(d[i - 1], in[i])]
  BY <1>7
<1> HIDE DEF d
<1>9. /\ d \in [0 .. n -> KeyboardState] /\ d[0] = k
      /\ \A i \in 1 .. n : d[i] = Taken(d[i - 1], in[i])
  <2> DEFINE S == {i \in 0 .. n : d[i] \in KeyboardState}
  <2>1. d[0] = k /\ 0 \in S
    BY <1>2, <1>8
  <2>2. ASSUME NEW i \in 1 .. n PROVE d[i] = Taken(d[i - 1], in[i])
    BY <1>2, <1>8
  <2>3. ASSUME NEW i \in 1 .. n, i - 1 \in S PROVE i \in S
    BY <1>2, <2>2, <2>3, TakenType
  <2> HIDE DEF S
  <2>4. 0 .. n \subseteq S
    BY <1>2, <2>1, <2>3, RoundInduction
  <2> USE DEF S
  <2>5. \A i \in 0 .. n : d[i] \in KeyboardState
    BY <2>4
  <2>6. d \in [0 .. n -> KeyboardState]
    BY <1>8, <2>5
  <2>7. QED
    BY <2>1, <2>2, <2>6
<1>10. QED
  BY <1>1, <1>9 DEF Handles

(* The driver after all bytes under way is a state of the driver.          *)
LEMMA HandledType ==
    ASSUME NEW k \in KeyboardState, NEW in \in Seq(Bytes)
    PROVE  Handled(k, in) \in KeyboardState
<1>1. PICK g : Handles(g, k, in) /\ Handled(k, in) = g[Len(in)]
  BY HandledIs
<1>2. Len(in) \in 0 .. Len(in)
  OBVIOUS
<1>3. QED
  BY <1>1, <1>2 DEF Handles

(* There is one such g for each beginning of the bytes. *)
LEMMA HandlesOnce ==
    ASSUME NEW k \in KeyboardState, NEW in \in Seq(Bytes), NEW more \in Seq(Bytes),
           NEW g, Handles(g, k, in), NEW h, Handles(h, k, more),
           Len(in) <= Len(more), \A i \in 1 .. Len(in) : more[i] = in[i]
    PROVE  \A i \in 0 .. Len(in) : h[i] = g[i]
<1> DEFINE n == Len(in)
           S == {i \in 0 .. n : h[i] = g[i]}
<1>1. n \in Nat /\ Len(more) \in Nat
  OBVIOUS
<1>2. 0 \in S
  BY <1>1 DEF Handles
<1>3. ASSUME NEW i \in 1 .. n, i - 1 \in S PROVE i \in S
  <2>1. g[i] = Taken(g[i - 1], in[i]) /\ h[i] = Taken(h[i - 1], more[i])
    BY <1>1 DEF Handles
  <2>2. QED
    BY <1>1, <1>3, <2>1
<1> HIDE DEF S
<1>4. 0 .. n \subseteq S
  BY <1>1, <1>2, <1>3, RoundInduction
<1>5. QED
  BY <1>4 DEF S

(* No bytes. *)
LEMMA HandledNone ==
    ASSUME NEW k \in KeyboardState
    PROVE  Handled(k, <<>>) = k
<1>1. <<>> \in Seq(Bytes) /\ Len(<<>>) = 0
  BY ShortSequences
<1>2. PICK e : Handles(e, k, <<>>) /\ Handled(k, <<>>) = e[Len(<<>>)]
  BY <1>1, HandledIs
<1>3. QED
  BY <1>1, <1>2 DEF Handles

(* The last byte. *)
LEMMA HandledLast ==
    ASSUME NEW k \in KeyboardState, NEW in \in Seq(Bytes), NEW b \in Bytes
    PROVE  /\ Handled(k, in) \in KeyboardState
           /\ Handled(k, in \o <<b>>) = Taken(Handled(k, in), b)
<1> DEFINE more == in \o <<b>>
           n == Len(in)
<1>1. /\ more \in Seq(Bytes) /\ Len(more) = n + 1 /\ n \in Nat
      /\ \A i \in 1 .. n : more[i] = in[i]
      /\ more[n + 1] = b
  OBVIOUS
<1>2. PICK g : Handles(g, k, in) /\ Handled(k, in) = g[n]
  BY HandledIs
<1> HIDE DEF more
<1>3. PICK h : Handles(h, k, more) /\ Handled(k, more) = h[n + 1]
  BY <1>1, HandledIs
<1>4. h[n] = g[n]
  BY <1>1, <1>2, <1>3, HandlesOnce
<1>5. h[n + 1] = Taken(h[n], b)
  BY <1>1, <1>3 DEF Handles
<1>6. Handled(k, in) \in KeyboardState
  BY <1>1, <1>2 DEF Handles
<1>7. QED
  BY <1>2, <1>3, <1>4, <1>5, <1>6 DEF more

(* The first byte. *)
LEMMA HandledFirst ==
    ASSUME NEW k \in KeyboardState, NEW in \in Seq(Bytes), NEW b \in Bytes
    PROVE  Handled(k, <<b>> \o in) = Handled(Taken(k, b), in)
<1> DEFINE all == <<b>> \o in
           n == Len(in)
           t == Taken(k, b)
<1>1. /\ all \in Seq(Bytes) /\ Len(all) = n + 1 /\ n \in Nat
      /\ all[1] = b /\ \A i \in 1 .. n : all[i + 1] = in[i]
  OBVIOUS
<1>2. t \in KeyboardState
  BY TakenType
<1> HIDE DEF all
<1>3. PICK g : Handles(g, t, in) /\ Handled(t, in) = g[n]
  BY <1>2, HandledIs
<1>4. PICK h : Handles(h, k, all) /\ Handled(k, all) = h[n + 1]
  BY <1>1, HandledIs
<1> DEFINE S == {i \in 0 .. n : h[i + 1] = g[i]}
<1>5. 0 \in S
  <2>1. h[1] = Taken(h[0], b) /\ h[0] = k /\ g[0] = t
    BY <1>1, <1>3, <1>4 DEF Handles
  <2>2. QED
    BY <1>1, <2>1
<1>6. ASSUME NEW i \in 1 .. n, i - 1 \in S PROVE i \in S
  <2>1. i + 1 \in 1 .. n + 1 /\ i + 1 - 1 = i /\ i - 1 + 1 = i
    BY <1>1
  <2>2. h[i + 1] = Taken(h[i], in[i])
    BY <1>1, <1>4, <2>1 DEF Handles
  <2>3. g[i] = Taken(g[i - 1], in[i])
    BY <1>3 DEF Handles
  <2>4. h[i] = g[i - 1]
    BY <1>6, <2>1
  <2>5. QED
    BY <1>1, <2>2, <2>3, <2>4
<1> HIDE DEF S
<1>7. 0 .. n \subseteq S
  BY <1>1, <1>5, <1>6, RoundInduction
<1>8. h[n + 1] = g[n]
  BY <1>1, <1>7 DEF S
<1>9. QED
  BY <1>3, <1>4, <1>8 DEF all

(* What is in the ring comes before the keys of the bytes. *)
Splits(k, in, f) ==
    /\ f \in KeyboardState
    /\ \A r \in Seq(KeyCodes) : Handled(Holding(k, r), in) = Holding(f, r \o f.ring)

(* A byte that yields out, handled with r before p in the ring, leaves r   *)
(* before p and out.                                                       *)
LEMMA RingThenKeys ==
    ASSUME NEW f \in KeyboardState, NEW e \in KeyboardState, NEW b \in Bytes,
           NEW p \in Seq(KeyCodes), NEW out \in Seq(KeyCodes), NEW r \in Seq(KeyCodes),
           Yields(f, b, e, out)
    PROVE  Taken(Holding(f, r \o p), b) = Holding(Holding(e, p \o out), r \o (p \o out))
<1>1. (r \o p) \o out = r \o (p \o out)
  OBVIOUS
<1>2. r \o p \in Seq(KeyCodes) /\ p \o out \in Seq(KeyCodes) /\ r \o (p \o out) \in Seq(KeyCodes)
  OBVIOUS
<1>3. Taken(Holding(f, r \o p), b) = Holding(e, (r \o p) \o out)
  <2>1. \A q \in Seq(KeyCodes) : Taken(Holding(f, q), b) = Holding(e, q \o out)
    BY TakenIs
  <2>2. QED
    BY <1>2, <2>1
<1>4. Holding(Holding(e, p \o out), r \o (p \o out)) = Holding(e, r \o (p \o out))
  BY <1>2, HoldingTwice
<1>5. QED
  BY <1>1, <1>3, <1>4

(* One more byte leaves the keys in the ring before those of the bytes.    *)
LEMMA SplitsLast ==
    ASSUME NEW k \in KeyboardState, NEW in \in Seq(Bytes), NEW b \in Bytes,
           NEW f, Splits(k, in, f)
    PROVE  \E q : Splits(k, in \o <<b>>, q)
<1>1. f \in KeyboardState /\ f.ring \in Seq(KeyCodes)
  BY DEF Splits, KeyboardState
<1>2. PICK e, out : Yields(f, b, e, out)
  BY <1>1, HandleIs
<1>3. e \in KeyboardState /\ out \in Seq(KeyCodes)
  BY <1>2 DEF Yields
<1>4. PICK p \in Seq(KeyCodes) : p = f.ring
  BY <1>1
<1>5. p \o out \in Seq(KeyCodes)
  BY <1>3
<1> DEFINE q == Holding(e, p \o out)
<1>6. q \in KeyboardState /\ q.ring = p \o out
  BY <1>3, <1>5, HoldingIs
<1>7. ASSUME NEW r \in Seq(KeyCodes)
      PROVE  Handled(Holding(k, r), in \o <<b>>) = Holding(q, r \o q.ring)
  <2>1. Handled(Holding(k, r), in \o <<b>>) = Taken(Handled(Holding(k, r), in), b)
    <3>1. Holding(k, r) \in KeyboardState
      BY HoldingIs
    <3>2. QED
      BY <3>1, HandledLast
  <2>2. Handled(Holding(k, r), in) = Holding(f, r \o p)
    BY <1>4 DEF Splits
  <2>3. Taken(Holding(f, r \o p), b) = Holding(q, r \o (p \o out))
    BY <1>1, <1>2, <1>3, RingThenKeys
  <2> HIDE DEF q
  <2>4. QED
    BY <2>1, <2>2, <2>3, <1>6
<1> HIDE DEF q
<1>8. Splits(k, in \o <<b>>, q)
  BY <1>6, <1>7 DEF Splits
<1>9. QED
  BY <1>8

(* Whatever is in the ring stays before the keys of the bytes under way:   *)
(* the ring is first in, first out.                                        *)
LEMMA HandledRing ==
    ASSUME NEW k \in KeyboardState, NEW in \in Seq(Bytes)
    PROVE  \E f : Splits(k, in, f)
<1> DEFINE n == Len(in)
           S == {i \in 0 .. n : \E f : Splits(k, SubSeq(in, 1, i), f)}
<1>1. n \in Nat /\ SubSeq(in, 1, n) = in /\ SubSeq(in, 1, 0) = <<>>
  OBVIOUS
<1>2. ASSUME NEW i \in 1 .. n
      PROVE  /\ SubSeq(in, 1, i) = SubSeq(in, 1, i - 1) \o <<in[i]>>
             /\ SubSeq(in, 1, i - 1) \in Seq(Bytes) /\ in[i] \in Bytes
  OBVIOUS
<1>3. 0 \in S
  <2> DEFINE f == Holding(k, <<>>)
  <2>1. <<>> \in Seq(KeyCodes) /\ \A r \in Seq(KeyCodes) : r \o <<>> = r
    BY ShortSequences
  <2>2. f \in KeyboardState /\ f.ring = <<>>
    BY <2>1, HoldingIs
  <2>3. ASSUME NEW r \in Seq(KeyCodes)
        PROVE  Handled(Holding(k, r), <<>>) = Holding(f, r \o f.ring)
    <3>1. Handled(Holding(k, r), <<>>) = Holding(k, r)
      <4>1. Holding(k, r) \in KeyboardState
        BY HoldingIs
      <4>2. QED
        BY <4>1, HandledNone
    <3>2. r \o f.ring = r
      BY <2>1, <2>2
    <3>3. Holding(f, r) = Holding(k, r)
      BY <2>1, HoldingTwice
    <3>4. QED
      BY <3>1, <3>2, <3>3
  <2> HIDE DEF f
  <2>4. Splits(k, SubSeq(in, 1, 0), f)
    BY <1>1, <2>2, <2>3 DEF Splits
  <2>5. QED
    BY <1>1, <2>4
<1>4. ASSUME NEW i \in 1 .. n, i - 1 \in S PROVE i \in S
  <2>1. PICK f : Splits(k, SubSeq(in, 1, i - 1), f)
    BY <1>4
  <2>2. \E q : Splits(k, SubSeq(in, 1, i), q)
    BY <1>2, <2>1, SplitsLast
  <2>3. QED
    BY <2>2
<1> HIDE DEF S
<1>5. 0 .. n \subseteq S
  BY <1>1, <1>3, <1>4, RoundInduction
<1>6. n \in S
  BY <1>1, <1>5
<1>7. QED
  BY <1>1, <1>6 DEF S

-----------------------------------------------------------------------------
(* What one key's bytes do.                                                *)

(* What a byte does to the flags: a prefix sets the prefix flag, every     *)
(* other byte clears it, and only the shift key outside of a prefix moves  *)
(* the shift flag.                                                         *)
LEMMA TakenFlags ==
    ASSUME NEW k \in KeyboardState, NEW b \in Bytes
    PROVE  LET t == Taken(k, b)
           IN /\ t.e0 <=> b = E0
              /\ b = E0 => t.shift = k.shift /\ t.ring = k.ring
              /\ b # E0 /\ k.e0 => t.shift = k.shift
              /\ b # E0 /\ ~k.e0 =>
                    t.shift = IF b.key = "Shift" THEN ~b.released ELSE k.shift
<1> DEFINE h == Holding(k, <<>>)
           n == HandleScancode(h, b)
           t == [n EXCEPT !.ring = k.ring \o @]
<1>1. Taken(k, b) = t
  BY DEF Taken, Holding
<1>2. /\ h \in KeyboardState /\ h.shift = k.shift /\ h.e0 = k.e0 /\ h.ring = <<>>
      /\ k.ring \in Seq(KeyCodes) /\ k.ring \o <<>> = k.ring
  BY ShortSequences, HoldingIs, HoldingOwn
<1>3. b.key \in KeyNames \cup {"E0"} /\ b.released \in BOOLEAN
  BY DEF Bytes
<1> HIDE DEF h
<1>4. ASSUME NEW j \in KeyboardState, NEW c
      PROVE  /\ DOMAIN Push(j, c) = {"shift", "caps", "e0", "ring"}
             /\ Push(j, c).shift = j.shift /\ Push(j, c).e0 = j.e0
  BY DEF Push, KeyboardState
<1>5. CASE b = E0
  <2>1. n = [h EXCEPT !.e0 = TRUE]
    BY <1>5 DEF HandleScancode
  <2>2. t.shift = h.shift /\ t.e0 /\ t.ring = k.ring \o h.ring
    BY <1>2, <2>1 DEF KeyboardState
  <2>3. QED
    BY <1>1, <1>2, <1>5, <2>2
<1>6. CASE b # E0 /\ k.e0
  <2>1. n = AfterPrefix(h, b)
    BY <1>2, <1>6 DEF HandleScancode
  <2>2. /\ DOMAIN n = {"shift", "caps", "e0", "ring"}
        /\ n.shift = h.shift /\ n.e0 = FALSE
    <3> DEFINE plain == [h EXCEPT !.e0 = FALSE]
    <3>1. /\ plain \in KeyboardState /\ plain.shift = h.shift /\ plain.e0 = FALSE
          /\ DOMAIN plain = {"shift", "caps", "e0", "ring"}
      BY <1>2 DEF KeyboardState
    <3>2. n = IF ~b.released /\ b.key \in ExtendedKeys THEN Push(plain, b.key) ELSE plain
      BY <2>1 DEF AfterPrefix
    <3> HIDE DEF n, plain
    <3>3. QED
      BY <3>1, <3>2, <1>4
  <2> HIDE DEF n
  <2>3. t.shift = n.shift /\ t.e0 = n.e0
    BY <2>2
  <2>4. QED
    BY <1>1, <1>2, <1>6, <2>2, <2>3
<1>7. CASE b # E0 /\ ~k.e0
  <2>1. /\ DOMAIN n = {"shift", "caps", "e0", "ring"}
        /\ n.e0 = h.e0
        /\ n.shift = IF b.key = "Shift" THEN ~b.released ELSE h.shift
    <3>1. CASE b.key = "Shift"
      <4>1. n = [h EXCEPT !.shift = ~b.released]
        BY <1>2, <1>7, <3>1, PlainModifiers
      <4>2. QED
        BY <1>2, <3>1, <4>1 DEF KeyboardState
    <3>2. CASE b.key = "CapsLock"
      <4>1. n = [h EXCEPT !.caps = IF b.released THEN @ ELSE ~@]
        BY <1>2, <1>7, <3>2, PlainModifiers
      <4>2. QED
        BY <1>2, <3>2, <4>1 DEF KeyboardState
    <3>3. CASE b.key \notin Modifiers
      <4>1. n = IF b.key \in DOMAIN Shifted /\ ~b.released
                THEN Push(h, Translated(h, b.key)) ELSE h
        BY <1>2, <1>7, <3>3 DEF HandleScancode, Modifiers
      <4>2. h.shift = h.shift /\ DOMAIN h = {"shift", "caps", "e0", "ring"}
        BY <1>2 DEF KeyboardState
      <4> HIDE DEF n
      <4>3. QED
        BY <1>2, <1>4, <3>3, <4>1, <4>2 DEF Modifiers
    <3>4. QED
      BY <3>1, <3>2, <3>3 DEF Modifiers
  <2> HIDE DEF n
  <2>2. t.shift = n.shift /\ t.e0 = n.e0
    BY <2>1
  <2>3. QED
    BY <1>1, <1>2, <1>7, <2>1, <2>2
<1>8. QED
  BY <1>5, <1>6, <1>7

(* A byte yields no key, or one that goes behind those in the ring.        *)
LEMMA TakenRing ==
    ASSUME NEW k \in KeyboardState, NEW b \in Bytes
    PROVE  \/ Taken(k, b).ring = k.ring
           \/ \E c \in KeyCodes : Taken(k, b).ring = Append(k.ring, c)
<1>1. PICK f, out : Yields(k, b, f, out)
  BY HandleIs
<1>2. f \in KeyboardState /\ out \in Seq(KeyCodes) /\ Len(out) <= 1 /\ k.ring \in Seq(KeyCodes)
  BY <1>1 DEF Yields, KeyboardState
<1>3. Taken(k, b) = Holding(f, k.ring \o out)
  BY <1>1, <1>2, TakenIs
<1>4. Taken(k, b).ring = k.ring \o out
  <2>1. PICK r \in Seq(KeyCodes) : r = k.ring \o out
    BY <1>2, ConcatProperties
  <2>2. Holding(f, r).ring = r
    BY <1>2, HoldingIs
  <2>3. QED
    BY <1>3, <2>1, <2>2
<1>5. CASE out = <<>>
  <2>1. k.ring \o out = k.ring
    BY <1>2, <1>5, ShortSequences
  <2>2. QED
    BY <1>4, <2>1
<1>6. ASSUME NEW c \in KeyCodes, out = <<c>>
      PROVE  Taken(k, b).ring = Append(k.ring, c)
  <2>1. k.ring \o out = Append(k.ring, c)
    BY <1>2, <1>6, ShortSequences
  <2>2. QED
    BY <1>4, <2>1
<1>7. QED
  BY <1>2, <1>5, <1>6, AtMostOne

(* The bytes of a stroke: the code of the key, after a prefix if it is an  *)
(* extended one, and no key has the code of the prefix.                    *)
LEMMA StrokeBytes ==
    ASSUME NEW key \in KeyNames, NEW released \in BOOLEAN
    PROVE  LET b == Code(key, released)
           IN /\ b \in Bytes /\ E0 \in Bytes /\ b # E0
              /\ b.key = key /\ b.released = released
              /\ Strokes(key, released) \in Seq(Bytes)
<1> DEFINE b == Code(key, released)
<1>1. b \in Bytes /\ E0 \in Bytes /\ b # E0 /\ b.key = key /\ b.released = released
  <2>1. key # "E0"
    BY KeyNamesAssumption DEF KeyNames, Modifiers
  <2>2. QED
    BY <2>1 DEF Code, E0, Bytes
<1>2. <<E0>> \in Seq(Bytes) /\ <<b>> \in Seq(Bytes) /\ <<>> \in Seq(Bytes)
  BY <1>1, ShortSequences
<1> HIDE DEF b
<1>3. <<E0>> \o <<b>> \in Seq(Bytes) /\ <<>> \o <<b>> \in Seq(Bytes)
  BY <1>2, Regroup
<1>4. QED
  BY <1>1, <1>3 DEF b, Strokes

(* A stroke leaves no prefix behind, moves the shift flag with its key,    *)
(* and yields at most one key.                                             *)
AfterStroke(h, t, key, released) ==
    /\ t \in KeyboardState /\ ~t.e0
    /\ t.shift = IF key = "Shift" THEN ~released ELSE h.shift
    /\ t.ring = h.ring \/ \E c \in KeyCodes : t.ring = Append(h.ring, c)

(* Once its bytes have been handled a stroke has done what AfterStroke     *)
(* says, whatever is under way before it.                                  *)
LEMMA StrokeHandled ==
    ASSUME NEW k \in KeyboardState, NEW in \in Seq(Bytes),
           NEW key \in KeyNames, NEW released \in BOOLEAN,
           NEW s \in Seq(Bytes), s = Strokes(key, released),
           ~Handled(k, in).e0
    PROVE  AfterStroke(Handled(k, in), Handled(k, in \o s), key, released)
<1> DEFINE h == Handled(k, in)
           b == Code(key, released)
           g == Taken(h, E0)
<1>1. b \in Bytes /\ E0 \in Bytes /\ b # E0 /\ b.key = key /\ b.released = released
  BY StrokeBytes
<1>2. h \in KeyboardState /\ Taken(h, b) \in KeyboardState
  BY <1>1, HandledLast, TakenType
<1>3. Handled(k, in \o <<b>>) = Taken(h, b)
  BY <1>1, HandledLast
<1>4. <<b>> \in Seq(Bytes) /\ <<E0>> \in Seq(Bytes)
  BY <1>1, ShortSequences
<1>5. CASE key \notin ExtendedKeys
  <2>1. s = <<b>>
    BY <1>4, <1>5, ShortSequences DEF Strokes
  <2>2. Taken(h, b).shift = (IF key = "Shift" THEN ~released ELSE h.shift) /\ ~Taken(h, b).e0
    BY <1>1, <1>2, TakenFlags
  <2>3. Taken(h, b).ring = h.ring \/ \E c \in KeyCodes : Taken(h, b).ring = Append(h.ring, c)
    BY <1>1, <1>2, TakenRing
  <2> HIDE DEF h, b
  <2>4. QED
    BY <1>2, <1>3, <1>4, <2>1, <2>2, <2>3 DEF h, AfterStroke
<1>6. CASE key \in ExtendedKeys
  <2>1. s = <<E0>> \o <<b>>
    BY <1>6 DEF Strokes
  <2>2. <<E0>> \o <<b>> \in Seq(Bytes) /\ in \o (<<E0>> \o <<b>>) = (in \o <<E0>>) \o <<b>>
        /\ in \o <<E0>> \in Seq(Bytes)
    BY <1>4, ConcatProperties, ConcatAssociative
  <2>3. Handled(k, in \o <<E0>>) = g
    BY <1>1, HandledLast
  <2>4. Handled(k, (in \o <<E0>>) \o <<b>>) = Taken(g, b)
    <3>1. \A m \in Seq(Bytes) : Handled(k, m \o <<b>>) = Taken(Handled(k, m), b)
      BY <1>1, HandledLast
    <3> HIDE DEF b, g
    <3>2. QED
      BY <2>2, <2>3, <3>1
  <2>5. g \in KeyboardState /\ g.e0 /\ g.shift = h.shift /\ g.ring = h.ring
    BY <1>1, <1>2, TakenFlags, TakenType
  <2>6. key # "Shift"
    BY <1>6, KeyNamesAssumption DEF Modifiers
  <2>7. Taken(g, b) \in KeyboardState /\ ~Taken(g, b).e0 /\ Taken(g, b).shift = h.shift
    BY <1>1, <2>5, TakenFlags, TakenType
  <2>8. Taken(g, b).ring = h.ring \/ \E c \in KeyCodes : Taken(g, b).ring = Append(h.ring, c)
    BY <1>1, <2>5, TakenRing
  <2> HIDE DEF b, g, h
  <2>9. QED
    BY <2>1, <2>2, <2>4, <2>6, <2>7, <2>8 DEF h, AfterStroke
<1>7. QED
  BY <1>5, <1>6

-----------------------------------------------------------------------------
(* The keyboard's part of the specification.                               *)

UnderWay == port \o bytes
Emptied == Holding(kb, <<>>)

(* Once the bytes that are under way have been handled, the driver will    *)
(* know what the user holds down.                                          *)
FlagsFollow ==
    LET h == Handled(Emptied, UnderWay)
    IN (h.shift <=> "Shift" \in pressed) /\ ~h.e0

KeyboardInv ==
    /\ session \in Sessions
    /\ kb \in KeyboardState /\ Len(kb.ring) <= KEYBOARD_BUFFER_SIZE - 1
    /\ bytes \in Seq(Bytes)
    /\ port = <<>> \/ \E b \in Bytes : port = <<b>>
    /\ answer \in KeyCodes \cup {None} /\ (answer # None => reader = "none")
    /\ FlagsFollow

(* The steps of TypeAhead, for what it knows of the keyboard.              *)
AheadStep ==
    \/ UNCHANGED <<Coming, kb.ring, Answered>>
    \/ /\ \E c \in KeyCodes : Coming' = Append(Coming, c)
       /\ UNCHANGED <<kb.ring, Answered>>
    \/ /\ Coming # <<>> /\ Len(kb.ring) < KEYBOARD_BUFFER_SIZE - 1
       /\ kb.ring' = Append(kb.ring, Head(Coming)) /\ Coming' = Tail(Coming)
       /\ UNCHANGED Answered
    \/ /\ Coming # <<>> /\ Len(kb.ring) = KEYBOARD_BUFFER_SIZE - 1
       /\ Coming' = Tail(Coming)
       /\ UNCHANGED <<kb.ring, Answered>>
    \/ /\ Answered = <<>> /\ kb.ring # <<>>
       /\ Answered' = <<Head(kb.ring)>> /\ kb.ring' = Tail(kb.ring)
       /\ UNCHANGED Coming
    \/ Answered # <<>> /\ Answered' = <<>> /\ UNCHANGED <<Coming, kb.ring>>

(* AheadStep is a step of TypeAhead or a stutter.                          *)
LEMMA AheadStepIs ==
    ASSUME AheadStep
    PROVE  [Ahead!Next]_(Ahead!aheadVars)
BY DEF AheadStep, Ahead!Next, Ahead!Type, Ahead!Arrive, Ahead!Lose, Ahead!Answer, Ahead!Read,
       Ahead!aheadVars

(* What is under way is a sequence of bytes, and the keys that it stands   *)
(* for are what an empty ring would hold after it.                         *)
LEMMA UnderWayIs ==
    ASSUME KeyboardInv
    PROVE  /\ UnderWay \in Seq(Bytes) /\ Emptied \in KeyboardState
           /\ Coming = Handled(Emptied, UnderWay).ring
<1>1. PICK p \in Seq(Bytes), w \in Seq(Bytes) : p = port /\ w = bytes
  BY ShortSequences DEF KeyboardInv
<1>2. UnderWay \in Seq(Bytes)
  BY <1>1, Regroup DEF UnderWay
<1>3. Emptied \in KeyboardState
  BY HoldingIs, ShortSequences DEF KeyboardInv, Emptied
<1>4. QED
  BY <1>2, <1>3 DEF Coming, Emptied, Holding, UnderWay

(* What is under way and the flags of the driver are not changed: nor are  *)
(* the keys that are coming.                                               *)
LEMMA SameComing ==
    ASSUME KeyboardInv, UnderWay' = UnderWay, Emptied' = Emptied,
           UNCHANGED <<session, pressed>>, bytes' \in Seq(Bytes),
           port' = <<>> \/ \E b \in Bytes : port' = <<b>>,
           kb' \in KeyboardState, Len(kb'.ring) <= KEYBOARD_BUFFER_SIZE - 1,
           answer' \in KeyCodes \cup {None}, answer' # None => reader' = "none"
    PROVE  KeyboardInv' /\ Coming' = Coming
<1>1. Handled(Emptied, UnderWay)' = Handled(Emptied, UnderWay)
  OBVIOUS
<1>2. KeyboardInv'
  BY <1>1 DEF KeyboardInv, FlagsFollow
<1>3. Coming' = Coming
  BY <1>1 DEF Coming, UnderWay, Emptied, Holding
<1>4. QED
  BY <1>2, <1>3

(* A user's stroke, whatever is under way: it adds a key behind the coming *)
(* ones, or none.                                                          *)
LEMMA StrokeStep ==
    ASSUME KeyboardInv, NEW key \in KeyNames, NEW released \in BOOLEAN,
           bytes' = bytes \o Strokes(key, released),
           pressed' = IF released THEN pressed \ {key}
                      ELSE IF key \in Modifiers THEN pressed \cup {key} ELSE pressed,
           UNCHANGED <<session, port, irq, kb, draining, reader, answer>>
    PROVE  /\ KeyboardInv'
           /\ Coming' = Coming \/ \E c \in KeyCodes : Coming' = Append(Coming, c)
<1>1. PICK p \in Seq(Bytes), w \in Seq(Bytes) : p = port /\ w = bytes
  BY ShortSequences DEF KeyboardInv
<1>2. PICK in \in Seq(Bytes) : in = p \o w
  BY Regroup
<1>3. UnderWay = in
  BY <1>1, <1>2 DEF UnderWay
<1>4. PICK k \in KeyboardState : k = Emptied /\ Coming = Handled(k, in).ring
  BY <1>3, UnderWayIs
<1> DEFINE h == Handled(k, in)
<1>5. (h.shift <=> "Shift" \in pressed) /\ ~h.e0
  BY <1>3, <1>4 DEF KeyboardInv, FlagsFollow
<1>6. PICK s \in Seq(Bytes) : s = Strokes(key, released)
  BY StrokeBytes
<1> DEFINE t == Handled(k, in \o s)
<1>7. AfterStroke(h, t, key, released)
  BY <1>5, <1>6, StrokeHandled
<1>8. UnderWay' = in \o s /\ bytes' \in Seq(Bytes) /\ Emptied' = k
  BY <1>1, <1>2, <1>4, <1>6, Regroup DEF UnderWay, Emptied
<1> HIDE DEF h, t
<1>9. Handled(Emptied, UnderWay)' = t
  BY <1>8 DEF t
<1>10. "Shift" \in pressed' <=> IF key = "Shift" THEN ~released ELSE "Shift" \in pressed
  BY DEF Modifiers
<1>11. FlagsFollow'
  BY <1>5, <1>7, <1>9, <1>10 DEF FlagsFollow, AfterStroke
<1>12. KeyboardInv'
  BY <1>8, <1>11 DEF KeyboardInv
<1>13. Coming' = t.ring
  BY <1>9 DEF Coming, Emptied, Holding, UnderWay
<1>14. QED
  BY <1>4, <1>7, <1>12, <1>13 DEF h, AfterStroke

(* What the driver makes of the first of the coming keys, if the byte is   *)
(* the one that stands for it.                                             *)
Arrival(old, new, r, rr) ==
    /\ old # <<>> /\ new = Tail(old)
    /\ rr = IF Len(r) = KEYBOARD_BUFFER_SIZE - 1 THEN r ELSE Append(r, Head(old))

(* The driver handles the byte in the controller: the key that it yields   *)
(* goes into the ring, or is lost if the ring is full.                     *)
LEMMA DrainStep ==
    ASSUME NEW k \in KeyboardState, Len(k.ring) <= KEYBOARD_BUFFER_SIZE - 1,
           NEW b \in Bytes, NEW in \in Seq(Bytes)
    PROVE  LET n == HandleScancode(k, b)
               old == Handled(Holding(k, <<>>), <<b>> \o in)
               new == Handled(Holding(n, <<>>), in)
           IN /\ n \in KeyboardState /\ Len(n.ring) <= KEYBOARD_BUFFER_SIZE - 1
              /\ new.shift = old.shift /\ new.e0 = old.e0
              /\ \/ new.ring = old.ring /\ n.ring = k.ring
                 \/ Arrival(old.ring, new.ring, k.ring, n.ring)
<1>1. PICK e, out : Yields(k, b, e, out)
  BY HandleIs
<1>2. e \in KeyboardState /\ out \in Seq(KeyCodes) /\ Len(out) <= 1
  BY <1>1 DEF Yields
<1>3. PICK r \in Seq(KeyCodes) : r = k.ring /\ Holding(k, r) = k
  BY HoldingOwn
<1>4. HandleScancode(k, b) = Holding(e, Put(r, out))
  BY <1>1, <1>3 DEF Yields
<1>5. Put(r, out) \in Seq(KeyCodes) /\ <<>> \in Seq(KeyCodes)
  BY <1>2, ShortSequences, ConcatProperties DEF Put
<1>6. PICK q \in Seq(KeyCodes), z \in Seq(KeyCodes) : q = Put(r, out) /\ z = <<>>
  BY <1>5
<1>7. /\ Holding(k, <<>>) \in KeyboardState
      /\ Taken(Holding(k, <<>>), b) = Holding(e, out)
  <2>1. Taken(Holding(k, z), b) = Holding(e, z \o out)
    <3>1. \A m \in Seq(KeyCodes) : Taken(Holding(k, m), b) = Holding(e, m \o out)
      BY <1>1, <1>2, TakenIs
    <3>2. QED
      BY <3>1
  <2>2. z \o out = out
    BY <1>2, <1>6, ShortSequences
  <2>3. Holding(k, z) \in KeyboardState
    BY HoldingIs
  <2>4. QED
    BY <1>6, <2>1, <2>2, <2>3
<1>8. Holding(HandleScancode(k, b), <<>>) = Holding(e, <<>>)
  <2>1. Holding(Holding(e, q), z) = Holding(e, z)
    BY <1>2, HoldingTwice
  <2>2. QED
    BY <1>4, <1>6, <2>1
<1>9. PICK f : Splits(e, in, f)
  BY <1>2, HandledRing
<1>10. /\ f \in KeyboardState
       /\ \A m \in Seq(KeyCodes) : Handled(Holding(e, m), in) = Holding(f, m \o f.ring)
  BY <1>9 DEF Splits
<1>11. PICK p \in Seq(KeyCodes) : p = f.ring
  BY <1>10, HoldingOwn
<1> DEFINE n == HandleScancode(k, b)
           old == Handled(Holding(k, <<>>), <<b>> \o in)
           new == Handled(Holding(n, <<>>), in)
<1>12. old = Holding(f, out \o p)
  BY <1>2, <1>7, <1>10, <1>11, HandledFirst
<1>13. new = Holding(f, <<>> \o p)
  BY <1>5, <1>8, <1>10, <1>11
<1>14. n \in KeyboardState /\ n.ring = Put(r, out)
  <2>1. Holding(e, q) \in KeyboardState /\ Holding(e, q).ring = q
    BY <1>2, HoldingIs
  <2>2. QED
    BY <1>4, <1>6, <2>1
<1> HIDE DEF old, new, n
<1>15. <<>> \o p = p /\ out \o p \in Seq(KeyCodes)
  BY <1>2, <1>11, ShortSequences, ConcatProperties
<1>16. /\ old.ring = out \o p /\ new.ring = p
       /\ new.shift = old.shift /\ new.e0 = old.e0
  <2>1. \A m \in Seq(KeyCodes) : /\ Holding(f, m).ring = m
                                 /\ Holding(f, m).shift = f.shift /\ Holding(f, m).e0 = f.e0
    BY <1>10, HoldingIs
  <2>2. QED
    BY <2>1, <1>11, <1>12, <1>13, <1>15
<1>17. CASE out = <<>>
  <2>1. old.ring = p /\ Put(r, out) = r
    BY <1>11, <1>16, <1>17, ShortSequences DEF Put
  <2>2. QED
    BY <1>3, <1>14, <1>16, <2>1 DEF old, new, n
<1>18. ASSUME NEW c \in KeyCodes, out = <<c>>
       PROVE  /\ Len(Put(r, out)) <= KEYBOARD_BUFFER_SIZE - 1
              /\ Arrival(out \o p, p, r, Put(r, out))
  <2>1. /\ <<c>> \o p # <<>> /\ Head(<<c>> \o p) = c /\ Tail(<<c>> \o p) = p
        /\ r \o <<c>> = Append(r, c) /\ Len(Append(r, c)) = Len(r) + 1
    BY <1>3, <1>11
  <2>2. PICK l \in Nat : l = Len(r)
    BY <1>3
  <2>3. CASE l = KEYBOARD_BUFFER_SIZE - 1
    BY <1>18, <2>1, <2>2, <2>3, KeyboardAssumption DEF Put, Arrival
  <2>4. CASE l # KEYBOARD_BUFFER_SIZE - 1
    <3>1. l + 1 <= KEYBOARD_BUFFER_SIZE - 1
      BY <1>3, <2>2, <2>4, KeyboardAssumption
    <3>2. Put(r, out) = Append(r, c)
      BY <1>18, <2>1, <2>2, <2>4 DEF Put
    <3>3. Arrival(out \o p, p, r, Put(r, out))
      BY <1>18, <2>1, <2>2, <2>4, <3>2 DEF Arrival
    <3>4. QED
      BY <2>1, <2>2, <3>1, <3>2, <3>3
  <2>5. QED
    BY <2>3, <2>4
<1>19. CASE \E c \in KeyCodes : out = <<c>>
  <2>1. Len(n.ring) <= KEYBOARD_BUFFER_SIZE - 1 /\ Arrival(old.ring, new.ring, k.ring, n.ring)
    BY <1>3, <1>14, <1>16, <1>18, <1>19
  <2>2. QED
    BY <1>14, <1>16, <2>1 DEF old, new, n
<1>20. QED
  BY <1>2, <1>17, <1>19, AtMostOne

(* At the start nothing is pressed or under way.                           *)
LEMMA KeyboardInvInit == Init => KeyboardInv
<1> SUFFICES ASSUME Init PROVE KeyboardInv
  OBVIOUS
<1>1. /\ session \in Sessions /\ pressed = {} /\ bytes = <<>> /\ port = <<>>
      /\ kb = [shift |-> FALSE, caps |-> FALSE, e0 |-> FALSE, ring |-> <<>>]
      /\ reader = "sent" /\ answer = None
  BY DEF Init, KeyboardInit
<1>2. kb \in KeyboardState /\ bytes \in Seq(Bytes) /\ UnderWay = <<>>
  BY <1>1, ShortSequences DEF KeyboardState, UnderWay
<1>3. Emptied = kb /\ Handled(Emptied, UnderWay) = kb /\ Len(kb.ring) = 0
  BY <1>1, <1>2, HandledNone DEF Emptied, Holding
<1>4. FlagsFollow
  BY <1>1, <1>3 DEF FlagsFollow
<1>5. QED
  BY <1>1, <1>2, <1>3, <1>4, KeyboardAssumption DEF KeyboardInv

(* The user presses and releases keys of the keyboard only.                *)
LEMMA SessionKeys ==
    ASSUME KeyboardInv
    PROVE  session.keys \subseteq KeyNames /\ session.releases \subseteq KeyNames
BY KeyboardAssumption DEF KeyboardInv, KeyNames, Modifiers

(* The first key in the ring, and those behind it. *)
LEMMA RingParts ==
    ASSUME NEW k \in KeyboardState, k.ring # <<>>
    PROVE  /\ Head(k.ring) \in KeyCodes /\ Tail(k.ring) \in Seq(KeyCodes)
           /\ Len(Tail(k.ring)) <= Len(k.ring)
<1>1. k.ring \in Seq(KeyCodes)
  BY HoldingOwn
<1>2. QED
  BY <1>1

(* The reply takes the first key out of the ring.                          *)
LEMMA ReplyStep ==
    ASSUME KeyboardInv, kb.ring # <<>>, Reply, answer = None,
           UNCHANGED <<session, pressed, bytes, port>>
    PROVE  KeyboardInv' /\ AheadStep
<1>1. PICK c \in KeyCodes, r \in Seq(KeyCodes) :
         c = Head(kb.ring) /\ r = Tail(kb.ring) /\ Len(r) <= Len(kb.ring)
  BY RingParts DEF KeyboardInv
<1>2. kb' = Holding(kb, r) /\ answer' = c /\ reader' = "none"
  BY <1>1 DEF Reply, Holding
<1>3. kb' \in KeyboardState /\ kb'.ring = r
  BY <1>2, HoldingIs DEF KeyboardInv
<1>4. Emptied' = Emptied /\ UnderWay' = UnderWay
  BY <1>2, HoldingTwice, ShortSequences DEF Emptied, UnderWay, KeyboardInv
<1>5. Len(kb'.ring) <= KEYBOARD_BUFFER_SIZE - 1
  <2>1. Len(r) \in Nat /\ Len(kb.ring) \in Nat
    BY HoldingOwn DEF KeyboardInv
  <2>2. QED
    BY <1>1, <1>3, <2>1, KeyboardAssumption DEF KeyboardInv
<1>6. KeyboardInv' /\ Coming' = Coming
  BY <1>2, <1>3, <1>4, <1>5, SameComing DEF KeyboardInv
<1>7. Answered = <<>> /\ Answered' = <<c>>
  BY <1>2, KeyNamesAssumption DEF Answered
<1>8. QED
  BY <1>1, <1>3, <1>6, <1>7 DEF AheadStep

(* Press and Release keep the invariant; to TypeAhead they are a key       *)
(* typed, or nothing.                                                      *)
LEMMA UserStep ==
    ASSUME KeyboardInv, User
    PROVE  KeyboardInv' /\ AheadStep
<1>1. PICK key \in KeyNames, released \in BOOLEAN :
         /\ bytes' = bytes \o Strokes(key, released)
         /\ pressed' = IF released THEN pressed \ {key}
                       ELSE IF key \in Modifiers THEN pressed \cup {key} ELSE pressed
         /\ UNCHANGED <<session, port, irq, kb, draining, reader, answer>>
  <2>1. CASE \E key \in session.keys : Press(key)
    <3>1. PICK key \in session.keys : Press(key)
      BY <2>1
    <3>2. key \in KeyNames
      BY SessionKeys
    <3>3. /\ bytes' = bytes \o Strokes(key, FALSE)
          /\ pressed' = IF key \in Modifiers THEN pressed \cup {key} ELSE pressed
          /\ UNCHANGED <<session, port, irq, kb, draining, reader, answer>>
      BY <3>1 DEF Press, Send
    <3>4. QED
      BY <3>2, <3>3
  <2>2. CASE \E key \in session.releases : Release(key)
    <3>1. PICK key \in session.releases : Release(key)
      BY <2>2
    <3>2. key \in KeyNames
      BY SessionKeys
    <3>3. /\ bytes' = bytes \o Strokes(key, TRUE)
          /\ pressed' = pressed \ {key}
          /\ UNCHANGED <<session, port, irq, kb, draining, reader, answer>>
      BY <3>1 DEF Release, Send
    <3>4. QED
      BY <3>2, <3>3
  <2>3. QED
    BY <2>1, <2>2 DEF User
<1>2. /\ KeyboardInv'
      /\ Coming' = Coming \/ \E c \in KeyCodes : Coming' = Append(Coming, c)
  BY <1>1, StrokeStep
<1>3. kb.ring' = kb.ring /\ Answered' = Answered
  BY <1>1 DEF Answered
<1>4. QED
  BY <1>2, <1>3 DEF AheadStep

(* A byte handled by the drain loop keeps the invariant; to TypeAhead it   *)
(* is nothing, a key that arrives or one that is lost.                     *)
LEMMA DrainByteStep ==
    ASSUME KeyboardInv, DrainByte
    PROVE  KeyboardInv' /\ AheadStep
<1>1. PICK b \in Bytes : port = <<b>>
  BY DEF KeyboardInv, DrainByte
<1>2. PICK in \in Seq(Bytes) : in = bytes
  BY DEF KeyboardInv
<1>3. /\ kb' = HandleScancode(kb, b) /\ port' = <<>> /\ bytes' = in
      /\ UNCHANGED <<session, pressed, reader, answer>>
  BY <1>1, <1>2 DEF DrainByte
<1>4. UnderWay = <<b>> \o in /\ UnderWay' = in
  BY <1>1, <1>2, <1>3, ShortSequences DEF UnderWay
<1> DEFINE old == Handled(Emptied, <<b>> \o in)
           new == Handled(Emptied', in)
<1>5. /\ kb' \in KeyboardState /\ Len(kb'.ring) <= KEYBOARD_BUFFER_SIZE - 1
      /\ new.shift = old.shift /\ new.e0 = old.e0
      /\ \/ new.ring = old.ring /\ kb'.ring = kb.ring
         \/ Arrival(old.ring, new.ring, kb.ring, kb'.ring)
  BY <1>3, DrainStep DEF KeyboardInv, Emptied
<1>6. Handled(Emptied, UnderWay) = old /\ Handled(Emptied, UnderWay)' = new
  BY <1>4
<1> HIDE DEF old, new
<1>7. KeyboardInv'
  <2>1. FlagsFollow'
    BY <1>3, <1>5, <1>6 DEF FlagsFollow, KeyboardInv
  <2>2. QED
    BY <1>2, <1>3, <1>5, <2>1 DEF KeyboardInv
<1>8. Coming = old.ring /\ Coming' = new.ring
  BY <1>6 DEF Coming, Emptied, Holding, UnderWay
<1>9. Answered' = Answered
  BY <1>3 DEF Answered
<1>10. CASE new.ring = old.ring /\ kb'.ring = kb.ring
  BY <1>7, <1>8, <1>9, <1>10 DEF AheadStep
<1>11. CASE Arrival(old.ring, new.ring, kb.ring, kb'.ring)
  <2>1. PICK l \in Nat : l = Len(kb.ring) /\ l <= KEYBOARD_BUFFER_SIZE - 1
    BY HoldingOwn DEF KeyboardInv
  <2>2. l = KEYBOARD_BUFFER_SIZE - 1 \/ l < KEYBOARD_BUFFER_SIZE - 1
    BY <2>1, KeyboardAssumption
  <2>3. l < KEYBOARD_BUFFER_SIZE - 1 => l # KEYBOARD_BUFFER_SIZE - 1
    BY <2>1, KeyboardAssumption
  <2>4. QED
    BY <1>7, <1>8, <1>9, <1>11, <2>1, <2>2, <2>3 DEF AheadStep, Arrival
<1>12. QED
  BY <1>5, <1>10, <1>11

(* The steps of the controller and the driver keep the invariant; to       *)
(* TypeAhead they are nothing, a key that arrives or is lost, or a reply.  *)
LEMMA DriverStep ==
    ASSUME KeyboardInv, Driver
    PROVE  KeyboardInv' /\ AheadStep
<1>1. ASSUME UnderWay' = UnderWay, bytes' \in Seq(Bytes),
             port' = <<>> \/ \E b \in Bytes : port' = <<b>>,
             UNCHANGED <<session, pressed, kb, answer>>, answer # None => reader' = reader
      PROVE  KeyboardInv' /\ AheadStep
  <2>1. Emptied' = Emptied /\ Answered' = Answered /\ kb.ring' = kb.ring
    BY <1>1 DEF Emptied, Answered
  <2>2. KeyboardInv' /\ Coming' = Coming
    BY <1>1, <2>1, SameComing DEF KeyboardInv
  <2>3. QED
    BY <2>1, <2>2 DEF AheadStep
<1>2. CASE ByteArrives
  <2>1. PICK b \in Bytes, w \in Seq(Bytes) : bytes = <<b>> \o w /\ port' = <<b>> /\ bytes' = w
    <3>1. PICK u \in Seq(Bytes) : u = bytes /\ u # <<>>
      BY <1>2 DEF KeyboardInv, ByteArrives
    <3>2. Head(u) \in Bytes /\ Tail(u) \in Seq(Bytes) /\ u = <<Head(u)>> \o Tail(u)
      BY <3>1
    <3>3. QED
      BY <1>2, <3>1, <3>2 DEF ByteArrives
  <2>2. UnderWay' = UnderWay
    <3>1. <<>> \o (<<b>> \o w) = <<b>> \o w
      OBVIOUS
    <3>2. QED
      BY <1>2, <2>1, <3>1 DEF UnderWay, ByteArrives
  <2>3. QED
    BY <1>1, <1>2, <2>1, <2>2 DEF ByteArrives
<1>3. CASE ReceiveIrq
  <2>1. UNCHANGED <<session, pressed, bytes, port, kb, reader, answer>>
    BY <1>3 DEF ReceiveIrq
  <2>2. QED
    BY <1>1, <2>1 DEF KeyboardInv, UnderWay
<1>4. CASE DrainByte
  BY <1>4, DrainByteStep
<1>5. ASSUME UNCHANGED <<session, pressed, bytes, port>>, reader # "none",
             (kb.ring # <<>> /\ Reply) \/ UNCHANGED <<kb, answer>>
      PROVE  KeyboardInv' /\ AheadStep
  <2>1. answer = None
    BY <1>5 DEF KeyboardInv
  <2>2. CASE kb.ring # <<>> /\ Reply
    BY <1>5, <2>1, <2>2, ReplyStep
  <2>3. CASE UNCHANGED <<kb, answer>>
    BY <1>1, <1>5, <2>1, <2>3 DEF KeyboardInv, UnderWay
  <2>4. QED
    BY <1>5, <2>2, <2>3
<1>6. CASE DrainEnds
  <2>1. UNCHANGED <<session, pressed, bytes, port>> /\ Wake
    BY <1>6 DEF DrainEnds
  <2>2. CASE reader = "pending" /\ kb.ring # <<>>
    BY <1>5, <2>1, <2>2 DEF Wake
  <2>3. CASE ~(reader = "pending" /\ kb.ring # <<>>)
    <3>1. UNCHANGED <<kb, answer, reader>>
      BY <2>1, <2>3 DEF Wake
    <3>2. QED
      BY <1>1, <2>1, <3>1 DEF KeyboardInv, UnderWay
  <2>4. QED
    BY <2>2, <2>3
<1>7. CASE ReceiveRead
  <2>1. /\ UNCHANGED <<session, pressed, bytes, port>> /\ reader = "sent"
        /\ (kb.ring # <<>> /\ Reply) \/ UNCHANGED <<kb, answer>>
    BY <1>7 DEF ReceiveRead, AnswerOrHold
  <2>2. QED
    BY <1>5, <2>1
<1>8. QED
  BY <1>2, <1>3, <1>4, <1>6, <1>7 DEF Driver

(* The shell takes the reply: to TypeAhead, the key is read.               *)
LEMMA TakeKeyStep ==
    ASSUME KeyboardInv, TakeKey
    PROVE  KeyboardInv' /\ AheadStep
<1>1. /\ answer # None /\ answer' = None
      /\ UNCHANGED <<session, pressed, bytes, port, irq, kb, draining>>
  BY DEF TakeKey
<1>2. UnderWay' = UnderWay /\ Emptied' = Emptied
  BY <1>1 DEF UnderWay, Emptied
<1>3. KeyboardInv' /\ Coming' = Coming
  BY <1>1, <1>2, SameComing DEF KeyboardInv
<1>4. Answered = <<answer>> /\ Answered' = <<>>
  BY <1>1 DEF Answered
<1>5. <<answer>> # <<>>
  OBVIOUS
<1>6. QED
  BY <1>1, <1>3, <1>4, <1>5 DEF AheadStep

(* Every step keeps the invariant and is a step of TypeAhead or a stutter. *)
LEMMA KeyboardStep ==
    ASSUME KeyboardInv, [Next]_vars
    PROVE  KeyboardInv' /\ AheadStep
<1>1. CASE UNCHANGED vars
  <2>1. UNCHANGED keyboardVars
    BY <1>1 DEF vars
  <2>2. UNCHANGED <<session, pressed, bytes, port, kb, reader, answer>>
    BY <2>1 DEF keyboardVars
  <2>3. UnderWay' = UnderWay /\ Emptied' = Emptied /\ Answered' = Answered
    BY <2>2 DEF UnderWay, Emptied, Answered
  <2>4. KeyboardInv' /\ Coming' = Coming
    BY <2>2, <2>3, SameComing DEF KeyboardInv
  <2>5. QED
    BY <2>2, <2>3, <2>4 DEF AheadStep
<1>2. CASE Next
  BY <1>2, UserStep, DriverStep, TakeKeyStep DEF Next, ShellKey
<1>3. QED
  BY <1>1, <1>2

(* The driver's flags match what the user holds down.                      *)
THEOREM SpecModifiersMatch == Spec => []ModifiersMatch
<1>1. Init => KeyboardInv
  BY KeyboardInvInit
<1>2. KeyboardInv /\ [Next]_vars => KeyboardInv'
  BY KeyboardStep
<1>3. KeyboardInv => ModifiersMatch
  <2> SUFFICES ASSUME KeyboardInv, bytes = <<>>, port = <<>>
               PROVE  (kb.shift <=> "Shift" \in pressed) /\ ~kb.e0
    BY DEF ModifiersMatch
  <2>1. UnderWay = <<>> /\ Emptied \in KeyboardState
    BY ShortSequences, UnderWayIs DEF UnderWay
  <2>2. Handled(Emptied, UnderWay) = Emptied
    BY <2>1, HandledNone
  <2>3. Emptied.shift = kb.shift /\ Emptied.e0 = kb.e0
    BY HoldingIs, ShortSequences DEF Emptied, KeyboardInv
  <2>4. QED
    BY <2>2, <2>3 DEF KeyboardInv, FlagsFollow
<1>4. QED
  BY <1>1, <1>2, <1>3, PTL DEF Spec

(* ImplementsTypeAhead: keys reach the shell in the order in which they    *)
(* were typed, each once, and none is lost but one that arrives at a full  *)
(* ring, for every size of the ring and every keyboard.                    *)
THEOREM SpecImplementsTypeAhead == Spec => ImplementsTypeAhead
<1>1. Init => KeyboardInv /\ Ahead!Init
  <2> SUFFICES ASSUME Init PROVE Ahead!Init
    BY KeyboardInvInit
  <2>1. /\ kb = [shift |-> FALSE, caps |-> FALSE, e0 |-> FALSE, ring |-> <<>>]
        /\ bytes = <<>> /\ port = <<>> /\ answer = None
    BY DEF Init, KeyboardInit
  <2>2. /\ UnderWay = <<>> /\ Emptied = kb /\ kb.ring = <<>>
        /\ kb \in KeyboardState
    BY <2>1, ShortSequences DEF UnderWay, Emptied, Holding, KeyboardState
  <2>3. Coming = <<>>
    BY <2>2, HandledNone DEF Coming, UnderWay, Emptied, Holding
  <2>4. QED
    BY <2>1, <2>2, <2>3 DEF Ahead!Init, Answered
<1>2. KeyboardInv /\ [Next]_vars => KeyboardInv' /\ [Ahead!Next]_(Ahead!aheadVars)
  BY KeyboardStep, AheadStepIs
<1>3. QED
  BY <1>1, <1>2, PTL DEF Spec, ImplementsTypeAhead, Ahead!Spec

-----------------------------------------------------------------------------
(* The screen.                                                             *)

(* The characters that are ever put on the screen. *)
Glyphs == {" ", "$", "w", LF, BS} \cup Printable \cup UNION {Range(out) : out \in Outputs}

(* The characters that the shell itself writes are among them.             *)
LEMMA GlyphsHave == {" ", "$", "w", LF, BS} \subseteq Glyphs
BY DEF Glyphs

(* Lines and columns, and lines in a ring. *)
Lines == 0 .. Rows - 1
Columns == 0 .. Cols - 1

(* The remainder of a sum of which one part is below N.                    *)
LEMMA RingAdd ==
    ASSUME NEW N \in Nat \ {0}, NEW a \in 0 .. N - 1, NEW b \in 0 .. N
    PROVE  (a + b) % N = IF a + b < N THEN a + b ELSE a + b - N
<1>1. /\ (a + b) \div N \in Nat /\ (a + b) % N \in 0 .. N - 1
      /\ a + b = N * ((a + b) \div N) + ((a + b) % N)
  <2>1. PICK c \in Nat : c = a + b
    OBVIOUS
  <2>2. QED
    BY <2>1, DivMod
<1>2. ASSUME NEW q \in Nat, NEW r \in 0 .. N - 1, a + b = N * q + r
      PROVE  r = IF a + b < N THEN a + b ELSE a + b - N
  <2>1. CASE q = 0
    BY <1>2, <2>1
  <2>2. CASE q = 1
    BY <1>2, <2>2
  <2>3. CASE q >= 2
    <3>1. PICK d \in Nat : q = 2 + d
      BY <2>3
    <3>2. N * q = 2 * N + N * d /\ N * d \in Nat
      BY <3>1
    <3>3. QED
      BY <1>2, <3>2
  <2>4. QED
    BY <2>1, <2>2, <2>3
<1>3. QED
  BY <1>1, <1>2

(* The remainder of a difference of two numbers below N.                   *)
LEMMA RingSub ==
    ASSUME NEW N \in Nat \ {0}, NEW a \in 0 .. N - 1, NEW b \in 0 .. N - 1
    PROVE  (a - b) % N = IF a >= b THEN a - b ELSE a - b + N
<1>1. /\ (a - b) \div N \in Int /\ (a - b) % N \in 0 .. N - 1
      /\ a - b = N * ((a - b) \div N) + ((a - b) % N)
  OBVIOUS
<1>2. ASSUME NEW q \in Int, NEW r \in 0 .. N - 1, a - b = N * q + r
      PROVE  r = IF a >= b THEN a - b ELSE a - b + N
  <2>1. CASE q = 0
    BY <1>2, <2>1
  <2>2. CASE q = 0 - 1
    BY <1>2, <2>2
  <2>3. CASE q >= 1
    <3>1. PICK d \in Nat : q = 1 + d
      BY <2>3
    <3>2. N * q = N + N * d /\ N * d \in Nat
      BY <3>1
    <3>3. QED
      BY <1>2, <3>2
  <2>4. CASE q <= 0 - 2
    <3>1. PICK d \in Nat : q = 0 - 2 - d
      BY <2>4
    <3>2. N * q = 0 - 2 * N - N * d /\ N * d \in Nat
      BY <3>1
    <3>3. QED
      BY <1>2, <3>2
  <2>5. QED
    BY <2>1, <2>2, <2>3, <2>4
<1>3. QED
  BY <1>1, <1>2

(* Where a line of the screen is in the ring.                              *)
InRing(row, offset) == IF row + offset < Rows THEN row + offset ELSE row + offset - Rows

(* wrapped(): the line of the ring that shows a line of the screen.        *)
LEMMA RingIs ==
    ASSUME NEW row \in Lines, NEW offset \in Lines
    PROVE  /\ (row + offset) % Rows = InRing(row, offset)
           /\ InRing(row, offset) \in Lines
<1>1. (row + offset) % Rows = InRing(row, offset)
  <2>1. Rows \in Nat \ {0} /\ row \in 0 .. Rows - 1 /\ offset \in 0 .. Rows
    BY ScreenAssumption DEF Lines
  <2>2. (row + offset) % Rows = IF row + offset < Rows THEN row + offset ELSE row + offset - Rows
    BY <2>1, RingAdd
  <2>3. QED
    BY <2>2 DEF InRing
<1>2. InRing(row, offset) \in Lines
  BY ScreenAssumption DEF InRing, Lines
<1>3. QED
  BY <1>1, <1>2

(* Different lines of the screen are different lines of the ring.          *)
LEMMA RingApart ==
    ASSUME NEW row \in Lines, NEW other \in Lines, NEW offset \in Lines,
           InRing(row, offset) = InRing(other, offset)
    PROVE  row = other
BY ScreenAssumption DEF InRing, Lines

Grid == [Lines -> [Columns -> Glyphs]]
Drawn == [ch : Glyphs, inverted : BOOLEAN]
Picture == [Lines -> [Columns -> Drawn]]
Screens == [x : Columns, y : Lines, pendingScroll : Nat, cells : Grid,
            data : Picture, offset : Lines, dirty : BOOLEAN, front : Picture]

(* The back buffer holds what the terminal has in a cell.                  *)
SyncedAt(s, row, col) ==
    s.data[InRing(row, s.offset)][col] = [ch |-> s.cells[row][col], inverted |-> FALSE]
Synced(s) == \A row \in Lines, col \in Columns : SyncedAt(s, row, col)
Ready(s) == s \in Screens /\ Synced(s)
(* All but the cell under the cursor, and no scroll is owed. *)
NearlyReady(s) ==
    /\ s \in Screens /\ s.pendingScroll = 0
    /\ \A row \in Lines, col \in Columns :
          SyncedAt(s, row, col) \/ (row = s.y /\ col = s.x)

(* What the terminal's cells will be when it has scrolled.                 *)
Seen(s) == CellsUp(s.cells, s.pendingScroll)

(* The terminal moves its cells up by n lines and blanks those that come   *)
(* free, all of them when n is the height of the screen or more.           *)
LEMMA CellsUpIs ==
    ASSUME NEW g \in Grid, NEW n \in Nat
    PROVE  /\ CellsUp(g, n) \in Grid
           /\ \A row \in Lines, col \in Columns :
                 CellsUp(g, n)[row][col] = IF row + n < Rows THEN g[row + n][col] ELSE " "
           /\ n = 0 => CellsUp(g, n) = g
<1> DEFINE u == CellsUp(g, n)
<1>1. u = [row \in Lines |-> IF row + n < Rows THEN g[row + n] ELSE [col \in Columns |-> " "]]
  BY DEF CellsUp, Lines, Columns
<1>2. ASSUME NEW row \in Lines
      PROVE  (IF row + n < Rows THEN g[row + n] ELSE [col \in Columns |-> " "])
                \in [Columns -> Glyphs]
  <2>1. row + n < Rows => row + n \in Lines
    BY ScreenAssumption DEF Lines
  <2>2. [col \in Columns |-> " "] \in [Columns -> Glyphs]
    BY GlyphsHave
  <2>3. QED
    BY <2>1, <2>2 DEF Grid
<1> HIDE DEF u
<1>3. u \in Grid
  BY <1>1, <1>2 DEF Grid
<1>4. \A row \in Lines, col \in Columns :
         u[row][col] = IF row + n < Rows THEN g[row + n][col] ELSE " "
  BY <1>1
<1>5. n = 0 => u = g
  <2>1. ASSUME n = 0, NEW row \in Lines PROVE u[row] = g[row]
    <3>1. row + n = row /\ row < Rows
      BY <2>1, ScreenAssumption DEF Lines
    <3>2. QED
      BY <1>1, <3>1
  <2>2. QED
    BY <1>3, <2>1 DEF Grid
<1>6. QED
  BY <1>3, <1>4, <1>5 DEF u

(* Seen, cell by cell; without a scroll that is owed it is the cells.      *)
LEMMA SeenIs ==
    ASSUME NEW s \in Screens
    PROVE  /\ Seen(s) \in Grid
           /\ \A row \in Lines, col \in Columns :
                 Seen(s)[row][col] = IF row + s.pendingScroll < Rows
                                     THEN s.cells[row + s.pendingScroll][col] ELSE " "
           /\ s.pendingScroll = 0 => Seen(s) = s.cells
<1>1. PICK g \in Grid, n \in Nat : g = s.cells /\ n = s.pendingScroll
  BY DEF Screens
<1>2. QED
  BY <1>1, CellsUpIs DEF Seen

(* Lines before and after the ring has turned by n.                        *)
LEMMA RingTurns ==
    ASSUME NEW row \in Lines, NEW offset \in Lines, NEW n \in Lines
    PROVE  LET turned == InRing(offset, n)
               d == InRing(row, turned)
           IN /\ turned \in Lines /\ d \in Lines
              /\ row + n < Rows =>
                    /\ row + n \in Lines /\ d = InRing(row + n, offset)
                    /\ (d - offset) % Rows = row + n
              /\ ~(row + n < Rows) => (d - offset) % Rows < n
<1> DEFINE turned == InRing(offset, n)
           d == InRing(row, turned)
<1>1. turned \in Lines /\ d \in Lines
  BY RingIs
<1>2. (d - offset) % Rows = IF d >= offset THEN d - offset ELSE d - offset + Rows
  <2>1. Rows \in Nat \ {0} /\ d \in 0 .. Rows - 1 /\ offset \in 0 .. Rows - 1
    BY <1>1, ScreenAssumption DEF Lines
  <2> HIDE DEF d, turned
  <2>2. QED
    BY <2>1, RingSub
<1>3. row + n < Rows => row + n \in Lines /\ d = InRing(row + n, offset)
  BY ScreenAssumption DEF Lines, InRing
<1>4. row + n < Rows => (IF d >= offset THEN d - offset ELSE d - offset + Rows) = row + n
  BY ScreenAssumption DEF Lines, InRing
<1>5. ~(row + n < Rows) => (IF d >= offset THEN d - offset ELSE d - offset + Rows) < n
  BY ScreenAssumption DEF Lines, InRing
<1>6. QED
  BY <1>1, <1>2, <1>3, <1>4, <1>5

BlankLine == [col \in Columns |-> Blank]

(* A cleared screen is a picture, and cleared cells are cells.             *)
LEMMA BlankTypes ==
    /\ Blank \in Drawn /\ BlankLine \in [Columns -> Drawn]
    /\ Filled(Blank) \in Picture /\ Filled(" ") \in Grid
BY GlyphsHave DEF Blank, BlankLine, Drawn, Filled, Picture, Grid, Lines, Columns

(* Scrolling by n, field by field.                                         *)
LEMMA ScrollIs ==
    ASSUME NEW s \in Screens, s.pendingScroll # 0
    PROVE  LET n == s.pendingScroll
               t == FlushScroll(s)
           IN /\ t.x = s.x /\ t.y = s.y /\ t.pendingScroll = 0 /\ t.cells = Seen(s)
              /\ t.dirty = TRUE /\ t.front = s.front
              /\ t.data \in Picture /\ t.offset \in Lines => t \in Screens
              /\ n >= Rows => t.offset = 0 /\ t.data = Filled(Blank)
              /\ n < Rows =>
                    /\ t.offset = (s.offset + n) % Rows
                    /\ t.data = [row \in Lines |-> IF (row - s.offset) % Rows < n
                                                   THEN BlankLine ELSE s.data[row]]
<1> DEFINE n == s.pendingScroll
           u == ScrollData(s, n)
           t == FlushScroll(s)
<1>1. t = [u EXCEPT !.cells = CellsUp(@, n), !.pendingScroll = 0]
  BY DEF FlushScroll
<1>2. CASE n >= Rows
  <2>1. u = [s EXCEPT !.dirty = TRUE, !.offset = 0, !.data = Filled(Blank)]
    BY <1>2 DEF ScrollData
  <2>2. n < Rows <=> FALSE
    BY <1>2, ScreenAssumption DEF Screens
  <2>3. t \in Screens
    <3>1. u \in Screens /\ u.cells = s.cells
      <4>1. Filled(Blank) \in Picture
        BY BlankTypes
      <4>2. 0 \in Lines
        BY ScreenAssumption DEF Lines
      <4>3. QED
        BY <2>1, <4>1, <4>2 DEF Screens
    <3>2. CellsUp(s.cells, n) \in Grid
      BY SeenIs DEF Seen
    <3> HIDE DEF n, u
    <3>3. QED
      <4>1. [u EXCEPT !.cells = CellsUp(s.cells, n), !.pendingScroll = 0] \in Screens
        BY <3>1, <3>2 DEF Screens
      <4>2. QED
        BY <1>1, <4>1, <3>1, <3>2
  <2> HIDE DEF n
  <2>4. QED
    BY <1>1, <1>2, <2>1, <2>2, <2>3 DEF Screens, Seen, n
<1>3. CASE ~(n >= Rows)
  <2> DEFINE new == [row \in Lines |-> IF (row - s.offset) % Rows < n
                                       THEN BlankLine ELSE s.data[row]]
  <2>1. u = [s EXCEPT !.dirty = TRUE, !.offset = (s.offset + n) % Rows, !.data = new]
    BY <1>3 DEF ScrollData, Screens, BlankLine, Lines, Columns
  <2>2. ASSUME t.data \in Picture, t.offset \in Lines PROVE t \in Screens
    <3>1. t.data = new /\ t.offset = (s.offset + n) % Rows
      <4> HIDE DEF new
      <4>1. QED
        BY <1>1, <2>1 DEF Screens
    <3>2. u \in Screens /\ u.cells = s.cells
      <4> HIDE DEF new
      <4>1. QED
        BY <2>1, <2>2, <3>1 DEF Screens
    <3>3. CellsUp(s.cells, n) \in Grid
      BY SeenIs DEF Seen
    <3> HIDE DEF n, u
    <3>4. QED
      <4>1. [u EXCEPT !.cells = CellsUp(s.cells, n), !.pendingScroll = 0] \in Screens
        BY <3>2, <3>3 DEF Screens
      <4>2. QED
        BY <1>1, <4>1, <3>2, <3>3
  <2> HIDE DEF new
  <2>3. QED
    BY <1>1, <1>3, <2>1, <2>2 DEF Screens, Seen, new
<1>4. QED
  BY <1>2, <1>3

(* PixelBuffer::scroll by less than the height of the screen: turning the  *)
(* ring and blanking the lines that come round leaves in the back buffer   *)
(* what the terminal has in its cells.                                     *)
LEMMA ScrolledData ==
    ASSUME NEW s \in Screens, Synced(s), s.pendingScroll < Rows, s.pendingScroll # 0,
           NEW row \in Lines, NEW col \in Columns
    PROVE  LET t == FlushScroll(s)
           IN SyncedAt(t, row, col) /\ t.offset \in Lines /\ t.data \in Picture
<1> DEFINE n == s.pendingScroll
           t == FlushScroll(s)
           turned == InRing(s.offset, n)
           d == InRing(row, turned)
<1>1. n \in Lines /\ s.offset \in Lines /\ s.data \in Picture /\ s.cells \in Grid
  BY ScreenAssumption DEF Screens, Lines
<1>2. /\ t.offset = (s.offset + n) % Rows /\ t.cells = Seen(s)
      /\ t.data = [r \in Lines |-> IF (r - s.offset) % Rows < n THEN BlankLine ELSE s.data[r]]
  BY ScrollIs
<1>3. t.offset = turned
  BY <1>1, <1>2, RingIs
<1>4. /\ turned \in Lines /\ d \in Lines
      /\ row + n < Rows =>
            /\ row + n \in Lines /\ d = InRing(row + n, s.offset)
            /\ (d - s.offset) % Rows = row + n
      /\ ~(row + n < Rows) => (d - s.offset) % Rows < n
  BY <1>1, RingTurns
<1> HIDE DEF n, t, turned, d
<1>5. t.data[d] = IF row + n < Rows THEN s.data[InRing(row + n, s.offset)] ELSE BlankLine
  <2>1. CASE row + n < Rows
    <3>1. ~((d - s.offset) % Rows < n)
      BY <1>1, <1>4, <2>1, ScreenAssumption DEF Lines
    <3>2. QED
      BY <1>2, <1>4, <2>1, <3>1
  <2>2. CASE ~(row + n < Rows)
    BY <1>2, <1>4, <2>2
  <2>3. QED
    BY <2>1, <2>2
<1>6. t.cells[row][col] = IF row + n < Rows THEN s.cells[row + n][col] ELSE " "
  <2>1. Seen(s)[row][col] = IF row + s.pendingScroll < Rows
                            THEN s.cells[row + s.pendingScroll][col] ELSE " "
    BY SeenIs
  <2>2. QED
    BY <1>2, <2>1 DEF n
<1>7. SyncedAt(t, row, col)
  <2>1. SyncedAt(t, row, col) <=> t.data[d][col] = [ch |-> t.cells[row][col], inverted |-> FALSE]
    BY <1>3 DEF SyncedAt, d
  <2>2. CASE row + n < Rows
    <3>1. SyncedAt(s, row + n, col)
      BY <1>4, <2>2 DEF Synced
    <3>2. QED
      BY <1>5, <1>6, <2>1, <2>2, <3>1 DEF SyncedAt
  <2>3. CASE ~(row + n < Rows)
    BY <1>5, <1>6, <2>1, <2>3 DEF BlankLine, Blank
  <2>4. QED
    BY <2>2, <2>3
<1>8. t.data \in Picture
  BY <1>1, <1>2, BlankTypes DEF Picture
<1>9. QED
  BY <1>3, <1>4, <1>7, <1>8 DEF t

(* flushScroll brings the back buffer and the cells up together.           *)
LEMMA FlushScrollIs ==
    ASSUME NEW s, Ready(s)
    PROVE  LET t == FlushScroll(s)
           IN /\ Ready(t) /\ t.pendingScroll = 0 /\ t.cells = Seen(s)
              /\ t.x = s.x /\ t.y = s.y
<1> DEFINE t == FlushScroll(s)
<1>0. s \in Screens /\ Synced(s)
  BY DEF Ready
<1>1. CASE s.pendingScroll = 0
  <2>1. t = s
    BY <1>1 DEF FlushScroll
  <2>2. Seen(s) = s.cells
    BY <1>0, <1>1, SeenIs
  <2>3. QED
    BY <1>1, <2>1, <2>2
<1>2. CASE s.pendingScroll # 0
  <2>1. /\ t.x = s.x /\ t.y = s.y /\ t.pendingScroll = 0 /\ t.cells = Seen(s)
        /\ t.data \in Picture /\ t.offset \in Lines => t \in Screens
    BY <1>0, <1>2, ScrollIs
  <2>2. t.data \in Picture /\ t.offset \in Lines /\ Synced(t)
    <3>1. CASE s.pendingScroll >= Rows
      <4>1. t.offset = 0 /\ t.data = Filled(Blank)
        BY <1>0, <1>2, <3>1, ScrollIs
      <4>2. ASSUME NEW row \in Lines, NEW col \in Columns PROVE SyncedAt(t, row, col)
        <5>1. InRing(row, 0) = row
          BY ScreenAssumption DEF InRing, Lines
        <5>2. ~(row + s.pendingScroll < Rows) /\ s.cells \in Grid /\ s.pendingScroll \in Nat
          BY <1>0, <3>1, ScreenAssumption DEF Lines, Screens
        <5>3. t.cells[row][col] = " "
          <6>1. Seen(s)[row][col] = IF row + s.pendingScroll < Rows
                                    THEN s.cells[row + s.pendingScroll][col] ELSE " "
            BY <1>0, SeenIs
          <6>2. QED
            BY <2>1, <5>2, <6>1
        <5>4. t.data[row][col] = Blank
          BY <4>1 DEF Filled, Lines, Columns
        <5>5. QED
          BY <4>1, <5>1, <5>3, <5>4 DEF SyncedAt, Blank
      <4>3. 0 \in Lines
        BY ScreenAssumption DEF Lines
      <4>4. QED
        BY <4>1, <4>2, <4>3, BlankTypes DEF Synced
    <3>2. CASE ~(s.pendingScroll >= Rows)
      <4>1. s.pendingScroll < Rows
        BY <1>0, <3>2, ScreenAssumption DEF Screens
      <4>2. \A row \in Lines, col \in Columns :
               SyncedAt(t, row, col) /\ t.offset \in Lines /\ t.data \in Picture
        BY <1>0, <1>2, <4>1, ScrolledData
      <4>3. 0 \in Lines /\ 0 \in Columns
        BY ScreenAssumption DEF Lines, Columns
      <4>4. QED
        BY <4>2, <4>3 DEF Synced
    <3>3. QED
      BY <3>1, <3>2
  <2>3. QED
    BY <2>1, <2>2 DEF Ready
<1>3. QED
  BY <1>1, <1>2

(* Drawing a cell changes that cell of the back buffer.                    *)
LEMMA DrawIs ==
    ASSUME NEW s \in Screens, NEW row \in Lines, NEW col \in Columns,
           NEW ch \in Glyphs, NEW inverted \in BOOLEAN
    PROVE  LET t == Draw(s, col, row, ch, inverted)
           IN /\ t \in Screens /\ t.dirty
              /\ t.x = s.x /\ t.y = s.y /\ t.pendingScroll = s.pendingScroll
              /\ t.cells = s.cells /\ t.offset = s.offset /\ t.front = s.front
              /\ \A r \in Lines, c \in Columns :
                    t.data[InRing(r, s.offset)][c] =
                       IF r = row /\ c = col THEN [ch |-> ch, inverted |-> inverted]
                       ELSE s.data[InRing(r, s.offset)][c]
<1> DEFINE d == InRing(row, s.offset)
           v == [ch |-> ch, inverted |-> inverted]
           new == [s.data EXCEPT ![d][col] = v]
           t == Draw(s, col, row, ch, inverted)
<1>1. s.offset \in Lines /\ s.data \in Picture
  BY DEF Screens
<1>2. Wrapped(s, row) = d /\ d \in Lines
  BY <1>1, RingIs DEF Wrapped
<1>3. t = [s EXCEPT !.dirty = TRUE, !.data = new]
  BY <1>2 DEF Draw
<1>4. v \in Drawn
  BY DEF Drawn
<1> HIDE DEF d, v
<1>5. new \in Picture
  BY <1>1, <1>2, <1>4 DEF Picture
<1>6. ASSUME NEW r \in Lines, NEW c \in Columns
      PROVE  new[InRing(r, s.offset)][c] =
                IF r = row /\ c = col THEN v ELSE s.data[InRing(r, s.offset)][c]
  <2>1. InRing(r, s.offset) \in Lines
    BY <1>1, RingIs
  <2>2. InRing(r, s.offset) = d => r = row
    BY <1>1, RingApart DEF d
  <2>3. r = row => InRing(r, s.offset) = d
    BY DEF d
  <2>4. QED
    BY <1>1, <1>2, <2>1, <2>2, <2>3 DEF Picture
<1> HIDE DEF new
<1>7. t \in Screens /\ t.data = new
  BY <1>3, <1>5 DEF Screens
<1>8. /\ t.dirty /\ t.x = s.x /\ t.y = s.y /\ t.pendingScroll = s.pendingScroll
      /\ t.cells = s.cells /\ t.offset = s.offset /\ t.front = s.front
  BY <1>3 DEF Screens
<1> HIDE DEF t
<1>9. QED
  BY <1>6, <1>7, <1>8 DEF t, v

(* Both kinds of state after flushScroll. *)
LEMMA ScrolledIs ==
    ASSUME NEW s, Ready(s) \/ NearlyReady(s)
    PROVE  LET t == FlushScroll(s)
           IN NearlyReady(t) /\ t.cells = Seen(s) /\ t.x = s.x /\ t.y = s.y
<1>1. CASE Ready(s)
  BY <1>1, FlushScrollIs DEF Ready, NearlyReady, Synced
<1>2. CASE NearlyReady(s)
  <2>1. FlushScroll(s) = s /\ s \in Screens /\ s.pendingScroll = 0
    BY <1>2 DEF FlushScroll, NearlyReady
  <2>2. QED
    BY <1>2, <2>1, SeenIs
<1>3. QED
  BY <1>1, <1>2

(* drawGlyph: the cell under the cursor, in both grids.                    *)
LEMMA DrawGlyphIs ==
    ASSUME NEW s, Ready(s) \/ NearlyReady(s), NEW ch \in Glyphs
    PROVE  LET t == DrawGlyph(s, ch)
           IN /\ Ready(t) /\ t.pendingScroll = 0 /\ t.x = s.x /\ t.y = s.y
              /\ t.cells = [Seen(s) EXCEPT ![s.y][s.x] = ch]
<1> DEFINE f == FlushScroll(s)
           u == [f EXCEPT !.cells[f.y][f.x] = ch]
           t == DrawGlyph(s, ch)
<1>1. NearlyReady(f) /\ f.cells = Seen(s) /\ f.x = s.x /\ f.y = s.y
  BY ScrolledIs
<1>2. f \in Screens /\ f.pendingScroll = 0
  BY <1>1 DEF NearlyReady
<1>3. t = Draw(u, u.x, u.y, ch, FALSE)
  <2>1. t = Draw(u, f.x, f.y, ch, FALSE)
    BY DEF DrawGlyph
  <2> HIDE DEF f
  <2>2. u.x = f.x /\ u.y = f.y
    BY <1>2 DEF Screens
  <2>3. QED
    BY <2>1, <2>2
<1> HIDE DEF f
<1>4. /\ u \in Screens /\ u.x = s.x /\ u.y = s.y /\ u.pendingScroll = 0
      /\ u.cells = [Seen(s) EXCEPT ![s.y][s.x] = ch]
      /\ u.data = f.data /\ u.offset = f.offset
  BY <1>1, <1>2 DEF Screens, Grid
<1> HIDE DEF u
<1>5. u.x \in Columns /\ u.y \in Lines
  BY <1>4 DEF Screens
<1>6. /\ t \in Screens /\ t.x = u.x /\ t.y = u.y /\ t.pendingScroll = 0
      /\ t.cells = u.cells /\ t.offset = u.offset
      /\ \A r \in Lines, c \in Columns :
            t.data[InRing(r, u.offset)][c] =
               IF r = u.y /\ c = u.x THEN [ch |-> ch, inverted |-> FALSE]
               ELSE u.data[InRing(r, u.offset)][c]
  <2> HIDE DEF t
  <2>1. PICK no \in BOOLEAN : no = FALSE
    OBVIOUS
  <2>2. t = Draw(u, u.x, u.y, ch, no)
    BY <1>3, <2>1
  <2>3. /\ t \in Screens /\ t.x = u.x /\ t.y = u.y /\ t.pendingScroll = u.pendingScroll
        /\ t.cells = u.cells /\ t.offset = u.offset
        /\ \A r \in Lines, c \in Columns :
              t.data[InRing(r, u.offset)][c] =
                 IF r = u.y /\ c = u.x THEN [ch |-> ch, inverted |-> no]
                 ELSE u.data[InRing(r, u.offset)][c]
    BY <1>4, <1>5, <2>2, DrawIs
  <2>4. QED
    BY <1>4, <2>1, <2>3
<1>7. ASSUME NEW r \in Lines, NEW c \in Columns PROVE SyncedAt(t, r, c)
  <2>1. Seen(s) \in Grid /\ s.x \in Columns /\ s.y \in Lines
    BY <1>1, <1>2 DEF Screens
  <2>2. t.cells[r][c] = IF r = s.y /\ c = s.x THEN ch ELSE f.cells[r][c]
    BY <1>1, <1>4, <1>6, <2>1 DEF Grid
  <2>3. (r = s.y /\ c = s.x) \/ SyncedAt(f, r, c)
    BY <1>1 DEF NearlyReady
  <2> HIDE DEF t
  <2>4. CASE r = s.y /\ c = s.x
    <3>1. t.data[InRing(r, u.offset)][c] = [ch |-> ch, inverted |-> FALSE]
      BY <1>4, <1>6, <2>4
    <3>2. QED
      BY <1>6, <2>2, <2>4, <3>1 DEF SyncedAt
  <2>5. CASE ~(r = s.y /\ c = s.x)
    <3>1. t.data[InRing(r, u.offset)][c] = u.data[InRing(r, u.offset)][c]
      BY <1>4, <1>6, <2>5
    <3>2. SyncedAt(f, r, c) /\ t.cells[r][c] = f.cells[r][c]
      BY <2>2, <2>3, <2>5
    <3>3. QED
      BY <1>4, <1>6, <3>1, <3>2 DEF SyncedAt
  <2>6. QED
    BY <2>4, <2>5
<1>8. QED
  BY <1>4, <1>6, <1>7 DEF Ready, Synced

(* One cell is drawn with v, the others are not inverted.                  *)
InvertedAt(t, row, col, v) ==
    \A r \in Lines, c \in Columns :
        /\ r = row /\ c = col => t.data[InRing(r, t.offset)][c] =
                                   [ch |-> t.cells[r][c], inverted |-> v]
        /\ ~(r = row /\ c = col) => SyncedAt(t, r, c)

(* drawCursor and eraseCursor: the cell keeps its character.               *)
LEMMA DrawCursorIs ==
    ASSUME NEW s, Ready(s) \/ NearlyReady(s), NEW inverted \in BOOLEAN
    PROVE  LET t == DrawCursor(s, inverted)
           IN /\ t \in Screens /\ t.pendingScroll = 0 /\ t.x = s.x /\ t.y = s.y
              /\ t.cells = Seen(s) /\ t.dirty /\ t.front = FlushScroll(s).front
              /\ InvertedAt(t, s.y, s.x, inverted)
<1> DEFINE f == FlushScroll(s)
           t == DrawCursor(s, inverted)
           ch == f.cells[f.y][f.x]
<1>1. NearlyReady(f) /\ f.cells = Seen(s) /\ f.x = s.x /\ f.y = s.y
  BY ScrolledIs
<1>2. f \in Screens /\ f.pendingScroll = 0
  BY <1>1 DEF NearlyReady
<1>3. t = Draw(f, f.x, f.y, ch, inverted)
  BY DEF DrawCursor
<1> HIDE DEF f
<1>4. ch \in Glyphs /\ f.x \in Columns /\ f.y \in Lines
  BY <1>2 DEF Screens, Grid
<1>5. /\ t \in Screens /\ t.dirty
      /\ t.x = f.x /\ t.y = f.y /\ t.pendingScroll = f.pendingScroll
      /\ t.cells = f.cells /\ t.offset = f.offset /\ t.front = f.front
      /\ \A r \in Lines, c \in Columns :
            t.data[InRing(r, f.offset)][c] =
               IF r = f.y /\ c = f.x THEN [ch |-> ch, inverted |-> inverted]
               ELSE f.data[InRing(r, f.offset)][c]
  BY <1>2, <1>3, <1>4, DrawIs
<1> HIDE DEF t, ch
<1>6. ASSUME NEW r \in Lines, NEW c \in Columns, r = s.y, c = s.x
      PROVE  t.data[InRing(r, t.offset)][c] = [ch |-> t.cells[r][c], inverted |-> inverted]
  BY <1>1, <1>5, <1>6 DEF ch
<1>7. ASSUME NEW r \in Lines, NEW c \in Columns, ~(r = s.y /\ c = s.x)
      PROVE  SyncedAt(t, r, c)
  <2>1. SyncedAt(f, r, c)
    BY <1>1, <1>7 DEF NearlyReady
  <2>2. t.data[InRing(r, f.offset)][c] = f.data[InRing(r, f.offset)][c]
    BY <1>1, <1>5, <1>7
  <2>3. QED
    BY <1>5, <2>1, <2>2 DEF SyncedAt
<1>8. InvertedAt(t, s.y, s.x, inverted)
  BY <1>6, <1>7 DEF InvertedAt
<1>9. QED
  BY <1>1, <1>2, <1>5, <1>8 DEF t, f

(* The framebuffer shows the cells, and the cursor inverted. *)
Shown(t) ==
    \A r \in Lines, c \in Columns :
        /\ r = t.y /\ c = t.x => t.front[r][c] = [ch |-> t.cells[r][c], inverted |-> TRUE]
        /\ ~(r = t.y /\ c = t.x) => t.front[r][c] = [ch |-> t.cells[r][c], inverted |-> FALSE]

(* The display is flushed with the cursor drawn.                           *)
LEMMA ShownIs ==
    ASSUME NEW s, Ready(s) \/ NearlyReady(s)
    PROVE  LET t == FlushDisplay(DrawCursor(s, TRUE))
           IN NearlyReady(t) /\ t.x = s.x /\ t.y = s.y /\ t.cells = Seen(s) /\ Shown(t)
<1> DEFINE u == DrawCursor(s, TRUE)
           new == [row \in Lines |-> u.data[(row + u.offset) % Rows]]
           t == FlushDisplay(u)
<1>1. /\ u \in Screens /\ u.pendingScroll = 0 /\ u.x = s.x /\ u.y = s.y
      /\ u.cells = Seen(s) /\ u.dirty /\ InvertedAt(u, s.y, s.x, TRUE)
  <2>1. PICK yes \in BOOLEAN : yes = TRUE
    OBVIOUS
  <2>2. LET v == DrawCursor(s, yes)
        IN /\ v \in Screens /\ v.pendingScroll = 0 /\ v.x = s.x /\ v.y = s.y
           /\ v.cells = Seen(s) /\ v.dirty /\ InvertedAt(v, s.y, s.x, yes)
    BY DrawCursorIs
  <2>3. QED
    BY <2>1, <2>2
<1> HIDE DEF u
<1>2. t = [u EXCEPT !.dirty = FALSE, !.front = new]
  BY <1>1 DEF FlushDisplay, Lines
<1>3. u.offset \in Lines /\ u.data \in Picture
  BY <1>1 DEF Screens
<1>4. ASSUME NEW r \in Lines
      PROVE  new[r] = u.data[InRing(r, u.offset)] /\ InRing(r, u.offset) \in Lines
  BY <1>3, RingIs
<1>5. new \in Picture
  <2>1. \A r \in Lines : new[r] \in [Columns -> Drawn]
    BY <1>3, <1>4 DEF Picture
  <2>2. QED
    BY <2>1 DEF Picture
<1> HIDE DEF new
<1>6. /\ t \in Screens /\ t.pendingScroll = 0 /\ t.x = u.x /\ t.y = u.y
      /\ t.cells = u.cells /\ t.data = u.data /\ t.offset = u.offset /\ t.front = new
  BY <1>1, <1>2, <1>5 DEF Screens
<1> HIDE DEF t
<1>7. ASSUME NEW r \in Lines, NEW c \in Columns
      PROVE  SyncedAt(t, r, c) \/ (r = t.y /\ c = t.x)
  BY <1>1, <1>6 DEF SyncedAt, InvertedAt
<1>8. Shown(t)
  BY <1>1, <1>4, <1>6 DEF Shown, InvertedAt, SyncedAt
<1>9. NearlyReady(t)
  BY <1>6, <1>7 DEF NearlyReady
<1>10. QED
  BY <1>1, <1>6, <1>8, <1>9 DEF t, u

(* TerminalFlush: what was drawn is shown, and nothing of the cursor stays *)
(* behind.                                                                 *)
LEMMA FlushIs ==
    ASSUME NEW s, Ready(s) \/ NearlyReady(s)
    PROVE  LET t == Flush(s)
           IN /\ Ready(t) /\ t.pendingScroll = 0 /\ t.x = s.x /\ t.y = s.y
              /\ t.cells = Seen(s) /\ ShowsCells(t)
<1> DEFINE u == FlushDisplay(DrawCursor(s, TRUE))
           t == Flush(s)
<1>1. NearlyReady(u) /\ u.x = s.x /\ u.y = s.y /\ u.cells = Seen(s) /\ Shown(u)
  BY ShownIs
<1>2. t = DrawCursor(u, FALSE)
  BY DEF Flush
<1> HIDE DEF u
<1>3. u \in Screens /\ u.pendingScroll = 0 /\ FlushScroll(u) = u /\ Seen(u) = u.cells
  BY <1>1, SeenIs DEF NearlyReady, FlushScroll
<1> HIDE DEF t
<1>4. /\ t \in Screens /\ t.pendingScroll = 0 /\ t.x = u.x /\ t.y = u.y
      /\ t.cells = Seen(u) /\ t.front = FlushScroll(u).front
      /\ InvertedAt(t, u.y, u.x, FALSE)
  <2>1. PICK no \in BOOLEAN : no = FALSE
    OBVIOUS
  <2>2. t = DrawCursor(u, no)
    BY <1>2, <2>1
  <2>3. /\ t \in Screens /\ t.pendingScroll = 0 /\ t.x = u.x /\ t.y = u.y
        /\ t.cells = Seen(u) /\ t.front = FlushScroll(u).front
        /\ InvertedAt(t, u.y, u.x, no)
    BY <1>1, <2>2, DrawCursorIs
  <2>4. QED
    BY <2>1, <2>3
<1>5. Ready(t)
  <2>1. ASSUME NEW r \in Lines, NEW c \in Columns PROVE SyncedAt(t, r, c)
    <3>1. CASE r = u.y /\ c = u.x
      BY <1>4, <3>1 DEF InvertedAt, SyncedAt
    <3>2. CASE ~(r = u.y /\ c = u.x)
      BY <1>4, <3>2 DEF InvertedAt
    <3>3. QED
      BY <3>1, <3>2
  <2>2. QED
    BY <1>4, <2>1 DEF Ready, Synced
<1>6. ShowsCells(t)
  <2>1. ASSUME NEW r \in Lines, NEW c \in Columns
        PROVE  t.front[r][c] = [ch |-> t.cells[r][c], inverted |-> r = t.y /\ c = t.x]
    <3>1. CASE r = t.y /\ c = t.x
      <4>1. t.front[r][c] = [ch |-> t.cells[r][c], inverted |-> TRUE]
        <5>1. u.front[r][c] = [ch |-> u.cells[r][c], inverted |-> TRUE]
          BY <1>1, <1>4, <3>1 DEF Shown
        <5>2. QED
          BY <1>3, <1>4, <5>1
      <4>2. (r = t.y /\ c = t.x) = TRUE
        BY <3>1
      <4>3. QED
        BY <4>1, <4>2
    <3>2. CASE ~(r = t.y /\ c = t.x)
      <4>1. t.front[r][c] = [ch |-> t.cells[r][c], inverted |-> FALSE]
        BY <1>1, <1>3, <1>4, <3>2 DEF Shown
      <4>2. (r = t.y /\ c = t.x) = FALSE
        BY <3>2
      <4>3. QED
        BY <4>1, <4>2
    <3>3. QED
      BY <3>1, <3>2
  <2>2. QED
    BY <2>1 DEF ShowsCells, Lines, Columns
<1>7. QED
  BY <1>1, <1>3, <1>4, <1>5, <1>6 DEF t

-----------------------------------------------------------------------------
(* putchar.                                                                *)

(* The cells from (col, row) on in reading order are blank. *)
BlankFrom(g, row, col) ==
    \A r \in Lines, c \in Columns : r > row \/ (r = row /\ c >= col) => g[r][c] = " "
BlankAhead(s) == BlankFrom(Seen(s), s.y, s.x)

(* At the start of the next line, which a scroll may have to make room for. *)
NextLine(s) ==
    IF s.y + 1 < Rows THEN [s EXCEPT !.x = 0, !.y = @ + 1]
    ELSE [s EXCEPT !.x = 0, !.pendingScroll = @ + 1]

(* A new line draws nothing, so that the two grids stay together.          *)
LEMMA NextLineReady ==
    ASSUME NEW s, Ready(s)
    PROVE  LET t == NextLine(s) IN Ready(t) /\ t.x = 0
<1> DEFINE t == NextLine(s)
<1>1. /\ s \in Screens /\ s.x \in Columns /\ s.y \in Lines /\ s.pendingScroll \in Nat
      /\ \A r \in Lines, c \in Columns : SyncedAt(s, r, c)
  BY DEF Ready, Synced, Screens
<1>2. 0 \in Columns
  BY ScreenAssumption DEF Columns
<1>3. /\ t \in Screens /\ t.x = 0
      /\ t.cells = s.cells /\ t.data = s.data /\ t.offset = s.offset
  <2>1. CASE s.y + 1 < Rows
    <3>1. t = [s EXCEPT !.x = 0, !.y = s.y + 1] /\ s.y + 1 \in Lines
      BY <1>1, <2>1, ScreenAssumption DEF NextLine, Lines
    <3>2. QED
      BY <1>1, <1>2, <3>1 DEF Screens
  <2>2. CASE ~(s.y + 1 < Rows)
    <3>1. t = [s EXCEPT !.x = 0, !.pendingScroll = s.pendingScroll + 1] /\ s.pendingScroll + 1 \in Nat
      BY <1>1, <2>2 DEF NextLine
    <3>2. QED
      BY <1>1, <1>2, <3>1 DEF Screens
  <2>3. QED
    BY <2>1, <2>2
<1> HIDE DEF t
<1>4. Ready(t)
  BY <1>1, <1>3 DEF Ready, Synced, SyncedAt
<1>5. QED
  BY <1>3, <1>4 DEF t

(* A new line above blank lines has nothing behind the cursor; on the last *)
(* line, the scroll that is owed will have blanked it.                     *)
LEMMA NextLineIs ==
    ASSUME NEW s, Ready(s), BlankFrom(Seen(s), s.y + 1, 0)
    PROVE  LET t == NextLine(s) IN Ready(t) /\ BlankAhead(t) /\ t.x = 0
<1> DEFINE t == NextLine(s)
<1>1. /\ s \in Screens /\ s.x \in Columns /\ s.y \in Lines /\ s.pendingScroll \in Nat
      /\ \A r \in Lines, c \in Columns : SyncedAt(s, r, c)
  BY DEF Ready, Synced, Screens
<1>2. 0 \in Columns
  BY ScreenAssumption DEF Columns
<1>3. CASE s.y + 1 < Rows
  <2>1. t = [s EXCEPT !.x = 0, !.y = s.y + 1] /\ s.y + 1 \in Lines
    BY <1>1, <1>3, ScreenAssumption DEF NextLine, Lines
  <2>2. /\ t \in Screens /\ t.x = 0 /\ t.y = s.y + 1 /\ t.pendingScroll = s.pendingScroll
        /\ t.cells = s.cells /\ t.data = s.data /\ t.offset = s.offset
    BY <1>1, <1>2, <2>1 DEF Screens
  <2> HIDE DEF t
  <2>3. Ready(t)
    BY <1>1, <2>2 DEF Ready, Synced, SyncedAt
  <2>4. BlankAhead(t)
    BY <2>2 DEF BlankAhead, Seen
  <2>5. QED
    BY <2>2, <2>3, <2>4 DEF t
<1>4. CASE ~(s.y + 1 < Rows)
  <2>1. t = [s EXCEPT !.x = 0, !.pendingScroll = s.pendingScroll + 1] /\ s.pendingScroll + 1 \in Nat
    BY <1>1, <1>4 DEF NextLine
  <2>2. /\ t \in Screens /\ t.x = 0 /\ t.y = s.y /\ t.pendingScroll = s.pendingScroll + 1
        /\ t.cells = s.cells /\ t.data = s.data /\ t.offset = s.offset
    BY <1>1, <1>2, <2>1 DEF Screens
  <2> HIDE DEF t
  <2>3. Ready(t)
    BY <1>1, <2>2 DEF Ready, Synced, SyncedAt
  <2>4. ASSUME NEW r \in Lines, NEW c \in Columns, r > t.y \/ (r = t.y /\ c >= t.x)
        PROVE  Seen(t)[r][c] = " "
    <3>1. ~(r + t.pendingScroll < Rows)
      BY <1>1, <1>4, <2>2, <2>4, ScreenAssumption DEF Lines
    <3>2. Seen(t)[r][c] = IF r + t.pendingScroll < Rows
                          THEN t.cells[r + t.pendingScroll][c] ELSE " "
      BY <2>2, SeenIs
    <3>3. QED
      BY <3>1, <3>2
  <2>5. QED
    BY <2>2, <2>3, <2>4 DEF t, BlankAhead, BlankFrom
<1>5. QED
  BY <1>3, <1>4

(* The two parts of Settled. *)
AtWrap(s) == IF s.x >= Cols THEN [s EXCEPT !.x = 0, !.y = @ + 1] ELSE s
AtScroll(s) ==
    IF s.y < Rows THEN s
    ELSE [s EXCEPT !.pendingScroll = @ + (s.y - Rows + 1), !.y = Rows - 1]

(* The end of putchar: wrapping at the last column and scrolling at the    *)
(* last line amount to NextLine.                                           *)
LEMMA SettledIs ==
    ASSUME NEW s \in Screens
    PROVE  /\ Settled([s EXCEPT !.x = 0, !.y = @ + 1]) = NextLine(s)
           /\ Settled([s EXCEPT !.x = @ + 1]) =
                 IF s.x + 1 < Cols THEN [s EXCEPT !.x = @ + 1] ELSE NextLine(s)
           /\ Settled(s) = s
<1>1. s.x \in Columns /\ s.y \in Lines /\ s.pendingScroll \in Nat
  BY DEF Screens
<1>2. /\ s.x \in 0 .. Cols - 1 /\ s.y \in 0 .. Rows - 1 /\ Cols \in Nat \ {0} /\ Rows \in Nat \ {0}
  BY <1>1, ScreenAssumption DEF Columns, Lines
<1>3. Settled(s) = s
  BY <1>2 DEF Settled
<1>4. ASSUME ~(s.y + 1 < Rows), NEW u, u = [s EXCEPT !.x = 0, !.y = s.y + 1]
      PROVE  [u EXCEPT !.pendingScroll = u.pendingScroll + (u.y - Rows + 1), !.y = Rows - 1]
                = [s EXCEPT !.x = 0, !.pendingScroll = s.pendingScroll + 1]
  <2>1. s.y = Rows - 1 /\ s.y + 1 - Rows + 1 = 1
    BY <1>2, <1>4
  <2>2. /\ u.pendingScroll + (u.y - Rows + 1) = s.pendingScroll + 1
        /\ u.pendingScroll = s.pendingScroll
    BY <1>1, <1>2, <1>4, <2>1 DEF Screens
  <2>3. [u EXCEPT !.pendingScroll = s.pendingScroll + 1, !.y = s.y]
           = [s EXCEPT !.x = 0, !.pendingScroll = s.pendingScroll + 1]
    BY <1>4 DEF Screens
  <2>4. QED
    BY <2>1, <2>2, <2>3
<1>5. Settled([s EXCEPT !.x = 0, !.y = @ + 1]) = NextLine(s)
  <2> DEFINE u == [s EXCEPT !.x = 0, !.y = s.y + 1]
  <2>1. u.x = 0 /\ u.y = s.y + 1
    BY DEF Screens
  <2>2. Settled(u) = IF u.y < Rows THEN u
                     ELSE [u EXCEPT !.pendingScroll = u.pendingScroll + (u.y - Rows + 1), !.y = Rows - 1]
    <3> HIDE DEF u
    <3>1. ~(u.x >= Cols)
      BY <1>2, <2>1
    <3>2. QED
      BY <3>1 DEF Settled
  <2>3. QED
    BY <1>4, <2>1, <2>2 DEF NextLine
<1>6. Settled([s EXCEPT !.x = @ + 1]) =
         IF s.x + 1 < Cols THEN [s EXCEPT !.x = @ + 1] ELSE NextLine(s)
  <2> DEFINE u == [s EXCEPT !.x = s.x + 1]
             w == [u EXCEPT !.x = 0, !.y = @ + 1]
  <2>1. u.x = s.x + 1 /\ u.y = s.y
    BY DEF Screens
  <2>2. CASE s.x + 1 < Cols
    <3> HIDE DEF u
    <3>1. ~(u.x >= Cols) /\ u.y < Rows
      BY <1>2, <2>1, <2>2
    <3>2. Settled(u) = u
      BY <3>1 DEF Settled
    <3>3. QED
      BY <2>2, <3>2 DEF u
  <2>3. CASE ~(s.x + 1 < Cols)
    <3>1. w = [s EXCEPT !.x = 0, !.y = s.y + 1] /\ w.y = s.y + 1
      BY DEF Screens
    <3>2. u.x >= Cols
      BY <1>2, <2>1, <2>3
    <3>a. w = [u EXCEPT !.x = 0, !.y = @ + 1]
      OBVIOUS
    <3> HIDE DEF u, w
    <3>3. Settled(u) = IF w.y < Rows THEN w
                       ELSE [w EXCEPT !.pendingScroll = w.pendingScroll + (w.y - Rows + 1), !.y = Rows - 1]
      <4>1. AtWrap(u) = w
        BY <3>2, <3>a DEF AtWrap
      <4>2. Settled(u) = AtScroll(AtWrap(u))
        BY DEF Settled, AtScroll, AtWrap
      <4>3. QED
        BY <4>1, <4>2 DEF AtScroll
    <3>4. Settled(u) = NextLine(s)
      BY <1>4, <3>1, <3>3 DEF NextLine
    <3>5. QED
      BY <2>3, <3>4 DEF u
  <2>4. QED
    BY <2>2, <2>3
<1>7. QED
  BY <1>3, <1>5, <1>6

(* A character at the cursor. *)
LEMMA PutGlyph ==
    ASSUME NEW s, Ready(s) \/ NearlyReady(s), NEW ch \in Glyphs, ch # LF, ch # BS
    PROVE  LET u == DrawGlyph(s, ch)
               t == Putchar(s, ch)
           IN /\ t = IF u.x + 1 < Cols THEN [u EXCEPT !.x = @ + 1] ELSE NextLine(u)
              /\ s.x + 1 < Cols =>
                    /\ Ready(t) /\ t.pendingScroll = 0 /\ t.x = s.x + 1 /\ t.y = s.y
                    /\ t.cells = [Seen(s) EXCEPT ![s.y][s.x] = ch]
<1> DEFINE u == DrawGlyph(s, ch)
           t == Putchar(s, ch)
<1>1. /\ Ready(u) /\ u.pendingScroll = 0 /\ u.x = s.x /\ u.y = s.y
      /\ u.cells = [Seen(s) EXCEPT ![s.y][s.x] = ch]
  BY DrawGlyphIs
<1>2. t = Settled([u EXCEPT !.x = @ + 1])
  BY DEF Putchar
<1> HIDE DEF u, t
<1>3. u \in Screens
  BY <1>1 DEF Ready
<1>4. t = IF u.x + 1 < Cols THEN [u EXCEPT !.x = @ + 1] ELSE NextLine(u)
  BY <1>2, <1>3, SettledIs
<1>5. ASSUME s.x + 1 < Cols
      PROVE  /\ Ready(t) /\ t.pendingScroll = 0 /\ t.x = s.x + 1 /\ t.y = s.y
             /\ t.cells = u.cells
  <2>1. t = [u EXCEPT !.x = s.x + 1]
    BY <1>1, <1>4, <1>5
  <2>2. s.x + 1 \in Columns
    BY <1>1, <1>3, <1>5, ScreenAssumption DEF Screens, Columns
  <2>3. /\ t \in Screens /\ t.x = s.x + 1 /\ t.y = u.y /\ t.pendingScroll = u.pendingScroll
        /\ t.cells = u.cells /\ t.data = u.data /\ t.offset = u.offset
    BY <1>3, <2>1, <2>2 DEF Screens
  <2>4. Ready(t)
    BY <1>1, <2>3 DEF Ready, Synced, SyncedAt
  <2>5. QED
    BY <1>1, <2>3, <2>4
<1>6. QED
  BY <1>1, <1>4, <1>5 DEF u, t

(* putchar of a line feed.                                                 *)
LEMMA PutNewline ==
    ASSUME NEW s, Ready(s)
    PROVE  Putchar(s, LF) = NextLine(s)
<1>1. s \in Screens
  BY DEF Ready
<1>2. Putchar(s, LF) = Settled([s EXCEPT !.x = 0, !.y = @ + 1])
  BY DEF Putchar, LF, BS
<1>3. QED
  BY <1>1, <1>2, SettledIs

(* putchar of a backspace: the cell before the cursor, in the line above   *)
(* at the first column, is blanked under the cursor.                       *)
LEMMA PutBackspace ==
    ASSUME NEW s, Ready(s)
    PROVE  LET b == BackOne(s)
               t == Putchar(s, BS)
           IN /\ Ready(b) /\ Seen(b) = Seen(s)
              /\ b = IF s.x > 0 THEN [s EXCEPT !.x = s.x - 1]
                     ELSE IF s.y > 0 THEN [s EXCEPT !.y = s.y - 1, !.x = Cols - 1] ELSE s
              /\ Ready(t) /\ t.pendingScroll = 0 /\ t.x = b.x /\ t.y = b.y
              /\ t.cells = [Seen(s) EXCEPT ![b.y][b.x] = " "]
<1> DEFINE b == BackOne(s)
           u == DrawGlyph(b, " ")
           t == Putchar(s, BS)
<1>1. s \in Screens /\ s.x \in Columns /\ s.y \in Lines
  BY DEF Ready, Screens
<1>2. b = IF s.x > 0 THEN [s EXCEPT !.x = s.x - 1]
          ELSE IF s.y > 0 THEN [s EXCEPT !.y = s.y - 1, !.x = Cols - 1] ELSE s
  BY DEF BackOne
<1>3. /\ b \in Screens /\ b.pendingScroll = s.pendingScroll
      /\ b.cells = s.cells /\ b.data = s.data /\ b.offset = s.offset
  <2>1. CASE s.x > 0
    <3>1. s.x - 1 \in Columns
      BY <1>1, <2>1, ScreenAssumption DEF Columns
    <3>2. QED
      BY <1>1, <1>2, <2>1, <3>1 DEF Screens
  <2>2. CASE ~(s.x > 0) /\ s.y > 0
    <3>1. s.y - 1 \in Lines /\ Cols - 1 \in Columns
      BY <1>1, <2>2, ScreenAssumption DEF Columns, Lines
    <3>2. QED
      BY <1>1, <1>2, <2>2, <3>1 DEF Screens
  <2>3. CASE ~(s.x > 0) /\ ~(s.y > 0)
    BY <1>1, <1>2, <2>3
  <2>4. QED
    BY <2>1, <2>2, <2>3
<1> HIDE DEF b
<1>4. Ready(b) /\ Seen(b) = Seen(s)
  BY <1>3 DEF Ready, Synced, SyncedAt, Seen
<1>5. PICK sp \in Glyphs : sp = " "
  BY GlyphsHave
<1>6. /\ Ready(u) /\ u.pendingScroll = 0 /\ u.x = b.x /\ u.y = b.y
      /\ u.cells = [Seen(s) EXCEPT ![b.y][b.x] = " "]
  <2>1. u = DrawGlyph(b, sp)
    BY <1>5
  <2> HIDE DEF u
  <2>2. /\ Ready(u) /\ u.pendingScroll = 0 /\ u.x = b.x /\ u.y = b.y
        /\ u.cells = [Seen(b) EXCEPT ![b.y][b.x] = sp]
    BY <1>4, <2>1, DrawGlyphIs
  <2>3. QED
    BY <1>4, <1>5, <2>2
<1>7. t = Settled(u)
  BY DEF Putchar, b, LF, BS
<1> HIDE DEF u, t
<1>8. t = u
  BY <1>6, <1>7, SettledIs DEF Ready
<1>9. QED
  BY <1>2, <1>4, <1>6, <1>8 DEF b, t

(* Whatever is put, the two grids stay together.                           *)
LEMMA PutcharReady ==
    ASSUME NEW s, Ready(s), NEW ch \in Glyphs
    PROVE  Ready(Putchar(s, ch))
<1> DEFINE t == Putchar(s, ch)
<1>1. CASE ch = LF
  BY <1>1, NextLineReady, PutNewline
<1>2. CASE ch = BS
  BY <1>2, PutBackspace
<1>3. CASE ch # LF /\ ch # BS
  <2> DEFINE u == DrawGlyph(s, ch)
  <2>1. Ready(u)
    BY DrawGlyphIs
  <2>2. /\ t = IF u.x + 1 < Cols THEN [u EXCEPT !.x = @ + 1] ELSE NextLine(u)
        /\ s.x + 1 < Cols => Ready(t)
        /\ u.x = s.x
    BY <1>3, PutGlyph, DrawGlyphIs
  <2> HIDE DEF u, t
  <2>3. CASE s.x + 1 < Cols
    BY <2>2, <2>3 DEF t
  <2>4. CASE ~(s.x + 1 < Cols)
    BY <2>1, <2>2, <2>4, NextLineReady DEF t
  <2>5. QED
    BY <2>3, <2>4
<1>4. QED
  BY <1>1, <1>2, <1>3

(* A character drawn at the cursor leaves nothing behind itself.           *)
LEMMA BlankAfter ==
    ASSUME NEW g \in Grid, NEW y \in Lines, NEW x \in Columns, BlankFrom(g, y, x),
           NEW ch \in Glyphs, NEW h, h = [g EXCEPT ![y][x] = ch]
    PROVE  /\ BlankFrom(g, y + 1, 0)
           /\ BlankFrom(h, y, x + 1) /\ BlankFrom(h, y + 1, 0)
<1>1. \A r \in Lines, c \in Columns : r > y \/ (r = y /\ c >= x) => g[r][c] = " "
  BY DEF BlankFrom
<1>2. ASSUME NEW r \in Lines, NEW c \in Columns
      PROVE  /\ r > y + 1 \/ (r = y + 1 /\ c >= 0) => r > y
             /\ r > y \/ (r = y /\ c >= x + 1) =>
                   ~(r = y /\ c = x) /\ (r > y \/ (r = y /\ c >= x))
             /\ r > y => r # y
  BY DEF Lines, Columns
<1>3. \A r \in Lines, c \in Columns : ~(r = y /\ c = x) => h[r][c] = g[r][c]
  BY DEF Grid
<1>4. BlankFrom(g, y + 1, 0)
  BY <1>1, <1>2 DEF BlankFrom
<1>5. BlankFrom(h, y, x + 1)
  BY <1>1, <1>2, <1>3 DEF BlankFrom
<1>6. BlankFrom(h, y + 1, 0)
  <2>1. ASSUME NEW r \in Lines, NEW c \in Columns, r > y + 1 \/ (r = y + 1 /\ c >= 0)
        PROVE  h[r][c] = " "
    <3>1. r > y /\ r # y
      BY <1>2, <2>1
    <3>2. QED
      BY <1>1, <1>3, <3>1
  <2>2. QED
    BY <2>1 DEF BlankFrom
<1>7. QED
  BY <1>4, <1>5, <1>6

(* (b, c) is the place before (y, x). *)
Before(b, c, y, x) ==
    \/ b = y /\ c = x - 1
    \/ b = y - 1 /\ c = Cols - 1 /\ x = 0
    \/ b = y /\ c = x

(* Between a place and the one before it there is no other.                *)
LEMMA NothingBetween ==
    ASSUME NEW r \in Lines, NEW k \in Columns, NEW b \in Lines, NEW c \in Columns,
           NEW y \in Lines, NEW x \in Columns, Before(b, c, y, x), r > b \/ (r = b /\ k >= c)
    PROVE  (r = b /\ k = c) \/ r > y \/ (r = y /\ k >= x)
BY ScreenAssumption DEF Before, Lines, Columns

(* Blanking the cell before the cursor leaves nothing from there on.       *)
LEMMA BlankBack ==
    ASSUME NEW g \in Grid, NEW y \in Lines, NEW x \in Columns, BlankFrom(g, y, x),
           NEW b \in Lines, NEW c \in Columns, Before(b, c, y, x),
           NEW h, h = [g EXCEPT ![b][c] = " "]
    PROVE  BlankFrom(h, b, c)
<1>1. \A r \in Lines, k \in Columns : r > y \/ (r = y /\ k >= x) => g[r][k] = " "
  BY DEF BlankFrom
<1>3. \A r \in Lines, k \in Columns :
         h[r][k] = IF r = b /\ k = c THEN " " ELSE g[r][k]
  BY DEF Grid
<1>4. ASSUME NEW r \in Lines, NEW k \in Columns, r > b \/ (r = b /\ k >= c)
      PROVE  h[r][k] = " "
  <2>1. (r = b /\ k = c) \/ r > y \/ (r = y /\ k >= x)
    BY <1>4, NothingBetween
  <2>2. CASE r = b /\ k = c
    BY <1>3, <2>2
  <2>3. CASE ~(r = b /\ k = c)
    <3>1. r > y \/ (r = y /\ k >= x)
      BY <2>1, <2>3
    <3>2. g[r][k] = " "
      BY <1>1, <3>1
    <3>3. QED
      BY <1>3, <2>3, <3>2
  <2>4. QED
    BY <2>2, <2>3
<1>5. QED
  BY <1>4 DEF BlankFrom

(* Whatever is put, the two grids stay together and nothing appears behind *)
(* the cursor.                                                             *)
LEMMA PutcharIs ==
    ASSUME NEW s, Ready(s), BlankAhead(s), NEW ch \in Glyphs
    PROVE  LET t == Putchar(s, ch) IN Ready(t) /\ BlankAhead(t)
<1> DEFINE t == Putchar(s, ch)
<1>1. s \in Screens /\ s.x \in Columns /\ s.y \in Lines
  BY DEF Ready, Screens
<1>2. PICK x \in Columns, y \in Lines, g \in Grid : x = s.x /\ y = s.y /\ g = Seen(s)
  BY <1>1, SeenIs
<1>3. BlankFrom(g, y, x)
  BY <1>2 DEF BlankAhead
<1>4. CASE ch = LF
  <2>1. BlankFrom(g, y + 1, 0)
    BY <1>3, BlankAfter
  <2>2. Ready(NextLine(s)) /\ BlankAhead(NextLine(s))
    BY <1>2, <2>1, NextLineIs
  <2>3. QED
    BY <1>4, <2>2, PutNewline
<1>5. CASE ch = BS
  <2> DEFINE b == BackOne(s)
  <2>1. /\ b = IF s.x > 0 THEN [s EXCEPT !.x = s.x - 1]
               ELSE IF s.y > 0 THEN [s EXCEPT !.y = s.y - 1, !.x = Cols - 1] ELSE s
        /\ Ready(t) /\ t.pendingScroll = 0 /\ t.x = b.x /\ t.y = b.y
        /\ t.cells = [Seen(s) EXCEPT ![b.y][b.x] = " "]
        /\ Ready(b)
    BY <1>5, PutBackspace
  <2> HIDE DEF b, t
  <2>2. t \in Screens /\ Seen(t) = t.cells
    BY <2>1, SeenIs DEF Ready
  <2>3. PICK p \in Columns, q \in Lines : p = b.x /\ q = b.y
    BY <2>1 DEF Ready, Screens
  <2>4. Before(q, p, y, x)
    <3>1. ~(x > 0) => x = 0
      BY ScreenAssumption DEF Columns
    <3>2. CASE s.x > 0
      BY <1>1, <1>2, <2>1, <2>3, <3>2 DEF Before, Screens
    <3>3. CASE ~(s.x > 0) /\ s.y > 0
      BY <1>1, <1>2, <2>1, <2>3, <3>1, <3>3 DEF Before, Screens
    <3>4. CASE ~(s.x > 0) /\ ~(s.y > 0)
      BY <1>1, <1>2, <2>1, <2>3, <3>4 DEF Before
    <3>5. QED
      BY <3>2, <3>3, <3>4
  <2>5. BlankFrom(t.cells, q, p)
    <3>1. t.cells = [g EXCEPT ![q][p] = " "]
      BY <1>2, <2>1, <2>3
    <3>2. QED
      BY <1>3, <2>4, <3>1, BlankBack
  <2>6. QED
    BY <2>1, <2>2, <2>3, <2>5 DEF BlankAhead, t
<1>6. CASE ch # LF /\ ch # BS
  <2> DEFINE u == DrawGlyph(s, ch)
  <2>1. /\ Ready(u) /\ u.pendingScroll = 0 /\ u.x = x /\ u.y = y
        /\ u.cells = [g EXCEPT ![y][x] = ch]
    BY <1>2, DrawGlyphIs
  <2>2. /\ t = IF u.x + 1 < Cols THEN [u EXCEPT !.x = @ + 1] ELSE NextLine(u)
        /\ s.x + 1 < Cols =>
              /\ Ready(t) /\ t.pendingScroll = 0 /\ t.x = s.x + 1 /\ t.y = s.y
              /\ t.cells = [Seen(s) EXCEPT ![s.y][s.x] = ch]
    BY <1>6, PutGlyph
  <2> HIDE DEF u, t
  <2>3. u \in Screens /\ Seen(u) = u.cells
    BY <2>1, SeenIs DEF Ready
  <2>4. BlankFrom(u.cells, y, x + 1) /\ BlankFrom(u.cells, y + 1, 0)
    BY <1>3, <2>1, BlankAfter
  <2>5. CASE x + 1 < Cols
    <3>1. Ready(t) /\ t.pendingScroll = 0 /\ t.x = x + 1 /\ t.y = y /\ t.cells = u.cells
      BY <1>2, <2>1, <2>2, <2>5
    <3>2. Seen(t) = t.cells
      BY <3>1, SeenIs DEF Ready
    <3>3. BlankAhead(t)
      BY <2>4, <3>1, <3>2 DEF BlankAhead
    <3>4. QED
      BY <3>1, <3>3 DEF t
  <2>6. CASE ~(x + 1 < Cols)
    <3>1. t = NextLine(u)
      BY <2>1, <2>2, <2>6
    <3>2. BlankFrom(Seen(u), u.y + 1, 0)
      BY <2>1, <2>3, <2>4
    <3>3. QED
      BY <2>1, <3>1, <3>2, NextLineIs DEF t
  <2>7. QED
    BY <2>5, <2>6
<1>7. QED
  BY <1>4, <1>5, <1>6

-----------------------------------------------------------------------------
(* Texts.                                                                  *)

(* The state after each character. *)
Writes(g, s, text) ==
    g = [i \in 0 .. Len(text) |-> IF i = 0 THEN s ELSE Putchar(g[i - 1], text[i])]

(* The loop of putText has a trace, given that one exists, and PutText is  *)
(* its end.                                                                *)
LEMMA WritesIs ==
    ASSUME NEW s, NEW text, NEW h, Writes(h, s, text)
    PROVE  \E g : Writes(g, s, text) /\ PutText(s, text) = g[Len(text)]
<1> DEFINE d == CHOOSE g : g = [i \in 0 .. Len(text) |->
                                  IF i = 0 THEN s ELSE Putchar(g[i - 1], text[i])]
<1>1. PutText(s, text) = d[Len(text)]
  BY DEF PutText
<1>2. Writes(d, s, text)
  BY DEF Writes
<1>3. QED
  BY <1>1, <1>2

(* A text of two characters.                                               *)
LEMMA PutTwo ==
    ASSUME NEW s, NEW a, NEW b
    PROVE  PutText(s, <<a, b>>) = Putchar(Putchar(s, a), b)
<1> DEFINE text == <<a, b>>
           h == [i \in 0 .. 2 |-> IF i = 0 THEN s
                                  ELSE IF i = 1 THEN Putchar(s, a)
                                  ELSE Putchar(Putchar(s, a), b)]
<1>1. Len(text) = 2 /\ text[1] = a /\ text[2] = b
  OBVIOUS
<1> HIDE DEF text
<1>2. ASSUME NEW i \in 0 .. 2
      PROVE  h[i] = IF i = 0 THEN s ELSE Putchar(h[i - 1], text[i])
  <2>1. CASE i = 0
    BY <2>1
  <2>2. CASE i = 1
    BY <1>1, <2>2
  <2>3. CASE i = 2
    BY <1>1, <2>3
  <2>4. QED
    BY <2>1, <2>2, <2>3
<1>3. h = [i \in 0 .. 2 |-> IF i = 0 THEN s ELSE Putchar(h[i - 1], text[i])]
  <2>1. h = [i \in 0 .. 2 |-> h[i]]
    OBVIOUS
  <2> HIDE DEF h
  <2>2. QED
    BY <1>2, <2>1
<1> HIDE DEF h
<1>4. Writes(h, s, text)
  BY <1>1, <1>3 DEF Writes
<1>5. PICK g : Writes(g, s, text) /\ PutText(s, text) = g[2]
  BY <1>1, <1>4, WritesIs
<1>6. g = [i \in 0 .. 2 |-> IF i = 0 THEN s ELSE Putchar(g[i - 1], text[i])]
  BY <1>1, <1>5 DEF Writes
<1>7. g[0] = s /\ g[1] = Putchar(g[0], text[1]) /\ g[2] = Putchar(g[1], text[2])
  BY <1>6
<1>8. QED
  BY <1>1, <1>5, <1>7 DEF text

(* A text of three characters.                                             *)
LEMMA PutThree ==
    ASSUME NEW s, NEW a, NEW b, NEW c
    PROVE  PutText(s, <<a, b, c>>) = Putchar(Putchar(Putchar(s, a), b), c)
<1> DEFINE text == <<a, b, c>>
           h == [i \in 0 .. 3 |-> IF i = 0 THEN s
                                  ELSE IF i = 1 THEN Putchar(s, a)
                                  ELSE IF i = 2 THEN Putchar(Putchar(s, a), b)
                                  ELSE Putchar(Putchar(Putchar(s, a), b), c)]
<1>1. Len(text) = 3 /\ text[1] = a /\ text[2] = b /\ text[3] = c
  OBVIOUS
<1> HIDE DEF text
<1>2. ASSUME NEW i \in 0 .. 3
      PROVE  h[i] = IF i = 0 THEN s ELSE Putchar(h[i - 1], text[i])
  <2>1. CASE i = 0
    BY <2>1
  <2>2. CASE i = 1
    BY <1>1, <2>2
  <2>3. CASE i = 2
    BY <1>1, <2>3
  <2>4. CASE i = 3
    BY <1>1, <2>4
  <2>5. QED
    BY <2>1, <2>2, <2>3, <2>4
<1>3. h = [i \in 0 .. 3 |-> IF i = 0 THEN s ELSE Putchar(h[i - 1], text[i])]
  <2>1. h = [i \in 0 .. 3 |-> h[i]]
    OBVIOUS
  <2> HIDE DEF h
  <2>2. QED
    BY <1>2, <2>1
<1> HIDE DEF h
<1>4. Writes(h, s, text)
  BY <1>1, <1>3 DEF Writes
<1>5. PICK g : Writes(g, s, text) /\ PutText(s, text) = g[3]
  BY <1>1, <1>4, WritesIs
<1>6. g = [i \in 0 .. 3 |-> IF i = 0 THEN s ELSE Putchar(g[i - 1], text[i])]
  BY <1>1, <1>5 DEF Writes
<1>7. /\ g[0] = s /\ g[1] = Putchar(g[0], text[1])
      /\ g[2] = Putchar(g[1], text[2]) /\ g[3] = Putchar(g[2], text[3])
  BY <1>6
<1>8. QED
  BY <1>1, <1>5, <1>7 DEF text

(* The loop over a text of characters of T stays in a set of states that   *)
(* every character of T stays in.                                          *)
LEMMA TextRounds ==
    ASSUME NEW G, NEW T, NEW s \in G, NEW text \in Seq(T),
           \A t \in G, ch \in T : Putchar(t, ch) \in G
    PROVE  \E g \in [0 .. Len(text) -> G] :
              /\ g[0] = s /\ PutText(s, text) = g[Len(text)]
              /\ \A i \in 1 .. Len(text) : g[i] = Putchar(g[i - 1], text[i])
<1> DEFINE n == Len(text)
           Round == [x \in G \X (1 .. n) |-> Putchar(x[1], text[x[2]])]
<1>1. n \in Nat /\ \A i \in 1 .. n : text[i] \in T
  OBVIOUS
<1>2. \A t \in G, ch \in T : Putchar(t, ch) \in G
  OBVIOUS
<1>3. Round \in [G \X (1 .. n) -> G]
  BY <1>1, <1>2
<1>4. PICK h : IsTrace(h, n, G, s, Round)
  <2> HIDE DEF n, Round
  <2>1. QED
    BY <1>1, <1>3, LoopTrace
<1>5. /\ h \in [0 .. n -> G] /\ h[0] = s
      /\ \A i \in 1 .. n : h[i] = Putchar(h[i - 1], text[i])
  <2>1. /\ h \in [0 .. n -> G] /\ h[0] = s
        /\ \A i \in 1 .. n : h[i] = Round[<<h[i - 1], i>>]
    BY <1>4 DEF IsTrace
  <2>2. ASSUME NEW i \in 1 .. n PROVE <<h[i - 1], i>> \in G \X (1 .. n)
    <3>1. i - 1 \in 0 .. n
      BY <1>1
    <3> HIDE DEF n, Round
    <3>2. QED
      BY <2>1, <3>1
  <2>3. QED
    BY <2>1, <2>2
<1>6. Writes(h, s, text)
  <2>1. \A i \in 0 .. n : i = 0 \/ i \in 1 .. n
    BY <1>1
  <2>2. h = [i \in 0 .. n |-> IF i = 0 THEN s ELSE Putchar(h[i - 1], text[i])]
    <3> HIDE DEF n, Round
    <3>1. QED
      BY <1>5, <2>1
  <2>3. QED
    BY <2>2 DEF Writes
<1>7. PICK g : Writes(g, s, text) /\ PutText(s, text) = g[n]
  BY <1>6, WritesIs
<1>8. g = [i \in 0 .. n |-> IF i = 0 THEN s ELSE Putchar(g[i - 1], text[i])]
  BY <1>7 DEF Writes
<1>9. g[0] = s /\ \A i \in 1 .. n : g[i] = Putchar(g[i - 1], text[i])
  <2>1. \A i \in 1 .. n : i \in 0 .. n /\ i # 0
    BY <1>1
  <2>2. 0 \in 0 .. n
    BY <1>1
  <2> HIDE DEF n
  <2>3. QED
    BY <1>8, <2>1, <2>2
<1> DEFINE P == {i \in 0 .. n : g[i] \in G}
<1>10. 0 .. n \subseteq P
  <2>1. 0 \in P
    BY <1>1, <1>9
  <2>2. ASSUME NEW i \in 1 .. n, i - 1 \in P PROVE i \in P
    BY <1>1, <1>2, <1>9, <2>2
  <2> HIDE DEF P
  <2>3. QED
    BY <1>1, <2>1, <2>2, RoundInduction
<1>11. g \in [0 .. n -> G]
  <2>1. \A i \in 0 .. n : g[i] \in G
    BY <1>10
  <2>2. QED
    BY <1>8, <2>1
<1>12. QED
  BY <1>7, <1>9, <1>11
(* The states in which the two grids agree, and those with nothing behind  *)
(* the cursor as well.                                                     *)
Readies == {s \in Screens : Synced(s)}
Good == {s \in Screens : Synced(s) /\ BlankAhead(s)}

(* Any text keeps the two grids together.                                  *)
LEMMA ReadyTextIs ==
    ASSUME NEW s \in Readies, NEW text \in Seq(Glyphs)
    PROVE  \E g \in [0 .. Len(text) -> Readies] :
              /\ g[0] = s /\ PutText(s, text) = g[Len(text)]
              /\ \A i \in 1 .. Len(text) : g[i] = Putchar(g[i - 1], text[i])
<1>1. \A t \in Readies, ch \in Glyphs : Putchar(t, ch) \in Readies
  BY PutcharReady DEF Readies, Ready
<1>2. QED
  BY <1>1, TextRounds

(* And shows nothing behind the cursor.                                    *)
LEMMA GoodTextIs ==
    ASSUME NEW s \in Good, NEW text \in Seq(Glyphs)
    PROVE  \E g \in [0 .. Len(text) -> Good] :
              /\ g[0] = s /\ PutText(s, text) = g[Len(text)]
              /\ \A i \in 1 .. Len(text) : g[i] = Putchar(g[i - 1], text[i])
<1>1. \A t \in Good, ch \in Glyphs : Putchar(t, ch) \in Good
  BY PutcharIs DEF Good, Ready
<1>2. QED
  BY <1>1, TextRounds

(* The text is empty or ends with a line feed, which leaves the cursor in  *)
(* the first column.                                                       *)
LEMMA TextLeavesStart ==
    ASSUME NEW s \in Good, s.x = 0, NEW text \in Seq(Glyphs), text = <<>> \/ Last(text) = LF
    PROVE  LET t == PutText(s, text) IN Ready(t) /\ BlankAhead(t) /\ t.x = 0
<1> DEFINE n == Len(text)
<1>1. PICK g \in [0 .. n -> Good] :
         /\ g[0] = s /\ PutText(s, text) = g[n]
         /\ \A i \in 1 .. n : g[i] = Putchar(g[i - 1], text[i])
  BY GoodTextIs
<1>2. n \in Nat
  OBVIOUS
<1>3. g[n] \in Good
  BY <1>1, <1>2
<1>4. g[n].x = 0
  <2>1. CASE n = 0
    BY <1>1, <2>1
  <2>2. CASE n # 0
    <3>1. text[n] = LF
      BY <2>2 DEF Last
    <3>2. n \in 1 .. n /\ n - 1 \in 0 .. n
      BY <1>2, <2>2
    <3> HIDE DEF n
    <3>3. g[n] = Putchar(g[n - 1], LF) /\ g[n - 1] \in Good
      BY <1>1, <3>1, <3>2
    <3>4. PICK u \in Good : u = g[n - 1]
      BY <3>3
    <3>5. Ready(u)
      BY DEF Good, Ready
    <3>6. NextLine(u).x = 0
      BY <3>5, NextLineReady
    <3>7. QED
      BY <3>3, <3>4, <3>5, <3>6, PutNewline
  <2>3. QED
    BY <2>1, <2>2
<1>5. QED
  BY <1>1, <1>3, <1>4 DEF Good, Ready

(* clear: a blank screen, whose ring stays as it has turned.               *)
LEMMA ClearIs ==
    ASSUME NEW s \in Screens
    PROVE  LET t == Clear(s) IN Ready(t) /\ BlankAhead(t) /\ t.x = 0
<1> DEFINE t == Clear(s)
<1>1. 0 \in Lines /\ 0 \in Columns
  BY ScreenAssumption DEF Lines, Columns
<1>2. /\ t \in Screens /\ t.x = 0 /\ t.pendingScroll = 0
      /\ t.cells = Filled(" ") /\ t.data = Filled(Blank) /\ t.offset = s.offset
  BY <1>1, BlankTypes DEF Clear, Screens
<1> HIDE DEF t
<1>3. t.offset \in Lines /\ Seen(t) = t.cells
  BY <1>2, SeenIs DEF Screens
<1>4. ASSUME NEW r \in Lines, NEW c \in Columns
      PROVE  SyncedAt(t, r, c) /\ Seen(t)[r][c] = " "
  <2>1. InRing(r, t.offset) \in Lines
    BY <1>3, RingIs
  <2>2. Filled(" ")[r][c] = " " /\ Filled(Blank)[InRing(r, t.offset)][c] = Blank
    BY <2>1 DEF Filled, Lines, Columns
  <2>3. QED
    BY <1>2, <1>3, <2>2 DEF SyncedAt, Blank
<1>5. QED
  BY <1>2, <1>4 DEF t, Ready, Synced, BlankAhead, BlankFrom

(* The terminal starts with a dark screen.                                 *)
LEMMA DarkIs ==
    Dark \in Good /\ Dark.x = 0
<1>1. 0 \in Lines /\ 0 \in Columns
  BY ScreenAssumption DEF Lines, Columns
<1>2. Dark \in Screens
  BY <1>1, BlankTypes DEF Dark, Screens
<1>3. ASSUME NEW r \in Lines, NEW c \in Columns
      PROVE  SyncedAt(Dark, r, c) /\ Seen(Dark)[r][c] = " "
  <2>1. InRing(r, 0) = r
    BY ScreenAssumption DEF InRing, Lines
  <2>2. Filled(" ")[r][c] = " " /\ Filled(Blank)[r][c] = Blank
    BY DEF Filled, Lines, Columns
  <2>3. Dark.pendingScroll = 0 /\ Dark.cells = Filled(" ") /\ Dark.offset = 0 /\ Dark.data = Filled(Blank)
    BY DEF Dark
  <2>4. Seen(Dark) = Filled(" ")
    BY <1>2, <2>3, SeenIs
  <2>5. QED
    BY <2>1, <2>2, <2>3, <2>4 DEF SyncedAt, Blank
<1>4. Dark.x = 0
  BY DEF Dark
<1>5. QED
  BY <1>2, <1>3, <1>4 DEF Good, Synced, BlankAhead, BlankFrom

(* The line after the prompt in row "row" of the cells, and nothing below. *)
ShowsText(g, row, text) ==
    /\ \A c \in Columns : c >= 2 =>
          g[row][c] = IF c - 2 < Len(text) THEN text[c - 1] ELSE " "
    /\ BlankFrom(g, row + 1, 0)

(* The screen between two keys.                                            *)
Drawable(s) == Ready(s) \/ NearlyReady(s)
Shows(s, row, text) ==
    Ready(s) /\ s.pendingScroll = 0 /\ ShowsText(s.cells, row, text)

(* printPrompt at the start of an empty line.                              *)
LEMMA PromptedIs ==
    ASSUME NEW s, Drawable(s), s.x = 0, BlankAhead(s)
    PROVE  LET t == Prompted(s)
           IN Shows(t, t.y, <<>>) /\ ShowsCells(t) /\ t.x = 2
<1>1. PICK d \in Glyphs, sp \in Glyphs : d = "$" /\ sp = " "
  BY GlyphsHave
<1> DEFINE u == Putchar(s, d)
           v == Putchar(u, sp)
           t == Prompted(s)
<1>2. t = Flush(v)
  <2>1. PutText(s, <<d, sp>>) = v
    BY PutTwo
  <2>2. PromptText = <<d, sp>>
    BY <1>1 DEF PromptText
  <2> HIDE DEF v
  <2>3. QED
    BY <2>1, <2>2 DEF Prompted
<1>3. d # LF /\ d # BS /\ sp # LF /\ sp # BS
  BY <1>1 DEF LF, BS
<1>4. s \in Screens /\ s.y \in Lines /\ s.x \in Columns /\ Seen(s) \in Grid
  <2>1. s \in Screens
    BY DEF Drawable, Ready, NearlyReady
  <2>2. QED
    BY <2>1, SeenIs DEF Screens
<1>5. Cols \in Nat /\ 4 <= Cols
  BY ConsoleAssumption, ScreenAssumption
<1>6. /\ Ready(u) /\ u.pendingScroll = 0 /\ u.x = 1 /\ u.y = s.y
      /\ u.cells = [Seen(s) EXCEPT ![s.y][s.x] = d]
  <2>1. s.x + 1 < Cols /\ s.x + 1 = 1
    BY <1>5
  <2>2. /\ Ready(u) /\ u.pendingScroll = 0 /\ u.x = s.x + 1 /\ u.y = s.y
        /\ u.cells = [Seen(s) EXCEPT ![s.y][s.x] = d]
    BY <1>3, <2>1, PutGlyph DEF Drawable
  <2>3. QED
    BY <2>1, <2>2
<1> HIDE DEF u
<1>7. u \in Screens /\ Seen(u) = u.cells
  BY <1>6, SeenIs DEF Ready
<1>8. /\ Ready(v) /\ v.pendingScroll = 0 /\ v.x = 2 /\ v.y = s.y
      /\ v.cells = [u.cells EXCEPT ![s.y][1] = sp]
  <2>1. u.x + 1 < Cols /\ u.x + 1 = 2
    BY <1>5, <1>6
  <2>2. /\ Ready(v) /\ v.pendingScroll = 0 /\ v.x = u.x + 1 /\ v.y = u.y
        /\ v.cells = [Seen(u) EXCEPT ![u.y][u.x] = sp]
    BY <1>3, <1>6, <2>1, PutGlyph
  <2>3. QED
    BY <1>6, <1>7, <2>1, <2>2
<1> HIDE DEF v, t
<1>9. v \in Screens /\ Seen(v) = v.cells
  BY <1>8, SeenIs DEF Ready
<1>10. /\ Ready(t) /\ t.pendingScroll = 0 /\ t.x = v.x /\ t.y = v.y
       /\ t.cells = Seen(v) /\ ShowsCells(t)
  BY <1>2, <1>8, FlushIs
<1>11. ASSUME NEW r \in Lines, NEW c \in Columns, r > s.y \/ (r = s.y /\ c >= 2)
       PROVE  t.cells[r][c] = " "
  <2>1. Seen(s)[r][c] = " "
    <3>1. r > s.y \/ (r = s.y /\ c >= 0)
      BY <1>11 DEF Columns
    <3>2. QED
      BY <3>1 DEF BlankAhead, BlankFrom
  <2>2. u.cells[r][c] = IF r = s.y /\ c = 0 THEN d ELSE Seen(s)[r][c]
    BY <1>4, <1>6 DEF Grid
  <2>3. u.cells \in Grid
    BY <1>7 DEF Screens
  <2>4. v.cells[r][c] = IF r = s.y /\ c = 1 THEN sp ELSE u.cells[r][c]
    BY <1>8, <2>3 DEF Grid
  <2>5. ~(r = s.y /\ c = 0) /\ ~(r = s.y /\ c = 1)
    <3>1. s.y \in Int /\ r \in Int /\ c \in Int
      BY <1>4 DEF Lines, Columns
    <3>2. PICK y \in Int : y = s.y
      BY <3>1
    <3>3. QED
      BY <1>11, <3>1, <3>2
  <2>6. t.cells = v.cells
    BY <1>9, <1>10
  <2>7. QED
    BY <2>1, <2>2, <2>4, <2>5, <2>6
<1>12. ShowsText(t.cells, t.y, <<>>)
  <2>1. t.y = s.y
    BY <1>8, <1>10
  <2>2. ASSUME NEW c \in Columns, c >= 2
        PROVE  t.cells[t.y][c] = IF c - 2 < Len(<<>>) THEN <<>>[c - 1] ELSE " "
    <3>1. ~(c - 2 < Len(<<>>))
      BY <2>2 DEF Columns
    <3>2. QED
      BY <1>4, <1>11, <2>1, <2>2, <3>1
  <2>3. ASSUME NEW r \in Lines, NEW c \in Columns, r > t.y + 1 \/ (r = t.y + 1 /\ c >= 0)
        PROVE  t.cells[r][c] = " "
    <3>1. PICK y \in Lines : y = s.y
      BY <1>4
    <3>2. r > y
      BY <2>1, <2>3, <3>1 DEF Lines
    <3>3. QED
      BY <1>11, <3>1, <3>2
  <2>4. QED
    BY <2>2, <2>3 DEF ShowsText, BlankFrom
<1>13. QED
  BY <1>8, <1>10, <1>12 DEF Shows, t

(* Two characters in a row. *)
LEMMA PairOf ==
    ASSUME NEW S, NEW a \in S, NEW b \in S
    PROVE  <<a, b>> \in Seq(S) /\ <<a>> \o <<b>> = <<a, b>>
<1>1. PICK p \in Seq(S), q \in Seq(S), r \in Seq(S) : p = <<a>> /\ q = <<b>> /\ r = <<a, b>>
  <2>1. <<a>> \in Seq(S) /\ <<b>> \in Seq(S) /\ <<a, b>> \in Seq(S)
    OBVIOUS
  <2>2. QED
    BY <2>1
<1>2. Len(p) = 1 /\ p[1] = a /\ Len(q) = 1 /\ q[1] = b /\ Len(r) = 2 /\ r[1] = a /\ r[2] = b
  BY <1>1
<1>3. PICK c \in Seq(S) : c = p \o q
  BY ConcatProperties
<1>4. Len(c) = 2 /\ c[1] = a /\ c[2] = b
  <2>1. /\ Len(c) = Len(p) + Len(q)
        /\ \A i \in 1 .. Len(p) + Len(q) : c[i] = IF i <= Len(p) THEN p[i] ELSE q[i - Len(p)]
    BY <1>3, ConcatProperties
  <2>2. QED
    BY <1>2, <2>1
<1>5. c = r
  <2>1. \A i \in 1 .. Len(c) : c[i] = r[i]
    <3>1. \A i \in 1 .. 2 : i = 1 \/ i = 2
      OBVIOUS
    <3>2. QED
      BY <1>2, <1>4, <3>1
  <2>2. QED
    BY <1>2, <1>4, <2>1, SeqEqual
<1>6. QED
  BY <1>1, <1>3, <1>5

(* The line editor's edits.                                                *)
LEMMA InsertIs ==
    ASSUME NEW S, NEW text \in Seq(S), NEW at \in 1 .. Len(text) + 1, NEW e \in S
    PROVE  LET t == InsertAt(text, at, e)
           IN /\ t \in Seq(S) /\ Len(t) = Len(text) + 1
              /\ \A i \in 1 .. Len(text) + 1 :
                    t[i] = IF i < at THEN text[i] ELSE IF i = at THEN e ELSE text[i - 1]
<1>1. PICK n \in Nat : n = Len(text)
  OBVIOUS
<1>2. PICK l \in Seq(S) : l = SubSeq(text, 1, at - 1)
  <2>1. SubSeq(text, 1, at - 1) \in Seq(S)
    BY <1>1
  <2>2. QED
    BY <2>1
<1>3. Len(l) = at - 1 /\ \A i \in 1 .. at - 1 : l[i] = text[i]
  BY <1>1, <1>2
<1>4. PICK r \in Seq(S) : r = SubSeq(text, at, n)
  <2>1. SubSeq(text, at, n) \in Seq(S)
    BY <1>1
  <2>2. QED
    BY <2>1
<1>5. Len(r) = n - at + 1 /\ \A i \in 1 .. n - at + 1 : r[i] = text[at + i - 1]
  BY <1>1, <1>4
<1>6. PICK o \in Seq(S) : o = <<e>> /\ Len(o) = 1 /\ o[1] = e
  <2>1. <<e>> \in Seq(S)
    OBVIOUS
  <2>2. QED
    BY <2>1
<1>7. PICK lo \in Seq(S) : lo = l \o o
  BY ConcatProperties
<1>8. Len(lo) = at /\ \A i \in 1 .. at : lo[i] = IF i < at THEN text[i] ELSE e
  <2>1. /\ Len(lo) = Len(l) + Len(o)
        /\ \A i \in 1 .. Len(l) + Len(o) : lo[i] = IF i <= Len(l) THEN l[i] ELSE o[i - Len(l)]
    BY <1>7, ConcatProperties
  <2>2. QED
    BY <1>1, <1>3, <1>6, <2>1
<1>9. PICK t \in Seq(S) : t = lo \o r
  BY ConcatProperties
<1>10. /\ Len(t) = Len(lo) + Len(r)
       /\ \A i \in 1 .. Len(lo) + Len(r) : t[i] = IF i <= Len(lo) THEN lo[i] ELSE r[i - Len(lo)]
  BY <1>9, ConcatProperties
<1>11. Len(t) = n + 1
  BY <1>1, <1>5, <1>8, <1>10
<1>12. ASSUME NEW i \in 1 .. n + 1
       PROVE  t[i] = IF i < at THEN text[i] ELSE IF i = at THEN e ELSE text[i - 1]
  <2>1. t[i] = IF i <= at THEN lo[i] ELSE r[i - at]
    BY <1>1, <1>8, <1>10, <1>11
  <2>2. CASE i <= at
    BY <1>1, <1>8, <2>1, <2>2
  <2>3. CASE ~(i <= at)
    <3>1. i - at \in 1 .. n - at + 1 /\ at + (i - at) - 1 = i - 1
      BY <1>1, <2>3
    <3>2. QED
      BY <1>1, <1>5, <2>1, <2>3, <3>1
  <2>4. QED
    BY <2>2, <2>3
<1>13. t = InsertAt(text, at, e)
  BY <1>1, <1>2, <1>4, <1>6, <1>7, <1>9 DEF InsertAt
<1>14. QED
  BY <1>1, <1>11, <1>12, <1>13

(* Backspace and Delete: the characters behind the removed one move up.    *)
LEMMA RemoveIs ==
    ASSUME NEW S, NEW text \in Seq(S), NEW at \in 1 .. Len(text)
    PROVE  LET t == RemoveAt(text, at)
           IN /\ t \in Seq(S) /\ Len(t) = Len(text) - 1
              /\ \A i \in 1 .. Len(text) - 1 :
                    t[i] = IF i < at THEN text[i] ELSE text[i + 1]
<1>1. PICK n \in Nat : n = Len(text)
  OBVIOUS
<1>2. PICK l \in Seq(S) : l = SubSeq(text, 1, at - 1)
  <2>1. SubSeq(text, 1, at - 1) \in Seq(S)
    BY <1>1
  <2>2. QED
    BY <2>1
<1>3. Len(l) = at - 1 /\ \A i \in 1 .. at - 1 : l[i] = text[i]
  BY <1>1, <1>2
<1>4. PICK r \in Seq(S) : r = SubSeq(text, at + 1, n)
  <2>1. SubSeq(text, at + 1, n) \in Seq(S)
    BY <1>1
  <2>2. QED
    BY <2>1
<1>5. Len(r) = n - at /\ \A i \in 1 .. n - at : r[i] = text[at + i]
  BY <1>1, <1>4
<1>6. PICK t \in Seq(S) : t = l \o r
  BY ConcatProperties
<1>7. /\ Len(t) = Len(l) + Len(r)
      /\ \A i \in 1 .. Len(l) + Len(r) : t[i] = IF i <= Len(l) THEN l[i] ELSE r[i - Len(l)]
  BY <1>6, ConcatProperties
<1>8. Len(t) = n - 1
  BY <1>1, <1>3, <1>5, <1>7
<1>9. ASSUME NEW i \in 1 .. n - 1
      PROVE  t[i] = IF i < at THEN text[i] ELSE text[i + 1]
  <2>1. t[i] = IF i <= at - 1 THEN l[i] ELSE r[i - (at - 1)]
    BY <1>1, <1>3, <1>7, <1>8
  <2>2. CASE i < at
    BY <1>1, <1>3, <2>1, <2>2
  <2>3. CASE ~(i < at)
    <3>1. i - (at - 1) \in 1 .. n - at /\ at + (i - (at - 1)) = i + 1 /\ ~(i <= at - 1)
      BY <1>1, <2>3
    <3>2. QED
      BY <1>1, <1>5, <2>1, <2>3, <3>1
  <2>4. QED
    BY <2>2, <2>3
<1>10. t = RemoveAt(text, at)
  BY <1>1, <1>2, <1>4, <1>6 DEF RemoveAt
<1>11. QED
  BY <1>1, <1>8, <1>9, <1>10

(* The welcome leaves the cursor at the start of an empty line.            *)
LEMMA WelcomeIs ==
    LET s == Welcome(<<"w">>) IN Drawable(s) /\ s.x = 0 /\ BlankAhead(s)
<1> DEFINE u == PutText(Dark, <<"w", LF>>)
           s == Welcome(<<"w">>)
<1>0. PICK w \in Glyphs, lf \in Glyphs : w = "w" /\ lf = LF
  BY GlyphsHave
<1>1. s = FlushDisplay(DrawCursor(u, TRUE))
  <2>1. <<w>> \o <<lf>> = <<w, lf>>
    BY PairOf
  <2>2. QED
    BY <1>0, <2>1 DEF Welcome
<1>2. Ready(u) /\ BlankAhead(u) /\ u.x = 0
  <2>1. <<w, lf>> \in Seq(Glyphs)
    BY PairOf
  <2>2. PICK text \in Seq(Glyphs) : text = <<w, lf>>
    BY <2>1
  <2>3. Last(text) = LF
    BY <1>0, <2>2 DEF Last
  <2>4. LET t == PutText(Dark, text) IN Ready(t) /\ BlankAhead(t) /\ t.x = 0
    BY <2>3, DarkIs, TextLeavesStart
  <2>5. QED
    BY <1>0, <2>2, <2>4
<1> HIDE DEF u
<1>3. NearlyReady(s) /\ s.x = u.x /\ s.y = u.y /\ s.cells = Seen(u)
  BY <1>1, <1>2, ShownIs
<1> HIDE DEF s
<1>4. Seen(s) = s.cells
  BY <1>3, SeenIs DEF NearlyReady
<1>5. BlankAhead(s)
  BY <1>2, <1>3, <1>4 DEF BlankAhead
<1>6. QED
  BY <1>2, <1>3, <1>5 DEF Drawable, s

(* A flush between edits shows what is in the cells.                       *)
LEMMA ShowsFlush ==
    ASSUME NEW s, NEW row, NEW text, Shows(s, row, text)
    PROVE  LET t == Flush(s)
           IN Shows(t, row, text) /\ ShowsCells(t) /\ t.x = s.x /\ t.y = s.y
<1>1. Ready(s) /\ s \in Screens /\ s.pendingScroll = 0 /\ Seen(s) = s.cells
  BY SeenIs DEF Shows, Ready
<1>2. QED
  BY <1>1, FlushIs DEF Shows

(* Moving the cursor changes nothing that is drawn.                        *)
LEMMA SetCursorIs ==
    ASSUME NEW s, Ready(s), NEW col \in Columns, NEW row \in Lines
    PROVE  LET t == SetCursor(s, col, row)
           IN /\ Ready(t) /\ t.x = col /\ t.y = row
              /\ t.pendingScroll = s.pendingScroll /\ t.cells = s.cells
<1> DEFINE t == SetCursor(s, col, row)
<1>1. s \in Screens
  BY DEF Ready
<1>2. /\ t \in Screens /\ t.x = col /\ t.y = row /\ t.pendingScroll = s.pendingScroll
      /\ t.cells = s.cells /\ t.data = s.data /\ t.offset = s.offset
  BY <1>1 DEF SetCursor, Screens
<1> HIDE DEF t
<1>3. Ready(t)
  BY <1>2 DEF Ready, Synced, SyncedAt
<1>4. QED
  BY <1>2, <1>3 DEF t

(* A character that fits in its line, when no scroll is owed.              *)
LEMMA PutInLine ==
    ASSUME NEW s, Ready(s), s.pendingScroll = 0, s.x + 1 < Cols,
           NEW ch \in Glyphs, ch # LF, ch # BS
    PROVE  LET t == Putchar(s, ch)
           IN /\ Ready(t) /\ t.pendingScroll = 0 /\ t.x = s.x + 1 /\ t.y = s.y
              /\ \A r \in Lines, c \in Columns :
                    t.cells[r][c] = IF r = s.y /\ c = s.x THEN ch ELSE s.cells[r][c]
<1> DEFINE t == Putchar(s, ch)
<1>1. s \in Screens /\ Seen(s) = s.cells /\ s.cells \in Grid
  BY SeenIs DEF Ready, Screens
<1>2. /\ Ready(t) /\ t.pendingScroll = 0 /\ t.x = s.x + 1 /\ t.y = s.y
      /\ t.cells = [Seen(s) EXCEPT ![s.y][s.x] = ch]
  BY PutGlyph
<1> HIDE DEF t
<1>3. QED
  BY <1>1, <1>2 DEF Grid, t

(* s after the first i characters of text, drawn from (x, y) on. *)
PartDrawn(s, x, y, text, u, i) ==
    /\ Ready(u) /\ u.pendingScroll = 0 /\ u.x = x + i /\ u.y = y
    /\ \A r \in Lines, c \in Columns :
          u.cells[r][c] = IF r = y /\ x <= c /\ c < x + i
                          THEN text[c - x + 1] ELSE s.cells[r][c]

(* A text of characters that fits in its line.                             *)
LEMMA PutLine ==
    ASSUME NEW s, Ready(s), s.pendingScroll = 0, NEW x \in Columns, x = s.x,
           NEW y \in Lines, y = s.y,
           NEW text \in Seq(Printable), x + Len(text) < Cols
    PROVE  LET t == PutText(s, text)
           IN /\ Ready(t) /\ t.pendingScroll = 0 /\ t.x = x + Len(text) /\ t.y = y
              /\ \A r \in Lines, c \in Columns :
                    t.cells[r][c] = IF r = y /\ x <= c /\ c < x + Len(text)
                                    THEN text[c - x + 1] ELSE s.cells[r][c]
<1> DEFINE n == Len(text)
<1>0. text \in Seq(Glyphs) /\ n \in Nat /\ \A i \in 1 .. n : text[i] \in Printable
  <2>1. Printable \subseteq Glyphs
    BY DEF Glyphs
  <2>2. n \in Nat /\ \A i \in 1 .. n : text[i] \in Printable
    OBVIOUS
  <2>3. text \in Seq(Glyphs)
    BY <2>1, SeqMonotonic
  <2>4. QED
    BY <2>2, <2>3
<1>1. PICK g \in [0 .. n -> Readies] :
         /\ g[0] = s /\ PutText(s, text) = g[n]
         /\ \A i \in 1 .. n : g[i] = Putchar(g[i - 1], text[i])
  <2>1. s \in Readies
    BY DEF Ready, Readies
  <2>2. QED
    BY <1>0, <2>1, ReadyTextIs
<1> DEFINE P == {i \in 0 .. n : PartDrawn(s, x, y, text, g[i], i)}
<1>2. 0 \in P
  <2>1. ASSUME NEW c \in Columns PROVE ~(x <= c /\ c < x + 0)
    BY DEF Columns
  <2>2. PartDrawn(s, x, y, text, s, 0)
    BY <2>1 DEF PartDrawn, Columns
  <2>3. QED
    BY <1>0, <1>1, <2>2
<1>3. ASSUME NEW i \in 1 .. n, i - 1 \in P PROVE i \in P
  <2>1. PICK u \in Readies : u = g[i - 1]
    BY <1>0, <1>1
  <2>2. PartDrawn(s, x, y, text, u, i - 1)
    BY <1>3, <2>1
  <2>3. PICK ch \in Printable : ch = text[i]
    BY <1>0
  <2>4. ch \in Glyphs /\ ch # LF /\ ch # BS
    BY ConsoleAssumption DEF Glyphs
  <2>5. PICK j \in Nat : j = i - 1 /\ i = j + 1 /\ x + j + 1 < Cols
    BY <1>0, ScreenAssumption DEF Columns
  <2>6. u.x = x + j /\ u.x + 1 < Cols /\ Ready(u) /\ u.pendingScroll = 0
        /\ u.y = y
    BY <2>2, <2>5 DEF PartDrawn
  <2> DEFINE t == Putchar(u, ch)
  <2>7. /\ Ready(t) /\ t.pendingScroll = 0 /\ t.x = u.x + 1 /\ t.y = u.y
        /\ \A r \in Lines, c \in Columns :
              t.cells[r][c] = IF r = u.y /\ c = u.x THEN ch ELSE u.cells[r][c]
    BY <2>4, <2>6, PutInLine
  <2> HIDE DEF t
  <2>8. ASSUME NEW r \in Lines, NEW c \in Columns
        PROVE  t.cells[r][c] = IF r = y /\ x <= c /\ c < x + i
                               THEN text[c - x + 1] ELSE s.cells[r][c]
    <3>1. u.cells[r][c] = IF r = y /\ x <= c /\ c < x + j
                          THEN text[c - x + 1] ELSE s.cells[r][c]
      BY <2>2, <2>5 DEF PartDrawn
    <3>2. t.cells[r][c] = IF r = y /\ c = x + j THEN ch ELSE u.cells[r][c]
      BY <2>6, <2>7
    <3>3. (x <= c /\ c < x + i) <=> (c = x + j \/ (x <= c /\ c < x + j))
      BY <2>5 DEF Columns
    <3>4. c = x + j => c - x + 1 = i
      BY <2>5 DEF Columns
    <3>5. CASE r = y /\ c = x + j
      BY <2>3, <3>2, <3>3, <3>4, <3>5
    <3>6. CASE ~(r = y /\ c = x + j)
      BY <3>1, <3>2, <3>3, <3>6
    <3>7. QED
      BY <3>5, <3>6
  <2>9. t.x = x + i
    BY <2>5, <2>6, <2>7 DEF Columns
  <2>10. PartDrawn(s, x, y, text, t, i)
    BY <2>6, <2>7, <2>8, <2>9 DEF PartDrawn
  <2>11. t = g[i]
    BY <1>1, <2>1, <2>3 DEF t
  <2>12. QED
    BY <1>0, <2>10, <2>11
<1> HIDE DEF P
<1>4. 0 .. n \subseteq P
  BY <1>0, <1>2, <1>3, RoundInduction
<1>5. n \in P
  BY <1>0, <1>4
<1>6. QED
  BY <1>1, <1>5 DEF P, PartDrawn

(* Where a line of the editor fits, with the prompt before it.             *)
LEMMA Room ==
    ASSUME NEW n \in 0 .. SHELL_MAX_INPUT
    PROVE  /\ 2 \in Columns /\ 2 + n \in Columns /\ 2 + n + 1 < Cols
           /\ n # 0 => 1 + n \in Columns /\ 1 + n + 1 < Cols
BY ConsoleAssumption, ScreenAssumption DEF Columns

(* redrawLine: the new line is on the screen, and nothing of the longer    *)
(* line it replaces.                                                       *)
LEMMA RedrawnIs ==
    ASSUME NEW s, NEW row \in Lines, NEW old \in Seq(Printable),
           Len(old) <= SHELL_MAX_INPUT, Shows(s, row, old),
           NEW text \in Seq(Printable), Len(text) <= SHELL_MAX_INPUT, Len(old) <= Len(text) + 1,
           NEW at \in 0 .. Len(text), prompt.col = 2, prompt.row = row
    PROVE  LET t == Redrawn(s, text, at)
           IN Shows(t, row, text) /\ ShowsCells(t) /\ t.x = 2 + at /\ t.y = row
<1>1. PICK n \in Nat : n = Len(text)
  OBVIOUS
<1>2. n \in 0 .. SHELL_MAX_INPUT /\ at \in 0 .. SHELL_MAX_INPUT
  BY <1>1, ConsoleAssumption
<1>3. /\ 2 \in Columns /\ 2 + n \in Columns /\ 2 + n + 1 < Cols /\ 2 + at \in Columns
      /\ 2 + n < Cols
  BY <1>2, Room, ScreenAssumption DEF Columns
<1>4. PICK two \in Columns : two = 2
  BY <1>3
<1>5. PICK sp \in Glyphs : sp = " " /\ sp # LF /\ sp # BS
  BY GlyphsHave DEF LF, BS
<1> DEFINE a == SetCursor(s, two, row)
           b == PutText(a, text)
           c == Putchar(b, sp)
           d == SetCursor(c, two + at, row)
           t == Redrawn(s, text, at)
<1>6. t = Flush(d)
  BY <1>4, <1>5 DEF Redrawn
<1>7. /\ Ready(a) /\ a.x = two /\ a.y = row /\ a.pendingScroll = 0 /\ a.cells = s.cells
  BY SetCursorIs DEF Shows
<1> HIDE DEF a
<1>8. /\ Ready(b) /\ b.pendingScroll = 0 /\ b.x = two + n /\ b.y = row
      /\ \A r \in Lines, k \in Columns :
            b.cells[r][k] = IF r = row /\ two <= k /\ k < two + n
                            THEN text[k - two + 1] ELSE a.cells[r][k]
  <2>1. two + Len(text) < Cols
    BY <1>1, <1>3, <1>4
  <2>2. QED
    BY <1>1, <1>7, <2>1, PutLine
<1> HIDE DEF b
<1>9. /\ Ready(c) /\ c.pendingScroll = 0
      /\ \A r \in Lines, k \in Columns :
            c.cells[r][k] = IF r = row /\ k = two + n THEN sp ELSE b.cells[r][k]
  <2>1. b.x + 1 < Cols
    BY <1>3, <1>4, <1>8
  <2>2. /\ Ready(c) /\ c.pendingScroll = 0
        /\ \A r \in Lines, k \in Columns :
              c.cells[r][k] = IF r = b.y /\ k = b.x THEN sp ELSE b.cells[r][k]
    <3>1. sp # LF /\ sp # BS
      BY <1>5
    <3>2. QED
      BY <1>8, <2>1, <3>1, PutInLine
  <2>3. QED
    BY <1>8, <2>2
<1> HIDE DEF c
<1>10. PICK at2 \in Columns : at2 = two + at
  BY <1>3, <1>4
<1>11. Ready(d) /\ d.x = two + at /\ d.y = row /\ d.pendingScroll = 0 /\ d.cells = c.cells
  BY <1>9, <1>10, SetCursorIs
<1> HIDE DEF d
<1>12. ASSUME NEW k \in Columns, k >= 2
       PROVE  d.cells[row][k] = IF k - 2 < Len(text) THEN text[k - 1] ELSE " "
  <2>1. d.cells[row][k] = IF k = two + n THEN sp
                          ELSE IF two <= k /\ k < two + n THEN text[k - two + 1]
                          ELSE s.cells[row][k]
    BY <1>7, <1>8, <1>9, <1>11
  <2>2. s.cells[row][k] = IF k - 2 < Len(old) THEN old[k - 1] ELSE " "
    BY <1>12 DEF Shows, ShowsText
  <2>3. Len(old) \in Nat /\ Len(old) <= n + 1
    BY <1>1
  <2>4. k \in Int
    BY DEF Columns
  <2>5. CASE k = 2 + n
    <3>1. k = two + n /\ ~(k - 2 < Len(text))
      BY <1>1, <1>4, <2>4, <2>5
    <3>2. QED
      BY <1>5, <2>1, <3>1
  <2>6. CASE k < 2 + n
    <3>1. k - two + 1 = k - 1 /\ k - 2 < Len(text) /\ two <= k /\ k < two + n /\ k # two + n
      BY <1>1, <1>4, <1>12, <2>4, <2>6
    <3>2. QED
      BY <2>1, <3>1
  <2>7. CASE k > 2 + n
    <3>1. ~(k - 2 < Len(text)) /\ ~(k < two + n) /\ k # two + n /\ ~(k - 2 < Len(old))
      BY <1>1, <1>4, <2>3, <2>4, <2>7
    <3>2. QED
      BY <2>1, <2>2, <3>1
  <2>8. k = 2 + n \/ k < 2 + n \/ k > 2 + n
    BY <1>1, <2>4
  <2>9. QED
    BY <2>5, <2>6, <2>7, <2>8
<1>13. BlankFrom(d.cells, row + 1, 0)
  <2>1. ASSUME NEW r \in Lines, NEW k \in Columns, r > row + 1 \/ (r = row + 1 /\ k >= 0)
        PROVE  d.cells[r][k] = " "
    <3>1. r # row
      BY <2>1 DEF Lines
    <3>2. s.cells[r][k] = " "
      BY <2>1 DEF Shows, ShowsText, BlankFrom
    <3>3. b.cells[r][k] = a.cells[r][k]
      BY <1>8, <3>1
    <3>4. c.cells[r][k] = b.cells[r][k]
      BY <1>9, <3>1
    <3>5. QED
      BY <1>7, <1>11, <3>2, <3>3, <3>4
  <2>2. QED
    BY <2>1 DEF BlankFrom
<1>14. Shows(d, row, text)
  BY <1>11, <1>12, <1>13 DEF Shows, ShowsText
<1>15. Shows(t, row, text) /\ ShowsCells(t) /\ t.x = d.x /\ t.y = d.y
  BY <1>6, <1>14, ShowsFlush
<1>16. QED
  BY <1>4, <1>11, <1>15

(* t is s with the cursor in column x of its line and that cell blank. *)
BlankAt(s, x, t) ==
    /\ Ready(t) /\ t.pendingScroll = 0 /\ t.x = x /\ t.y = s.y
    /\ \A r \in Lines, c \in Columns :
          t.cells[r][c] = IF r = s.y /\ c = x THEN " " ELSE s.cells[r][c]

(* A backspace that stays in its line.                                     *)
LEMMA BackInLine ==
    ASSUME NEW s, Ready(s), s.pendingScroll = 0, NEW x \in Columns, x + 1 = s.x
    PROVE  BlankAt(s, x, Putchar(s, BS))
<1> DEFINE b == BackOne(s)
           t == Putchar(s, BS)
<1>1. s \in Screens /\ Seen(s) = s.cells /\ s.cells \in Grid
  BY SeenIs DEF Ready, Screens
<1>2. /\ b = IF s.x > 0 THEN [s EXCEPT !.x = s.x - 1]
              ELSE IF s.y > 0 THEN [s EXCEPT !.y = s.y - 1, !.x = Cols - 1] ELSE s
      /\ Ready(t) /\ t.pendingScroll = 0 /\ t.x = b.x /\ t.y = b.y
      /\ t.cells = [Seen(s) EXCEPT ![b.y][b.x] = " "]
  BY PutBackspace
<1> HIDE DEF b, t
<1>3. s.x > 0 /\ s.x - 1 = x
  <2>1. PICK z : z = s.x
    OBVIOUS
  <2>2. x \in Int /\ x >= 0
    BY ScreenAssumption DEF Columns
  <2>3. QED
    BY <2>1, <2>2
<1>4. b.x = x /\ b.y = s.y
  BY <1>1, <1>2, <1>3 DEF Screens
<1>5. t.cells = [s.cells EXCEPT ![s.y][x] = " "]
  BY <1>1, <1>2, <1>4
<1>6. PICK sp : sp = " "
  OBVIOUS
<1>7. ASSUME NEW r \in Lines, NEW c \in Columns
      PROVE  t.cells[r][c] = IF r = s.y /\ c = x THEN sp ELSE s.cells[r][c]
  <2>1. t.cells = [s.cells EXCEPT ![s.y][x] = sp]
    BY <1>5, <1>6
  <2>2. QED
    BY <1>1, <2>1 DEF Grid
<1>8. QED
  BY <1>2, <1>4, <1>6, <1>7 DEF t, BlankAt

(* What Backspace prints at the end of the line. *)
Erasure == <<BS, " ", BS>>

(* Backspace at the end of the line: the last character is gone.           *)
LEMMA ErasedIs ==
    ASSUME NEW s, NEW row \in Lines, NEW old \in Seq(Printable), NEW n \in Nat,
           Len(old) = n + 1, n + 1 <= SHELL_MAX_INPUT,
           Shows(s, row, old), s.x = 2 + (n + 1), s.y = row,
           NEW text \in Seq(Printable), Len(text) = n, \A i \in 1 .. n : text[i] = old[i]
    PROVE  LET t == Flush(PutText(s, Erasure))
           IN Shows(t, row, text) /\ ShowsCells(t) /\ t.x = 2 + n /\ t.y = row
<1>1. n \in 0 .. SHELL_MAX_INPUT
  BY ConsoleAssumption
<1>2. PICK x \in Columns : x = 2 + n /\ x + 1 < Cols
  BY <1>1, Room
<1>3. PICK sp \in Glyphs : sp = " " /\ sp # LF /\ sp # BS
  BY GlyphsHave DEF LF, BS
<1>4. sp # LF /\ sp # BS
  BY <1>3
<1> DEFINE a == Putchar(s, BS)
           b == Putchar(a, sp)
           c == Putchar(b, BS)
<1>5. PutText(s, Erasure) = c
  <2>1. PutText(s, <<BS, sp, BS>>) = c
    BY PutThree
  <2> HIDE DEF c
  <2>2. QED
    BY <1>3, <2>1 DEF Erasure
<1>6. Ready(s) /\ s.pendingScroll = 0 /\ x + 1 = s.x
  BY <1>2 DEF Shows
<1>7. /\ Ready(a) /\ a.pendingScroll = 0 /\ a.x = x /\ a.y = s.y
      /\ \A r \in Lines, k \in Columns :
            a.cells[r][k] = IF r = s.y /\ k = x THEN " " ELSE s.cells[r][k]
  BY <1>6, BackInLine DEF BlankAt
<1> HIDE DEF a
<1>8. a.x + 1 < Cols
  BY <1>2, <1>7
<1>9. /\ Ready(b) /\ b.pendingScroll = 0 /\ b.x = a.x + 1 /\ b.y = a.y
      /\ \A r \in Lines, k \in Columns :
            b.cells[r][k] = IF r = a.y /\ k = a.x THEN sp ELSE a.cells[r][k]
  BY <1>4, <1>7, <1>8, PutInLine
<1> HIDE DEF b
<1>10. x + 1 = b.x /\ Ready(b) /\ b.pendingScroll = 0
  BY <1>7, <1>9
<1>11. /\ Ready(c) /\ c.pendingScroll = 0 /\ c.x = x /\ c.y = b.y
       /\ \A r \in Lines, k \in Columns :
             c.cells[r][k] = IF r = b.y /\ k = x THEN " " ELSE b.cells[r][k]
  <2>1. BlankAt(b, x, c)
    BY <1>10, BackInLine
  <2> HIDE DEF c
  <2>2. QED
    BY <2>1 DEF BlankAt
<1> HIDE DEF c
<1>12. ASSUME NEW r \in Lines, NEW k \in Columns
       PROVE  c.cells[r][k] = IF r = row /\ k = x THEN " " ELSE s.cells[r][k]
  <2>1. a.y = row /\ a.x = x /\ b.y = row
    BY <1>7, <1>9
  <2>2. c.cells[r][k] = IF r = b.y /\ k = x THEN " " ELSE b.cells[r][k]
    BY <1>11
  <2>3. b.cells[r][k] = IF r = a.y /\ k = a.x THEN sp ELSE a.cells[r][k]
    BY <1>9
  <2>4. a.cells[r][k] = IF r = s.y /\ k = x THEN " " ELSE s.cells[r][k]
    BY <1>7
  <2>5. QED
    BY <2>1, <2>2, <2>3, <2>4
<1>13. ASSUME NEW k \in Columns, k >= 2
       PROVE  c.cells[row][k] = IF k - 2 < Len(text) THEN text[k - 1] ELSE " "
  <2>1. s.cells[row][k] = IF k - 2 < n + 1 THEN old[k - 1] ELSE " "
    BY <1>13 DEF Shows, ShowsText
  <2>2. k \in Int
    BY DEF Columns
  <2>3. CASE k = x
    <3>1. ~(k - 2 < Len(text))
      BY <1>2, <2>2, <2>3
    <3>2. QED
      BY <1>12, <2>3, <3>1
  <2>4. CASE k < x
    <3>1. k # x /\ k - 2 < Len(text) /\ k - 2 < n + 1 /\ k - 1 \in 1 .. n
      BY <1>2, <1>13, <2>2, <2>4
    <3>2. text[k - 1] = old[k - 1]
      BY <3>1
    <3>3. QED
      BY <1>12, <2>1, <3>1, <3>2
  <2>5. CASE k > x
    <3>1. k # x /\ ~(k - 2 < Len(text)) /\ ~(k - 2 < n + 1)
      BY <1>2, <2>2, <2>5
    <3>2. QED
      BY <1>12, <2>1, <3>1
  <2>6. k = x \/ k < x \/ k > x
    BY <1>2, <2>2
  <2>7. QED
    BY <2>3, <2>4, <2>5, <2>6
<1>14. BlankFrom(c.cells, row + 1, 0)
  <2>1. ASSUME NEW r \in Lines, NEW k \in Columns, r > row + 1 \/ (r = row + 1 /\ k >= 0)
        PROVE  c.cells[r][k] = " "
    <3>1. r # row
      BY <2>1 DEF Lines
    <3>2. s.cells[r][k] = " "
      BY <2>1 DEF Shows, ShowsText, BlankFrom
    <3>3. QED
      BY <1>12, <3>1, <3>2
  <2>2. QED
    BY <2>1 DEF BlankFrom
<1>15. Shows(c, row, text)
  BY <1>11, <1>13, <1>14 DEF Shows, ShowsText
<1>16. LET t == Flush(c)
       IN Shows(t, row, text) /\ ShowsCells(t) /\ t.x = c.x /\ t.y = c.y
  BY <1>15, ShowsFlush
<1>17. c.x = 2 + n /\ c.y = row
  BY <1>2, <1>7, <1>9, <1>11
<1>18. QED
  BY <1>5, <1>16, <1>17

(* A character typed at the end of the line.                               *)
LEMMA TypedIs ==
    ASSUME NEW s, NEW row \in Lines, NEW old \in Seq(Printable), NEW n \in Nat,
           Len(old) = n, n + 1 <= SHELL_MAX_INPUT,
           Shows(s, row, old), s.x = 2 + n, s.y = row, NEW ch \in Printable,
           NEW text \in Seq(Printable), Len(text) = n + 1,
           \A i \in 1 .. n : text[i] = old[i], text[n + 1] = ch
    PROVE  LET t == Flush(Putchar(s, ch))
           IN Shows(t, row, text) /\ ShowsCells(t) /\ t.x = 2 + (n + 1) /\ t.y = row
<1>1. n \in 0 .. SHELL_MAX_INPUT
  BY ConsoleAssumption
<1>2. PICK x \in Columns : x = 2 + n /\ x + 1 < Cols
  BY <1>1, Room
<1>3. ch \in Glyphs /\ ch # LF /\ ch # BS
  BY ConsoleAssumption DEF Glyphs
<1> DEFINE c == Putchar(s, ch)
<1>4. Ready(s) /\ s.pendingScroll = 0 /\ s.x = x /\ s.x + 1 < Cols
  BY <1>2 DEF Shows
<1>5. /\ Ready(c) /\ c.pendingScroll = 0 /\ c.x = s.x + 1 /\ c.y = s.y
      /\ \A r \in Lines, k \in Columns :
            c.cells[r][k] = IF r = s.y /\ k = s.x THEN ch ELSE s.cells[r][k]
  BY <1>3, <1>4, PutInLine
<1> HIDE DEF c
<1>6. \A r \in Lines, k \in Columns :
         c.cells[r][k] = IF r = row /\ k = x THEN ch ELSE s.cells[r][k]
  BY <1>4, <1>5
<1>7. ASSUME NEW k \in Columns, k >= 2
      PROVE  c.cells[row][k] = IF k - 2 < Len(text) THEN text[k - 1] ELSE " "
  <2>1. s.cells[row][k] = IF k - 2 < n THEN old[k - 1] ELSE " "
    BY <1>7 DEF Shows, ShowsText
  <2>2. k \in Int
    BY DEF Columns
  <2>3. CASE k = x
    <3>1. k - 2 < Len(text) /\ k - 1 = n + 1
      BY <1>2, <2>2, <2>3
    <3>2. QED
      BY <1>6, <2>3, <3>1
  <2>4. CASE k < x
    <3>1. k # x /\ k - 2 < Len(text) /\ k - 2 < n /\ k - 1 \in 1 .. n
      BY <1>2, <1>7, <2>2, <2>4
    <3>2. text[k - 1] = old[k - 1]
      BY <3>1
    <3>3. QED
      BY <1>6, <2>1, <3>1, <3>2
  <2>5. CASE k > x
    <3>1. k # x /\ ~(k - 2 < Len(text)) /\ ~(k - 2 < n)
      BY <1>2, <2>2, <2>5
    <3>2. QED
      BY <1>6, <2>1, <3>1
  <2>6. k = x \/ k < x \/ k > x
    BY <1>2, <2>2
  <2>7. QED
    BY <2>3, <2>4, <2>5, <2>6
<1>8. BlankFrom(c.cells, row + 1, 0)
  <2>1. ASSUME NEW r \in Lines, NEW k \in Columns, r > row + 1 \/ (r = row + 1 /\ k >= 0)
        PROVE  c.cells[r][k] = " "
    <3>1. r # row
      BY <2>1 DEF Lines
    <3>2. s.cells[r][k] = " "
      BY <2>1 DEF Shows, ShowsText, BlankFrom
    <3>3. QED
      BY <1>6, <3>1, <3>2
  <2>2. QED
    BY <2>1 DEF BlankFrom
<1>9. Shows(c, row, text)
  BY <1>5, <1>7, <1>8 DEF Shows, ShowsText
<1>10. LET t == Flush(c)
       IN Shows(t, row, text) /\ ShowsCells(t) /\ t.x = c.x /\ t.y = c.y
  BY <1>9, ShowsFlush
<1>11. c.x = 2 + (n + 1) /\ c.y = row
  BY <1>2, <1>4, <1>5
<1>12. QED
  BY <1>10, <1>11 DEF c

(* What commands print.                                                    *)
LEMMA OutputsAre ==
    ASSUME NEW out \in Outputs
    PROVE  out \in Seq(Glyphs) /\ (out = <<>> \/ Last(out) = LF)
<1>1. out \in Seq(Range(out)) /\ (out = <<>> \/ Last(out) = LF)
  BY ConsoleAssumption
<1>2. Range(out) \subseteq Glyphs
  BY DEF Glyphs
<1>3. QED
  BY <1>1, <1>2, SeqMonotonic

(* A command leaves the cursor at the start of an empty line.              *)
LEMMA ResultsAre ==
    ASSUME NEW s \in Good, s.x = 0, NEW t \in Results(s)
    PROVE  Drawable(t) /\ t.x = 0 /\ BlankAhead(t)
<1>1. CASE t = Flush(Clear(s))
  <2>1. PICK c : c = Clear(s)
    OBVIOUS
  <2>2. Ready(c) /\ BlankAhead(c) /\ c.x = 0
    BY <2>1, ClearIs DEF Good
  <2>3. Ready(t) /\ t.x = c.x /\ t.y = c.y /\ t.cells = Seen(c) /\ t.pendingScroll = 0
    BY <1>1, <2>1, <2>2, FlushIs
  <2>4. Seen(t) = t.cells
    BY <2>3, SeenIs DEF Ready
  <2>5. QED
    BY <2>2, <2>3, <2>4 DEF Drawable, BlankAhead
<1>2. CASE \E out \in Outputs : t = PutText(s, out)
  <2>1. PICK out \in Outputs : t = PutText(s, out)
    BY <1>2
  <2>2. out \in Seq(Glyphs) /\ (out = <<>> \/ Last(out) = LF)
    BY OutputsAre
  <2>3. QED
    BY <2>1, <2>2, TextLeavesStart DEF Drawable
<1>3. QED
  BY <1>1, <1>2 DEF Results

-----------------------------------------------------------------------------
(* The shell.                                                              *)

(* Between two keys: what the user sees is what the buffer holds, in the   *)
(* back buffer of the display too, and no scroll is owed.                  *)
ScreenInv ==
    /\ line \in Seq(Printable) /\ Len(line) <= SHELL_MAX_INPUT /\ cursor \in 0 .. Len(line)
    /\ prompt.col = 2 /\ prompt.row = screen.y
    /\ screen.x = 2 + cursor
    /\ Shows(screen, screen.y, line) /\ ShowsCells(screen)

(* The invariant implies ScreenShowsLine, and no scroll is owed.           *)
LEMMA ScreenInvIs ==
    ASSUME ScreenInv
    PROVE  /\ ScreenShowsLine
           /\ Ready(screen) /\ screen \in Screens /\ screen.y \in Lines
           /\ screen.pendingScroll = 0 /\ Seen(screen) = screen.cells
<1>1. /\ Ready(screen) /\ screen \in Screens /\ screen.y \in Lines
      /\ screen.pendingScroll = 0 /\ Seen(screen) = screen.cells
  BY SeenIs DEF ScreenInv, Shows, Ready, Screens
<1>2. ASSUME NEW col \in prompt.col .. Cols - 1
      PROVE  screen.cells[prompt.row][col] =
                IF col - prompt.col < Len(line) THEN line[col - prompt.col + 1] ELSE " "
  <2>1. prompt.col = 2 /\ prompt.row = screen.y
    BY DEF ScreenInv
  <2>2. col \in Columns /\ col >= 2 /\ col - 2 + 1 = col - 1
    BY <2>1 DEF Columns
  <2>3. screen.cells[screen.y][col] = IF col - 2 < Len(line) THEN line[col - 1] ELSE " "
    BY <2>2 DEF ScreenInv, Shows, ShowsText
  <2>4. QED
    BY <2>1, <2>2, <2>3
<1>3. <<screen.x, screen.y>> = <<prompt.col + cursor, prompt.row>>
  BY DEF ScreenInv
<1>4. ScreenShowsLine
  BY <1>2, <1>3 DEF ScreenInv, ScreenShowsLine
<1>5. QED
  BY <1>1, <1>4

(* A prompt with nothing behind it.                                        *)
LEMMA PrintPromptStep ==
    ASSUME NEW s, Drawable(s), s.x = 0, BlankAhead(s), PrintPrompt(s),
           line' = <<>>, cursor' = 0
    PROVE  ScreenInv'
<1>1. PICK t : t = Prompted(s)
  OBVIOUS
<1>2. Shows(t, t.y, <<>>) /\ ShowsCells(t) /\ t.x = 2
  BY <1>1, PromptedIs
<1>3. screen' = t /\ prompt' = [col |-> t.x, row |-> t.y]
  BY <1>1 DEF PrintPrompt
<1>4. <<>> \in Seq(Printable) /\ Len(<<>>) = 0 /\ 0 <= SHELL_MAX_INPUT
  BY ConsoleAssumption
<1>5. prompt'.col = 2 /\ prompt'.row = t.y
  BY <1>2, <1>3
<1>6. QED
  BY <1>2, <1>3, <1>4, <1>5 DEF ScreenInv

(* Enter on an empty line and on a command keeps the invariant: whatever   *)
(* the command prints, a prompt alone on its line follows.                 *)
LEMMA EnterStep ==
    ASSUME ScreenInv, Enter, line = <<>> \/ Words(line)
    PROVE  ScreenInv'
<1> DEFINE s == Putchar(screen, LF)
<1>1. s \in Good /\ s.x = 0
  <2>1. Ready(screen) /\ Seen(screen) = screen.cells
    BY ScreenInvIs
  <2>2. BlankFrom(Seen(screen), screen.y + 1, 0)
    BY <2>1 DEF ScreenInv, Shows, ShowsText
  <2>3. LET t == NextLine(screen) IN Ready(t) /\ BlankAhead(t) /\ t.x = 0
    BY <2>1, <2>2, NextLineIs
  <2>4. QED
    BY <2>1, <2>3, PutNewline DEF Good, Ready
<1> HIDE DEF s
<1>2. CASE ~Words(line)
  <2>1. PrintPrompt(s) /\ line' = line /\ cursor' = cursor
    BY <1>2 DEF Enter, s
  <2>2. line = <<>>
    BY <1>2
  <2>3. cursor = 0
    BY <2>2 DEF ScreenInv
  <2>4. Drawable(s) /\ BlankAhead(s)
    BY <1>1 DEF Good, Drawable, Ready
  <2>5. QED
    BY <1>1, <2>1, <2>2, <2>3, <2>4, PrintPromptStep
<1>3. CASE Words(line)
  <2>1. (\E t \in Results(s) : PrintPrompt(t)) /\ line' = <<>> /\ cursor' = 0
    BY <1>3 DEF Enter, s
  <2>2. PICK t \in Results(s) : PrintPrompt(t)
    BY <2>1
  <2>3. Drawable(t) /\ t.x = 0 /\ BlankAhead(t)
    BY <1>1, ResultsAre
  <2>4. QED
    BY <2>1, <2>2, <2>3, PrintPromptStep
<1>4. QED
  BY <1>2, <1>3

(* The invariant of the state after an edit in the same line.              *)
LEMMA EditedStep ==
    ASSUME ScreenInv, NEW text \in Seq(Printable), Len(text) <= SHELL_MAX_INPUT,
           NEW at \in 0 .. Len(text), NEW t, Shows(t, screen.y, text), ShowsCells(t),
           t.x = 2 + at, t.y = screen.y,
           line' = text, cursor' = at, screen' = t, UNCHANGED prompt
    PROVE  ScreenInv'
BY DEF ScreenInv

(* Backspace keeps the invariant, at the end of the line, where it erases, *)
(* and in the middle, where it redraws.                                    *)
LEMMA BackspaceStep ==
    ASSUME ScreenInv, Backspace, cursor # 0
    PROVE  ScreenInv'
<1>1. /\ line' = RemoveAt(line, cursor) /\ cursor' = cursor - 1
      /\ screen' = IF cursor' = Len(line') THEN Flush(PutText(screen, Erasure))
                   ELSE Redrawn(screen, line', cursor')
      /\ UNCHANGED prompt
  BY DEF Backspace, Erasure
<1>2. PICK old \in Seq(Printable) : old = line
  BY DEF ScreenInv
<1>3. PICK n \in Nat : Len(old) = n + 1
  <2>1. Len(old) \in Nat /\ Len(old) # 0
    BY <1>2 DEF ScreenInv
  <2>2. Len(old) - 1 \in Nat /\ Len(old) = (Len(old) - 1) + 1
    BY <2>1
  <2>3. QED
    BY <2>2
<1>4. PICK c \in 1 .. n + 1 : c = cursor
  BY <1>2, <1>3 DEF ScreenInv
<1>5. PICK text \in Seq(Printable) :
         /\ text = RemoveAt(old, c) /\ Len(text) = n
         /\ \A i \in 1 .. n : text[i] = IF i < c THEN old[i] ELSE old[i + 1]
  <2>1. c \in 1 .. Len(old) /\ Len(old) - 1 = n
    BY <1>3
  <2>2. /\ RemoveAt(old, c) \in Seq(Printable) /\ Len(RemoveAt(old, c)) = Len(old) - 1
        /\ \A i \in 1 .. Len(old) - 1 :
              RemoveAt(old, c)[i] = IF i < c THEN old[i] ELSE old[i + 1]
    BY <2>1, RemoveIs
  <2>3. QED
    BY <2>1, <2>2
<1>6. PICK y \in Lines : y = screen.y
  BY ScreenInvIs
<1>7. /\ Shows(screen, y, old) /\ n + 1 <= SHELL_MAX_INPUT
      /\ screen.x = 2 + c /\ prompt.col = 2 /\ prompt.row = y
  BY <1>2, <1>3, <1>4, <1>6 DEF ScreenInv
<1>8. line' = text /\ cursor' = c - 1 /\ c - 1 \in 0 .. Len(text) /\ Len(text) <= SHELL_MAX_INPUT
  <2>1. line' = text /\ cursor' = c - 1
    BY <1>1, <1>2, <1>4, <1>5
  <2>2. SHELL_MAX_INPUT \in Nat
    BY ConsoleAssumption
  <2>3. Len(text) = n
    BY <1>5
  <2>4. QED
    BY <1>7, <2>1, <2>2, <2>3
<1>9. PICK t : t = screen'
  OBVIOUS
<1>10. Shows(t, y, text) /\ ShowsCells(t) /\ t.x = 2 + (c - 1) /\ t.y = y
  <2>1. CASE c - 1 = n
    <3>1. t = Flush(PutText(screen, Erasure))
      BY <1>1, <1>5, <1>8, <1>9, <2>1
    <3>2. \A i \in 1 .. n : text[i] = old[i]
      BY <1>5, <2>1
    <3>3. screen.x = 2 + (n + 1)
      BY <1>7, <2>1
    <3>4. Len(text) = n
      BY <1>5
    <3>5. LET u == Flush(PutText(screen, Erasure))
          IN Shows(u, y, text) /\ ShowsCells(u) /\ u.x = 2 + n /\ u.y = y
      BY <1>3, <1>6, <1>7, <3>2, <3>3, <3>4, ErasedIs
    <3>6. QED
      BY <2>1, <3>1, <3>5
  <2>2. CASE c - 1 # n
    <3>1. t = Redrawn(screen, text, c - 1)
      BY <1>1, <1>5, <1>8, <1>9, <2>2
    <3>2. Len(old) <= SHELL_MAX_INPUT /\ Len(text) <= SHELL_MAX_INPUT /\ Len(old) <= Len(text) + 1
      BY <1>3, <1>5, <1>7, <1>8
    <3>3. PICK at \in 0 .. Len(text) : at = c - 1
      BY <1>8
    <3>4. LET u == Redrawn(screen, text, at)
          IN Shows(u, y, text) /\ ShowsCells(u) /\ u.x = 2 + at /\ u.y = y
      BY <1>7, <3>2, RedrawnIs
    <3>5. QED
      BY <3>1, <3>3, <3>4
  <2>3. QED
    BY <2>1, <2>2
<1>11. QED
  BY <1>1, <1>6, <1>8, <1>9, <1>10, EditedStep

(* Delete keeps the invariant.                                             *)
LEMMA DeleteStep ==
    ASSUME ScreenInv, Delete, cursor # Len(line)
    PROVE  ScreenInv'
<1>1. /\ line' = RemoveAt(line, cursor + 1) /\ UNCHANGED <<cursor, prompt>>
      /\ screen' = Redrawn(screen, line', cursor)
  BY DEF Delete
<1>2. PICK old \in Seq(Printable) : old = line
  BY DEF ScreenInv
<1>3. PICK c \in Nat : c = cursor
  BY DEF ScreenInv
<1>4. c + 1 \in 1 .. Len(old) /\ Len(old) \in Nat
  BY <1>2, <1>3 DEF ScreenInv
<1>5. PICK text \in Seq(Printable) : text = RemoveAt(old, c + 1) /\ Len(text) = Len(old) - 1
  BY <1>4, RemoveIs
<1>6. PICK y \in Lines : y = screen.y
  BY ScreenInvIs
<1>7. Shows(screen, y, old) /\ Len(old) <= SHELL_MAX_INPUT /\ prompt.col = 2 /\ prompt.row = y
  BY <1>2, <1>6 DEF ScreenInv
<1>8. /\ line' = text /\ cursor' = c /\ c \in 0 .. Len(text) /\ Len(text) <= SHELL_MAX_INPUT
      /\ Len(old) <= Len(text) + 1
  BY <1>1, <1>2, <1>3, <1>4, <1>5, <1>7, ConsoleAssumption
<1>9. PICK t : t = screen'
  OBVIOUS
<1>10. t = Redrawn(screen, text, c)
  BY <1>1, <1>3, <1>8, <1>9
<1>11. LET u == Redrawn(screen, text, c)
       IN Shows(u, y, text) /\ ShowsCells(u) /\ u.x = 2 + c /\ u.y = y
  BY <1>7, <1>8, RedrawnIs
<1>12. QED
  BY <1>1, <1>6, <1>8, <1>9, <1>10, <1>11, EditedStep

(* Left and Right keep the invariant.                                      *)
LEMMA MoveStep ==
    ASSUME ScreenInv, NEW to \in Int, Move(to), to \in 0 .. Len(line)
    PROVE  ScreenInv'
<1>1. /\ cursor' = to /\ UNCHANGED <<line, prompt>>
      /\ screen' = Flush(SetCursor(screen, prompt.col + to, prompt.row))
  BY DEF Move
<1>2. PICK old \in Seq(Printable) : old = line
  BY DEF ScreenInv
<1>3. PICK y \in Lines : y = screen.y
  BY ScreenInvIs
<1>4. /\ Shows(screen, y, old) /\ Len(old) <= SHELL_MAX_INPUT /\ prompt.col = 2 /\ prompt.row = y
      /\ to \in 0 .. Len(old) /\ Len(old) \in Nat
  BY <1>2, <1>3 DEF ScreenInv
<1>5. PICK x \in Columns : x = 2 + to
  <2>1. to \in 0 .. SHELL_MAX_INPUT
    BY <1>4, ConsoleAssumption
  <2>2. QED
    BY <2>1, Room
<1> DEFINE s == SetCursor(screen, x, y)
<1>6. /\ Ready(s) /\ s.x = x /\ s.y = y
      /\ s.pendingScroll = screen.pendingScroll /\ s.cells = screen.cells
  BY <1>4, SetCursorIs DEF Shows
<1> HIDE DEF s
<1>7. Shows(s, y, old)
  BY <1>4, <1>6 DEF Shows
<1>8. PICK t : t = screen'
  OBVIOUS
<1>9. t = Flush(s)
  BY <1>1, <1>4, <1>5, <1>8 DEF s
<1>10. Shows(t, y, old) /\ ShowsCells(t) /\ t.x = 2 + to /\ t.y = y
  BY <1>5, <1>6, <1>7, <1>9, ShowsFlush
<1>11. QED
  BY <1>1, <1>2, <1>3, <1>4, <1>8, <1>10, EditedStep

(* A typed character keeps the invariant, at the end of the line and in    *)
(* the middle.                                                             *)
LEMMA InsertStep ==
    ASSUME ScreenInv, NEW ch \in Printable, Insert(ch), Len(line) # SHELL_MAX_INPUT
    PROVE  ScreenInv'
<1>1. /\ line' = InsertAt(line, cursor + 1, ch) /\ cursor' = cursor + 1
      /\ screen' = IF cursor' = Len(line') THEN Flush(Putchar(screen, ch))
                   ELSE Redrawn(screen, line', cursor')
      /\ UNCHANGED prompt
  BY DEF Insert
<1>2. PICK old \in Seq(Printable) : old = line
  BY DEF ScreenInv
<1>3. PICK n \in Nat : Len(old) = n
  OBVIOUS
<1>4. PICK c \in 0 .. n : c = cursor
  BY <1>2, <1>3 DEF ScreenInv
<1>5. PICK text \in Seq(Printable) :
         /\ text = InsertAt(old, c + 1, ch) /\ Len(text) = n + 1
         /\ \A i \in 1 .. n + 1 :
               text[i] = IF i < c + 1 THEN old[i] ELSE IF i = c + 1 THEN ch ELSE old[i - 1]
  <2>1. c + 1 \in 1 .. Len(old) + 1
    BY <1>3
  <2>2. /\ InsertAt(old, c + 1, ch) \in Seq(Printable)
        /\ Len(InsertAt(old, c + 1, ch)) = Len(old) + 1
        /\ \A i \in 1 .. Len(old) + 1 :
              InsertAt(old, c + 1, ch)[i] =
                 IF i < c + 1 THEN old[i] ELSE IF i = c + 1 THEN ch ELSE old[i - 1]
    BY <2>1, InsertIs
  <2>3. QED
    BY <1>3, <2>2
<1>6. PICK y \in Lines : y = screen.y
  BY ScreenInvIs
<1>7. /\ Shows(screen, y, old) /\ n + 1 <= SHELL_MAX_INPUT /\ n <= SHELL_MAX_INPUT
      /\ screen.x = 2 + c /\ prompt.col = 2 /\ prompt.row = y
  BY <1>2, <1>3, <1>4, <1>6, ConsoleAssumption DEF ScreenInv
<1>8. line' = text /\ cursor' = c + 1 /\ c + 1 \in 0 .. Len(text) /\ Len(text) <= SHELL_MAX_INPUT
  BY <1>1, <1>2, <1>4, <1>5, <1>7
<1>9. PICK t : t = screen'
  OBVIOUS
<1>10. Shows(t, y, text) /\ ShowsCells(t) /\ t.x = 2 + (c + 1) /\ t.y = y
  <2>1. CASE c = n
    <3>1. t = Flush(Putchar(screen, ch))
      BY <1>1, <1>5, <1>8, <1>9, <2>1
    <3>2. \A i \in 1 .. n : text[i] = old[i]
      BY <1>5, <2>1
    <3>3. text[n + 1] = ch
      BY <1>5, <2>1
    <3>4. screen.x = 2 + n
      BY <1>7, <2>1
    <3>5. LET u == Flush(Putchar(screen, ch))
          IN Shows(u, y, text) /\ ShowsCells(u) /\ u.x = 2 + (n + 1) /\ u.y = y
      BY <1>3, <1>5, <1>6, <1>7, <3>2, <3>3, <3>4, TypedIs
    <3>6. QED
      BY <2>1, <3>1, <3>5
  <2>2. CASE c # n
    <3>1. t = Redrawn(screen, text, c + 1)
      BY <1>1, <1>5, <1>8, <1>9, <2>2
    <3>2. Len(old) <= SHELL_MAX_INPUT /\ Len(text) <= SHELL_MAX_INPUT /\ Len(old) <= Len(text) + 1
      BY <1>3, <1>5, <1>7, <1>8
    <3>3. LET u == Redrawn(screen, text, c + 1)
          IN Shows(u, y, text) /\ ShowsCells(u) /\ u.x = 2 + (c + 1) /\ u.y = y
      BY <1>7, <1>8, <3>2, RedrawnIs
    <3>4. QED
      BY <3>1, <3>3
  <2>3. QED
    BY <2>1, <2>2
<1>11. QED
  BY <1>1, <1>6, <1>8, <1>9, <1>10, EditedStep

(* Enter on a line of blanks: a new prompt, and the line is kept. *)
EntersBlanks == ShellKey /\ answer = "Enter" /\ line # <<>> /\ ~Words(line)

(* Every key keeps the invariant, but Enter on a line of blanks.           *)
LEMMA EditStep ==
    ASSUME ScreenInv, NEW key, Edit(key), ~(key = "Enter" /\ line # <<>> /\ ~Words(line))
    PROVE  ScreenInv'
<1>0. ASSUME UNCHANGED shellVars PROVE ScreenInv'
  BY <1>0 DEF ScreenInv, shellVars
<1>1. CASE key = "Enter"
  BY <1>1, EnterStep DEF Edit
<1>2. CASE key = "Backspace"
  BY <1>0, <1>2, BackspaceStep DEF Edit, Backspace
<1>3. CASE key = "Delete"
  BY <1>0, <1>3, DeleteStep DEF Edit, Delete
<1>4. ASSUME NEW to \in Int, Move(to) PROVE ScreenInv'
  BY <1>0, <1>4, MoveStep DEF Move
<1>5. cursor - 1 \in Int /\ cursor + 1 \in Int
  BY DEF ScreenInv
<1>6. CASE key = "Left"
  BY <1>4, <1>5, <1>6 DEF Edit
<1>7. CASE key = "Right"
  BY <1>4, <1>5, <1>7 DEF Edit
<1>8. CASE key \notin {"Enter", "Backspace", "Delete", "Left", "Right"}
  <2>1. Insert(key)
    BY <1>8 DEF Edit
  <2>2. QED
    BY <1>0, <2>1, InsertStep DEF Insert
<1>9. QED
  BY <1>1, <1>2, <1>3, <1>6, <1>7, <1>8

(* Every step keeps the invariant, but Enter on a line of blanks.          *)
LEMMA ScreenStep ==
    ASSUME ScreenInv, [Next /\ ~EntersBlanks]_vars
    PROVE  ScreenInv'
<1>1. CASE UNCHANGED shellVars
  BY <1>1 DEF ScreenInv, shellVars
<1>2. CASE ShellKey /\ ~EntersBlanks
  <2>1. Edit(answer) /\ ~(answer = "Enter" /\ line # <<>> /\ ~Words(line))
    BY <1>2 DEF ShellKey, EntersBlanks
  <2>2. QED
    BY <2>1, EditStep
<1>3. QED
  BY <1>1, <1>2 DEF Next, vars

(* The first prompt, below the welcome.                                    *)
LEMMA ScreenInit ==
    ASSUME Init
    PROVE  ScreenInv
<1>1. PICK w : w = Welcome(<<"w">>)
  OBVIOUS
<1>2. Drawable(w) /\ w.x = 0 /\ BlankAhead(w)
  BY <1>1, WelcomeIs
<1>3. PICK t : t = Prompted(w)
  OBVIOUS
<1>4. Shows(t, t.y, <<>>) /\ ShowsCells(t) /\ t.x = 2
  BY <1>2, <1>3, PromptedIs
<1>5. screen = t /\ prompt = [col |-> t.x, row |-> t.y] /\ line = <<>> /\ cursor = 0
  BY <1>1, <1>3 DEF Init
<1>6. <<>> \in Seq(Printable) /\ Len(<<>>) = 0 /\ 0 <= SHELL_MAX_INPUT
  BY ConsoleAssumption
<1>7. prompt.col = 2 /\ prompt.row = t.y
  BY <1>4, <1>5
<1>8. QED
  BY <1>4, <1>5, <1>6, <1>7 DEF ScreenInv

(* ScreenShowsLine, whatever is typed, edited and printed, and on every    *)
(* size of screen that has room for the longest line, in every behaviour   *)
(* in which Enter never finds a line of blanks.                            *)
THEOREM SpecScreenShowsLine ==
    Spec /\ [][~EntersBlanks]_vars => []ScreenShowsLine
<1>1. Init => ScreenInv
  BY ScreenInit
<1>2. ScreenInv /\ [Next]_vars /\ [~EntersBlanks]_vars => ScreenInv'
  <2>1. [Next]_vars /\ [~EntersBlanks]_vars => [Next /\ ~EntersBlanks]_vars
    OBVIOUS
  <2>2. QED
    BY <2>1, ScreenStep
<1>3. ScreenInv => ScreenShowsLine
  BY ScreenInvIs
<1>4. QED
  BY <1>1, <1>2, <1>3, PTL DEF Spec
=============================================================================
