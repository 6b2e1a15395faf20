------------------------------ MODULE Keyboard ------------------------------
(***************************************************************************)
(* The PS/2 keyboard, its driver and the program that reads keys.  The     *)
(* controller holds one byte; an arriving byte raises IRQ 1, which the     *)
(* kernel turns into a notification to the driver.                         *)
(***************************************************************************)
EXTENDS Integers, Sequences, FiniteSets, SequencesExt

CONSTANTS
    Letters, Others,        \* keys that scancode_table translates
    ExtendedKeys,           \* keys whose scancodes follow 0xE0
    Shifted,                \* resolveShift, a function of Letters \cup Others
    KEYBOARD_BUFFER_SIZE,
    Sessions                \* bound: the ways in which the user types

ASSUME KeyboardAssumption ==
    /\ KEYBOARD_BUFFER_SIZE \in Nat /\ KEYBOARD_BUFFER_SIZE > 1
    /\ DOMAIN Shifted = Letters \cup Others
    /\ \A s \in Sessions :
          /\ s.keys \subseteq Letters \cup Others \cup ExtendedKeys \cup {"Shift", "CapsLock"}
          /\ s.releases \subseteq s.keys /\ s.keys \cap {"Shift"} \subseteq s.releases
          /\ s.burst \in Nat

VARIABLES
    session,    \* the keys that are pressed, those of which the release is seen too,
                \* and the bytes that may be under way when the next key is pressed
    pressed,    \* modifiers that the user holds down
    bytes,      \* in the keyboard, on their way to the controller
    port,       \* the byte in the controller, if there is one
    irq,        \* an IrqNotify is queued for the driver
    kb,         \* the driver's Keyboard object
    draining,   \* the driver is in the loop that reads the controller
    reader,     \* the read request: "sent", held as "pending", or "none"
    answer      \* the key in the reply that the reader has not looked at

keyboardVars == <<session, pressed, bytes, port, irq, kb, draining, reader, answer>>

None == "none"
Code(key, released) == [key |-> key, released |-> released]
E0 == Code("E0", FALSE)
Modifiers == {"Shift", "CapsLock"}
KeyCodes == Letters \cup Others \cup ExtendedKeys \cup {Shifted[k] : k \in DOMAIN Shifted}

ASSUME KeyNamesAssumption ==
    /\ (Letters \cup Others \cup ExtendedKeys) \cap (Modifiers \cup {"E0"}) = {}
    /\ None \notin KeyCodes

-----------------------------------------------------------------------------
(* Keyboard::handleScancode.                                               *)

(* Mutation: the head of the ring runs over its tail. *)
PushOverwrites(k, ch) ==
    [k EXCEPT !.ring = Append(IF Len(@) = KEYBOARD_BUFFER_SIZE - 1 THEN Tail(@) ELSE @, ch)]
(* A key for which the ring has no slot left is dropped. *)
Push(k, ch) ==
    IF Len(k.ring) = KEYBOARD_BUFFER_SIZE - 1 THEN k
    ELSE [k EXCEPT !.ring = Append(@, ch)]

Translated(k, key) ==
    LET upper == IF key \in Letters THEN k.shift # k.caps ELSE k.shift
    IN IF upper THEN Shifted[key] ELSE key

(* Mutation: the prefix is forgotten only when a key is pressed. *)
StickyPrefix(k, b) ==
    IF b.released THEN k ELSE Push([k EXCEPT !.e0 = FALSE], b.key)
(* The byte after 0xE0: only some keys mean anything, and only pressed. *)
AfterPrefix(k, b) ==
    LET plain == [k EXCEPT !.e0 = FALSE]
    IN IF ~b.released /\ b.key \in ExtendedKeys THEN Push(plain, b.key) ELSE plain

HandleScancode(k, b) ==
    CASE b = E0 -> [k EXCEPT !.e0 = TRUE]
      [] b # E0 /\ k.e0 -> AfterPrefix(k, b)
      [] OTHER ->
           CASE b.key = "Shift" -> [k EXCEPT !.shift = ~b.released]
             [] b.key = "CapsLock" -> [k EXCEPT !.caps = IF b.released THEN @ ELSE ~@]
             [] b.key \in DOMAIN Shifted /\ ~b.released -> Push(k, Translated(k, b.key))
             [] OTHER -> k

-----------------------------------------------------------------------------
(* The user and the hardware.                                              *)

Strokes(key, released) ==
    (IF key \in ExtendedKeys THEN <<E0>> ELSE <<>>) \o <<Code(key, released)>>
Quiet == bytes = <<>> /\ port = <<>> /\ ~irq /\ ~draining /\ reader = "pending"
Send(codes) ==
    /\ Quiet \/ Len(bytes) + Len(codes) <= session.burst
    /\ bytes' = bytes \o codes

(* A key goes down, or repeats while it is down. *)
Press(key) ==
    /\ Send(Strokes(key, FALSE))
    /\ pressed' = IF key \in Modifiers THEN pressed \cup {key} ELSE pressed
    /\ UNCHANGED <<session, port, irq, kb, draining, reader, answer>>

Release(key) ==
    /\ key \in Modifiers => key \in pressed
    /\ Send(Strokes(key, TRUE))
    /\ pressed' = pressed \ {key}
    /\ UNCHANGED <<session, port, irq, kb, draining, reader, answer>>

ByteArrives ==
    /\ bytes # <<>> /\ port = <<>>
    /\ port' = <<Head(bytes)>> /\ bytes' = Tail(bytes)
    /\ irq' = TRUE
    /\ UNCHANGED <<session, pressed, kb, draining, reader, answer>>

-----------------------------------------------------------------------------
(* The driver's loop.                                                      *)

ReceiveIrq ==
    /\ ~draining /\ irq
    /\ irq' = FALSE /\ draining' = TRUE
    /\ UNCHANGED <<session, pressed, bytes, port, kb, reader, answer>>

DrainByte ==
    /\ draining /\ port # <<>>
    /\ kb' = HandleScancode(kb, port[1])
    /\ port' = <<>>
    /\ UNCHANGED <<session, pressed, bytes, irq, draining, reader, answer>>

Reply ==
    /\ answer' = Head(kb.ring)
    /\ kb' = [kb EXCEPT !.ring = Tail(@)]
    /\ reader' = "none"

(* Mutation: a reader that waits is not looked at after an interrupt. *)
NoWake == UNCHANGED <<kb, answer, reader>>
(* "Wake a blocked reader if characters are now available." *)
Wake ==
    IF reader = "pending" /\ kb.ring # <<>> THEN Reply ELSE UNCHANGED <<kb, answer, reader>>

DrainEnds ==
    /\ draining /\ port = <<>>
    /\ draining' = FALSE
    /\ Wake
    /\ UNCHANGED <<session, pressed, bytes, port, irq>>

(* KbdRead: answered at once, or held until a character arrives. *)
AnswerOrHold ==
    IF kb.ring # <<>> THEN Reply
    ELSE reader' = "pending" /\ UNCHANGED <<kb, answer>>

ReceiveRead ==
    /\ ~draining /\ reader = "sent"
    /\ AnswerOrHold
    /\ UNCHANGED <<session, pressed, bytes, port, irq, draining>>

(* The reader takes the reply and asks for the next key when it is done. *)
TakeKey ==
    /\ answer # None
    /\ answer' = None
    /\ reader' = "sent"
    /\ UNCHANGED <<session, pressed, bytes, port, irq, kb, draining>>

KeyboardInit ==
    /\ session \in Sessions
    /\ pressed = {} /\ bytes = <<>> /\ port = <<>> /\ irq = FALSE
    /\ kb = [shift |-> FALSE, caps |-> FALSE, e0 |-> FALSE, ring |-> <<>>]
    /\ draining = FALSE
    /\ reader = "sent" /\ answer = None

User ==
    \/ \E key \in session.keys : Press(key)
    \/ \E key \in session.releases : Release(key)
Driver == ByteArrives \/ ReceiveIrq \/ DrainByte \/ DrainEnds \/ ReceiveRead
=============================================================================
