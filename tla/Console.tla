------------------------------- MODULE Console ------------------------------
(***************************************************************************)
(* The console: the keyboard, the line editor of the shell and the screen. *)
(* The shell draws with notifications and calls to the terminal, which     *)
(* handles them in order and draws with notifications to the display; only *)
(* the shell uses the terminal while it edits, so that a key's drawing is  *)
(* one step with the key.                                                  *)
(***************************************************************************)
EXTENDS Keyboard, Screen

CONSTANTS
    SHELL_MAX_INPUT,
    Printable,          \* keys that are characters of the screen
    Outputs             \* what commands print

(* The line fits in a row, with the prompt before it and a blank behind;   *)
(* one column less, and a redraw of the longest line scrolls the screen.   *)
(* Every command ends its output with a line feed.                         *)
ASSUME ConsoleAssumption ==
    /\ SHELL_MAX_INPUT \in Nat /\ SHELL_MAX_INPUT + 4 <= Cols
    /\ Printable \subseteq KeyCodes \ {LF, BS}
    /\ \A out \in Outputs :
          out \in Seq(Range(out)) /\ (out = <<>> \/ Last(out) = LF)

VARIABLES
    line,       \* Shell::buffer[0 .. length - 1]
    cursor,
    prompt,     \* promptCol and promptRow
    screen

shellVars == <<line, cursor, prompt, screen>>
vars == <<keyboardVars, shellVars>>

PromptText == <<"$", " ">>
Prompted(s) == Flush(PutText(s, PromptText))

(* printPrompt: the prompt is where the terminal says it ended. *)
PrintPrompt(s) ==
    /\ screen' = Prompted(s)
    /\ prompt' = [col |-> Prompted(s).x, row |-> Prompted(s).y]

(* redrawLine, with the line and the cursor after the edit. *)
Redrawn(s, text, at) ==
    LET start == SetCursor(s, prompt.col, prompt.row)
        written == Putchar(PutText(start, text), " ")
    IN Flush(SetCursor(written, prompt.col + at, prompt.row))

(* The commands: one clears the screen, the others print and end.  What a  *)
(* program that the shell starts prints meanwhile, and a message to the    *)
(* terminal or the display that notifyPush has no memory for, are left out.*)
Results(s) == {Flush(Clear(s))} \cup {PutText(s, out) : out \in Outputs}

(* execute: the line is empty, blank (parseArgs finds no word; the line is *)
(* kept) or a command.                                                     *)
Words(text) == \E i \in 1 .. Len(text) : text[i] # " "
Enter ==
    LET s == Putchar(screen, LF)
    IN IF ~Words(line)
       THEN PrintPrompt(s) /\ UNCHANGED <<line, cursor>>
       ELSE /\ \E t \in Results(s) : PrintPrompt(t)
            /\ line' = <<>> /\ cursor' = 0

Backspace ==
    IF cursor = 0 THEN UNCHANGED shellVars
    ELSE /\ line' = RemoveAt(line, cursor)
         /\ cursor' = cursor - 1
         /\ screen' = IF cursor' = Len(line') THEN Flush(PutText(screen, <<BS, " ", BS>>))
                      ELSE Redrawn(screen, line', cursor')
         /\ UNCHANGED prompt

Delete ==
    IF cursor = Len(line) THEN UNCHANGED shellVars
    ELSE /\ line' = RemoveAt(line, cursor + 1)
         /\ screen' = Redrawn(screen, line', cursor)
         /\ UNCHANGED <<cursor, prompt>>

Move(to) ==
    IF to \notin 0 .. Len(line) THEN UNCHANGED shellVars
    ELSE /\ cursor' = to
         /\ screen' = Flush(SetCursor(screen, prompt.col + to, prompt.row))
         /\ UNCHANGED <<line, prompt>>

Insert(ch) ==
    IF ch \notin Printable \/ Len(line) = SHELL_MAX_INPUT THEN UNCHANGED shellVars
    ELSE /\ line' = InsertAt(line, cursor + 1, ch)
         /\ cursor' = cursor + 1
         /\ screen' = IF cursor' = Len(line') THEN Flush(Putchar(screen, ch))
                      ELSE Redrawn(screen, line', cursor')
         /\ UNCHANGED prompt

(* A turn of run: the key that was read. *)
Edit(key) ==
    CASE key = "Enter" -> Enter
      [] key = "Backspace" -> Backspace
      [] key = "Delete" -> Delete
      [] key = "Left" -> Move(cursor - 1)
      [] key = "Right" -> Move(cursor + 1)
      [] OTHER -> Insert(key)

ShellKey == TakeKey /\ Edit(answer)

Init ==
    /\ KeyboardInit
    /\ line = <<>> /\ cursor = 0
    /\ screen = Prompted(Welcome(<<"w">>))
    /\ prompt = [col |-> screen.x, row |-> screen.y]

Next == ((User \/ Driver) /\ UNCHANGED shellVars) \/ ShellKey

Spec == Init /\ [][Next]_vars

(* The hardware delivers, the driver and the shell run, and bytes come     *)
(* slower than the driver's loops: again and again it finds the controller *)
(* empty, and no notification before a request.  (Only the shell takes     *)
(* keys, and it can handle every one.)                                     *)
FairSpec ==
    /\ Spec
    /\ WF_keyboardVars(ByteArrives \/ ReceiveIrq \/ DrainByte)
    /\ SF_keyboardVars(DrainEnds) /\ SF_keyboardVars(ReceiveRead)
    /\ WF_keyboardVars(TakeKey)

-----------------------------------------------------------------------------
(* Properties.                                                             *)

(* The framebuffer shows the line that the shell will execute: the prompt, *)
(* the buffer and nothing behind it, with the cursor at the editing point, *)
(* whatever was edited, printed and scrolled before.                       *)
ScreenShowsLine ==
    /\ ShowsCells(screen)
    /\ <<screen.x, screen.y>> = <<prompt.col + cursor, prompt.row>>
    /\ \A col \in prompt.col .. Cols - 1 :
          screen.cells[prompt.row][col] =
             IF col - prompt.col < Len(line) THEN line[col - prompt.col + 1] ELSE " "

(* No modifier sticks: once every byte has been handled, the driver holds  *)
(* for pressed what the user holds down, however the bytes were split over *)
(* interrupts.                                                             *)
ModifiersMatch ==
    bytes = <<>> /\ port = <<>> => (kb.shift <=> "Shift" \in pressed) /\ ~kb.e0

(* The driver after the bytes in, if its ring always had room.             *)
Taken(k, b) ==
    LET n == HandleScancode([k EXCEPT !.ring = <<>>], b)
    IN [n EXCEPT !.ring = k.ring \o @]
Handled(k, in) ==
    LET after[i \in 0 .. Len(in)] ==
            IF i = 0 THEN k ELSE Taken(after[i - 1], in[i])
    IN after[Len(in)]

(* The keys that the bytes on their way stand for, the reply that was not  *)
(* looked at, and all keys that are typed and not yet read.                *)
Coming == Handled([kb EXCEPT !.ring = <<>>], port \o bytes).ring
Answered == IF answer = None THEN <<>> ELSE <<answer>>
Waiting == (Answered \o kb.ring) \o Coming

Ahead == INSTANCE TypeAhead WITH
    coming <- Coming, ring <- kb.ring, reply <- Answered,
    Capacity <- KEYBOARD_BUFFER_SIZE - 1

(* Keys reach the shell in the order in which they were typed, each once,  *)
(* whatever the order of interrupts and requests; only the key that        *)
(* arrives at a full ring is lost, and none of those that wait.            *)
ImplementsTypeAhead == Ahead!Spec

(* A key that was typed reaches the shell: the request that was held, and  *)
(* the one that raced an interrupt, are both answered.                     *)
KeysReachShell == Waiting # <<>> ~> answer # None
=============================================================================
