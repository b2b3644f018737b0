------------------------------ MODULE Keyboard ------------------------------
(***************************************************************************)
(* The PS/2 keyboard driver (ps2_keyboard.cpp): each interrupt brings one  *)
(* byte; the driver collects bytes until they are a scan code, turns the   *)
(* code into an event, keeps the table of pressed keys and gives the       *)
(* characters to gets, which is taken to wait (Kernel.tla says when).      *)
(*                                                                         *)
(* SCAN_CODE, a 64-bit number, is the sequence of its bytes from the first *)
(* one that is not zero.  The keyboard is the one scan_code_1.txt          *)
(* describes; keys are named by their index in Key_table.                  *)
(***************************************************************************)
EXTENDS Integers, Sequences, FiniteSets

CONSTANTS
    Keys,       \* the keys somebody presses
    ChordKeys,  \* bound: the ones among them that are held with others
    DeafKeys,   \* bound: the ones held when an error byte comes, or after FF
    MAX_HELD    \* bound: keys held at the same time

ASSUME KeyboardConstants ==
    /\ Keys \subseteq 1 .. \h7D /\ MAX_HELD \in Nat
    /\ ChordKeys \subseteq Keys /\ DeafKeys \subseteq Keys

VARIABLES
    held,                \* keyboard: the keys held down,
    sent,                \*   the key and kind of the code it sends, and
    wire,                \*   the bytes of it still to come
    overrun,             \*   whether it ever sent FF
    SCAN_CODE,
    Key_pressed_table,   \* the keys whose entry is true
    typed,               \* what this interrupt put into the gets buffer
    fatal

vars == <<held, sent, wire, overrun, SCAN_CODE, Key_pressed_table, typed, fatal>>

E0 == \hE0
PRINT_SCREEN == \h7C
PAUSE == \h7D
KEYPAD_ENTER == \h58
MEDIA_SELECT == \h7B
Shifts == {\h2A, \h36}
PrintPressed == <<E0, \h2A, E0, \h37>>
PrintReleased == <<E0, \hB7, E0, \hAA>>
PausePressed == <<\hE1, \h1D, \h45, \hE1, \h9D, \hC5>>
NoChar == [key |-> 0, shifted |-> FALSE]

-----------------------------------------------------------------------------
(* The keyboard, after scan_code_1.txt.  A key from Key_table index 56H on *)
(* sends E0 and the byte listed here, plus 80H when it is released.        *)
Extended == << \h10, \h19, \h1C, \h1D, \h20, \h21, \h22, \h24, \h2E, \h30,
               \h32, \h35, \h38, \h47, \h48, \h49, \h4B, \h4D, \h4F, \h50,
               \h51, \h52, \h53, \h5B, \h5C, \h5D, \h5E, \h5F, \h63, \h65,
               \h66, \h67, \h68, \h69, \h6A, \h6B, \h6C, \h6D >>

ScanCode(k, up) ==
    CASE k <= \h53 -> <<k + up>>
      [] k \in \h54 .. \h55 -> <<k + 3 + up>>
      [] k \in \h56 .. \h7B -> <<E0, Extended[k - \h55] + up>>
      [] k = PRINT_SCREEN -> IF up = 0 THEN PrintPressed ELSE PrintReleased
      [] k = PAUSE -> PausePressed

(* A key goes down, or repeats because it stays down.  The pause key sends *)
(* all it ever sends at once.                                              *)
Press(k) ==
    /\ wire = <<>> /\ ~fatal
    /\ overrun => k \in DeafKeys
    /\ \/ held \subseteq {k}
       \/ /\ held \cup {k} \subseteq ChordKeys
          /\ Cardinality(held \cup {k}) <= MAX_HELD
    /\ held' = IF k = PAUSE THEN held ELSE held \cup {k}
    /\ sent' = [key |-> k, pressed |-> TRUE]
    /\ wire' = ScanCode(k, 0)
    /\ UNCHANGED <<overrun, SCAN_CODE, Key_pressed_table, typed, fatal>>

Release(k) ==
    /\ wire = <<>> /\ ~fatal
    /\ k \in held
    /\ held' = held \ {k}
    /\ sent' = [key |-> k, pressed |-> FALSE]
    /\ wire' = ScanCode(k, \h80)
    /\ UNCHANGED <<overrun, SCAN_CODE, Key_pressed_table, typed, fatal>>

(* The keyboard reports an error or that its buffer ran over.  FF is sent  *)
(* once at most: what it does to the driver does not end.                  *)
ErrorByte(byte) ==
    /\ wire = <<>> /\ ~fatal /\ ~overrun /\ held \subseteq DeafKeys
    /\ sent' = [key |-> 0, pressed |-> FALSE]
    /\ wire' = <<byte>>
    /\ overrun' = (byte = \hFF)
    /\ UNCHANGED <<held, SCAN_CODE, Key_pressed_table, typed, fatal>>

-----------------------------------------------------------------------------
(* Fault: SCAN_CODE is two bytes wide. *)
ShiftedIn16Bits(code, data) ==
    IF code = <<>> THEN (IF data = 0 THEN <<>> ELSE <<data>>)
                   ELSE <<code[Len(code)], data>>

(* (SCAN_CODE << 8) + data, of which eight bytes remain. *)
Shifted(code, data) ==
    LET all == Append(code, data)
        last8 == SubSeq(all, IF Len(all) > 8 THEN Len(all) - 7 ELSE 1, Len(all))
        zero == \A i \in DOMAIN last8 : last8[i] = 0
        first == CHOOSE i \in DOMAIN last8 : /\ last8[i] # 0
                                             /\ \A j \in 1 .. i - 1 : last8[j] = 0
    IN  IF zero THEN <<>> ELSE SubSeq(last8, first, Len(last8))

(* Fault: the prefixes of print screen are taken for codes. *)
TwoBytesAreEnough(code) ==
    \/ Len(code) = 1 /\ code[1] \in \h01 .. \h53 \cup \h57 .. \h58
                                     \cup \h81 .. \hD3 \cup \hD7 .. \hD8
    \/ Len(code) = 2 /\ code[1] = E0

is_complete_scancode(code) ==
    \/ Len(code) = 1 /\ code[1] \in \h01 .. \h53 \cup \h57 .. \h58
                                     \cup \h81 .. \hD3 \cup \hD7 .. \hD8
    \/ Len(code) = 2 /\ code[1] = E0 /\ code[2] \notin {\h2A, \hB7}
    \/ code \in {PrintPressed, PrintReleased, PausePressed}

scancodes_part1 == Extended \o <<\h90, \h99>>
scancodes_part2 ==
    << \h9C, \h9D, \hA0, \hA1, \hA2, \hA4, \hAE, \hB0, \hB2, \hB5, \hB8, \hC7,
       \hC8, \hC9, \hCB, \hCD, \hCF, \hD0, \hD1, \hD2, \hD3, \hDB, \hDC, \hDD,
       \hDE, \hDF, \hE3, \hE5, \hE6, \hE7, \hE8, \hE9, \hEA, \hEB, \hEC, \hE0,
       \hED >>

(* Fault: counted from one. *)
IndexFromOne(array, byte) == IF \E i \in DOMAIN array : array[i] = byte
                             THEN CHOOSE i \in DOMAIN array : array[i] = byte
                             ELSE -1

(* Counted from zero; no byte is listed twice. *)
index_of(array, byte) == IF \E i \in DOMAIN array : array[i] = byte
                         THEN (CHOOSE i \in DOMAIN array : array[i] = byte) - 1
                         ELSE -1

(* Fault: an upper bound that is one short. *)
ShortPart(low, first, array, last) ==
    LET id == (first + index_of(array, low)) % 256
    IN  IF id \in first .. last - 1 THEN id ELSE -1

(* The event of a two-byte code, -1 when the code is invalid. *)
Part(low, first, array, last) ==
    LET id == (first + index_of(array, low)) % 256
    IN  IF id \in first .. last THEN id ELSE -1

(* -1 where the code calls fatal. *)
to_event_id(code) ==
    CASE Len(code) = 1 -> code[1]
      [] Len(code) = 2 ->
           IF code[1] < E0 \/ (code[1] = E0 /\ code[2] <= \h9C)
             THEN Part(code[2], \h59, scancodes_part1, \h80)
             ELSE Part(code[2], \hD9, scancodes_part2, \hFC)
      [] code = PrintPressed -> \hFD
      [] code = PrintReleased -> \hFE
      [] code = PausePressed -> \hFF
      [] OTHER -> -1

(* The table that codegen_key_table.py generates, by its ranges. *)
Keyevent_table(id) ==
    CASE id \in \h01 .. \h53 -> [key |-> id, pressed |-> TRUE]
      [] id \in \h57 .. \h7E -> [key |-> id - 3, pressed |-> TRUE]
      [] id \in \h7F .. \h80 -> [key |-> id - \h29, pressed |-> FALSE]
      [] id \in \h81 .. \hD3 -> [key |-> id - \h80, pressed |-> FALSE]
      [] id \in \hD7 .. \hD8 -> [key |-> id - \h83, pressed |-> FALSE]
      [] id \in \hD9 .. \hFC -> [key |-> id - \h81, pressed |-> FALSE]
      [] id = \hFD -> [key |-> PRINT_SCREEN, pressed |-> TRUE]
      [] id = \hFE -> [key |-> PRINT_SCREEN, pressed |-> FALSE]
      [] id = \hFF -> [key |-> PAUSE, pressed |-> TRUE]
      [] OTHER -> [key |-> 0, pressed |-> TRUE]

(* Fault: a row of letters that is one key too long. *)
OneKeyMore(key) == key \in \h02 .. \h0B \cup \h10 .. \h1A
                           \cup \h1E .. \h26 \cup \h2C .. \h32

is_valid_char(key) == key \in \h02 .. \h0B \cup \h10 .. \h19
                              \cup \h1E .. \h26 \cup \h2C .. \h32

is_shift_pressed == Key_pressed_table' \cap Shifts # {}

(* The table first, then the character, which depends on it. *)
response_scancode(code) ==
    LET event == Keyevent_table(to_event_id(code))
    IN  /\ Key_pressed_table' = IF event.pressed
                                  THEN Key_pressed_table \cup {event.key}
                                  ELSE Key_pressed_table \ {event.key}
        /\ typed' = IF is_valid_char(event.key) /\ event.pressed
                      THEN [key |-> event.key, shifted |-> is_shift_pressed]
                      ELSE NoChar

ps2_keyboard_interrupt ==
    LET code == Shifted(SCAN_CODE, Head(wire))
    IN  /\ wire # <<>> /\ ~fatal
        /\ wire' = Tail(wire)
        /\ \/ /\ ~is_complete_scancode(code)
              /\ SCAN_CODE' = code /\ typed' = NoChar
              /\ UNCHANGED <<Key_pressed_table, fatal>>
           \/ /\ is_complete_scancode(code) /\ to_event_id(code) # -1
              /\ response_scancode(code)
              /\ SCAN_CODE' = <<>>
              /\ UNCHANGED fatal
           \/ /\ is_complete_scancode(code) /\ to_event_id(code) = -1
              /\ fatal' = TRUE
              /\ SCAN_CODE' = code
              /\ UNCHANGED <<Key_pressed_table, typed>>
        /\ UNCHANGED <<held, sent, overrun>>

-----------------------------------------------------------------------------
Init == /\ held = {} /\ sent = [key |-> 0, pressed |-> FALSE] /\ wire = <<>>
        /\ overrun = FALSE /\ SCAN_CODE = <<>> /\ Key_pressed_table = {}
        /\ typed = NoChar /\ fatal = FALSE

Spin == fatal /\ UNCHANGED vars

Next == \/ \E k \in Keys : Press(k) \/ Release(k)
        \/ \E byte \in {\h00, \hFF} : ErrorByte(byte)
        \/ ps2_keyboard_interrupt
        \/ Spin

Spec == Init /\ [][Next]_vars

-----------------------------------------------------------------------------
Quiet == wire = <<>> /\ ~fatal /\ ~overrun

(* The bytes of one code are never taken apart, nor two codes together:    *)
(* when the keyboard is done with a code, so is the driver.  An error byte *)
(* 00 between two codes does no harm.                                      *)
InStep == Quiet => SCAN_CODE = <<>>

(* A byte FF, which begins no code, is never thrown away (ps2_keyboard.cpp:*)
(* 229-231): it and the bytes after it fill SCAN_CODE, and with more than  *)
(* six bytes in it no code is complete again, whatever keys are pressed.   *)
(* The keyboard is deaf for ever.                                          *)
OverrunDeafens == [][overrun /\ SCAN_CODE # <<>> =>
                       SCAN_CODE' # <<>> /\ UNCHANGED <<Key_pressed_table, fatal>>]_vars

(* "there are less than 256 key events, so convert multi bytes scan codes  *)
(* to single byte" (ps2_keyboard.cpp:75): exactly two codes of the keyboard*)
(* have no event and stop the kernel, the releases of keypad enter         *)
(* (ps2_keyboard.cpp:94) and media select (ps2_keyboard.cpp:92).           *)
OnlyTwoCodesAreFatal ==
    fatal => ~sent.pressed /\ sent.key \in {KEYPAD_ENTER, MEDIA_SELECT}

(* Between two codes Key_pressed_table shows the keys that are held.  The  *)
(* pause key is left out: it has no code for its release.                  *)
TableShowsHeld == Quiet => Key_pressed_table \ {PAUSE} = held

(* The keys whose Key_table name is a digit or a letter. *)
Printable == \h02 .. \h0B \cup \h10 .. \h19 \cup \h1E .. \h26 \cup \h2C .. \h32

(* A reader gets the character of every printable key that goes down, of   *)
(* no other key, and in the case that the shift keys give it.              *)
TypedIsPressed ==
    Quiet /\ sent.key # 0 =>
        typed = IF sent.pressed /\ sent.key \in Printable
                  THEN [key |-> sent.key, shifted |-> held \cap Shifts # {}]
                  ELSE NoChar

-----------------------------------------------------------------------------
(* The inductive invariant behind these properties.                        *)
Byte == 0 .. \hFF

(* Variables keep to their types; SCAN_CODE never has more than its eight  *)
(* bytes.                                                                  *)
TypeOK ==
    /\ held \subseteq Keys
    /\ sent \in [key : {0} \cup Keys, pressed : BOOLEAN]
    /\ wire \in Seq(Byte) /\ SCAN_CODE \in Seq(Byte) /\ Len(SCAN_CODE) <= 8
    /\ overrun \in BOOLEAN /\ fatal \in BOOLEAN

Up(pressed) == IF pressed THEN 0 ELSE \h80

(* The first n bytes of code are in the driver, the others on the wire. *)
Arrived(n, code) ==
    /\ n < Len(code) /\ Len(SCAN_CODE) = n /\ Len(wire) = Len(code) - n
    /\ \A i \in 1 .. n : SCAN_CODE[i] = code[i]
    /\ \A i \in 1 .. Len(code) - n : wire[i] = code[n + i]

(* The key whose code is under way is already down, or up. *)
Sending ==
    /\ sent.key \in Keys
    /\ \E n \in 0 .. 5 : Arrived(n, ScanCode(sent.key, Up(sent.pressed)))
    /\ IF sent.pressed
         THEN held = (Key_pressed_table \cup {sent.key}) \ {PAUSE}
         ELSE /\ held = Key_pressed_table \ {PAUSE, sent.key}
              /\ sent.key # PAUSE

Idle == /\ wire \in {<<>>, <<0>>} /\ SCAN_CODE = <<>>
        /\ wire = <<0>> => sent.key = 0
        /\ Key_pressed_table \ {PAUSE} = held

(* FF is coming, or SCAN_CODE will never be a code again. *)
Deaf == /\ \A i \in DOMAIN wire : wire[i] # 0
        /\ \A i \in DOMAIN SCAN_CODE : SCAN_CODE[i] # 0
        /\ \/ SCAN_CODE = <<>> /\ wire = <<\hFF>>
           \/ SCAN_CODE # <<>> /\ (SCAN_CODE[1] = \hFF \/ Len(SCAN_CODE) = 8)

KeyboardInv ==
    /\ TypeOK /\ OnlyTwoCodesAreFatal /\ TypedIsPressed
    /\ overrun => Deaf /\ ~fatal
    /\ ~overrun /\ ~fatal => Idle \/ Sending
=============================================================================
