----------------------------- MODULE MCKeyboard -----------------------------
(***************************************************************************)
(* Keys for the runs of Keyboard.                                          *)
(***************************************************************************)
EXTENDS Keyboard

(* Every key of scan_code_1.txt. *)
AllKeys == 1 .. \h7D

(* One key of each kind: both shifts, a letter, a digit, a sign beside the *)
(* letters, F11, keys with E0 codes at the seams of the tables, print      *)
(* screen and pause.                                                       *)
SomeKeys == {\h2A, \h36, \h1E, \h02, \h1A, \h54, \h56, \h57, \h58, \h59,
             \h7A, PRINT_SCREEN, PAUSE}

(* A letter and a key whose code has two bytes. *)
FewKeys == {\h1E, \h59}
=============================================================================
