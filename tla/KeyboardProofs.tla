--------------------------- MODULE KeyboardProofs ---------------------------
(***************************************************************************)
(* Proofs about Keyboard, for every set of keys, every number of keys held *)
(* at once and every order in which they go down and up.                   *)
(***************************************************************************)
EXTENDS MCKeyboard, SequenceTheorems, TLAPS

(* Append, for bytes. *)
LEMMA AppendByte ==
    ASSUME NEW code \in Seq(Byte), NEW data \in Byte
    PROVE  /\ Append(code, data) \in Seq(Byte)
           /\ Len(Append(code, data)) = Len(code) + 1
           /\ \A i \in 1 .. Len(code) : Append(code, data)[i] = code[i]
           /\ Append(code, data)[Len(code) + 1] = data
           /\ DOMAIN Append(code, data) = 1 .. Len(code) + 1
           /\ Len(code) \in Nat /\ DOMAIN code = 1 .. Len(code)
  BY AppendProperties, LenProperties

(* SCAN_CODE << 8 appends a byte as long as the eight bytes are not full   *)
(* and the first one is not zero.                                          *)
LEMMA ShiftedAppends ==
    ASSUME NEW code \in Seq(Byte), Len(code) < 8, NEW data \in Byte,
           code = <<>> => data # 0, code # <<>> => code[1] # 0
    PROVE  Shifted(code, data) = Append(code, data)
<1> DEFINE all == Append(code, data)
           n == Len(all)
           last8 == SubSeq(all, IF n > 8 THEN n - 7 ELSE 1, n)
           first == CHOOSE i \in DOMAIN last8 :
                       last8[i] # 0 /\ \A j \in 1 .. i - 1 : last8[j] = 0
<1>1. /\ all \in Seq(Byte) /\ n = Len(code) + 1 /\ Len(code) \in Nat
      /\ \A i \in 1 .. Len(code) : all[i] = code[i]
      /\ all[Len(code) + 1] = data
      /\ DOMAIN all = 1 .. n
  BY AppendProperties, LenProperties
<1>2. code # <<>> => 1 \in 1 .. Len(code)
  BY EmptySeq
<1>3. code = <<>> => Len(code) = 0
  BY EmptySeq
<1>4. all[1] # 0 /\ 1 \in DOMAIN all
  BY <1>1, <1>2, <1>3
<1>5. last8 = all
  <2>1. ~(n > 8)
    BY <1>1
  <2> QED
    BY <1>1, <2>1, SubSeqFull
<1> HIDE DEF all, last8
<1>6. first = 1
  <2>1. 1 \in DOMAIN last8 /\ last8[1] # 0 /\ \A j \in 1 .. 1 - 1 : last8[j] = 0
    BY <1>4, <1>5
  <2>2. ASSUME NEW i \in DOMAIN last8,
               last8[i] # 0 /\ \A j \in 1 .. i - 1 : last8[j] = 0
        PROVE  i = 1
    BY <1>1, <1>4, <1>5, <2>2
  <2> QED
    BY <2>1, <2>2
<1>7. SubSeq(last8, first, Len(last8)) = all
  BY <1>1, <1>5, <1>6, SubSeqFull
<1>8. ~\A i \in DOMAIN last8 : last8[i] = 0
  BY <1>4, <1>5
<1> QED
  BY <1>7, <1>8 DEF Shifted, all, last8

(* A zero byte into an empty SCAN_CODE leaves it empty. *)
LEMMA ShiftedZero == Shifted(<<>>, 0) = <<>>
<1> DEFINE all == Append(<<>>, 0)
<1>1. all = <<0>> /\ Len(all) = 1
  OBVIOUS
<1>2. SubSeq(<<0>>, 1, 1) = <<0>>
  <2>1. <<0>> \in Seq(Byte) /\ Len(<<0>>) = 1
    BY DEF Byte
  <2> QED
    BY <2>1, SubSeqFull
<1>3. \A i \in DOMAIN <<0>> : <<0>>[i] = 0
  OBVIOUS
<1>4. (IF Len(all) > 8 THEN Len(all) - 7 ELSE 1) = 1
  BY <1>1
<1> QED
  BY <1>1, <1>2, <1>3, <1>4 DEF Shifted

(* A full SCAN_CODE of bytes that are not zero stays full. *)
LEMMA ShiftedFull ==
    ASSUME NEW code \in Seq(Byte), Len(code) = 8, NEW data \in Byte, data # 0,
           \A i \in DOMAIN code : code[i] # 0
    PROVE  LET c == Shifted(code, data)
           IN  /\ c \in Seq(Byte) /\ Len(c) = 8
               /\ \A i \in DOMAIN c : c[i] # 0
<1> DEFINE all == Append(code, data)
           n == Len(all)
           last8 == SubSeq(all, IF n > 8 THEN n - 7 ELSE 1, n)
           first == CHOOSE i \in DOMAIN last8 :
                       last8[i] # 0 /\ \A j \in 1 .. i - 1 : last8[j] = 0
<1>1. /\ all \in Seq(Byte) /\ n = 9
      /\ \A i \in 1 .. 8 : all[i] = code[i]
      /\ all[9] = data
      /\ DOMAIN all = 1 .. 9 /\ DOMAIN code = 1 .. 8
  <2>1. /\ all \in Seq(Byte) /\ n = Len(code) + 1
        /\ \A i \in 1 .. Len(code) : all[i] = code[i]
        /\ all[Len(code) + 1] = data
        /\ DOMAIN all = 1 .. Len(code) + 1 /\ DOMAIN code = 1 .. Len(code)
    BY AppendByte, Zenon
  <2> QED
    BY <2>1
<1>2. \A i \in 1 .. 9 : all[i] # 0 /\ all[i] \in Byte
  BY <1>1, ElementOfSeq
<1>3. last8 = SubSeq(all, 2, 9)
  BY <1>1
<1> HIDE DEF all, last8
<1>4. /\ last8 \in Seq(Byte) /\ Len(last8) = 8
      /\ \A i \in 1 .. 8 : last8[i] = all[i + 1]
  <2>1. \A i \in 2 .. 9 : all[i] \in Byte
    BY <1>2
  <2>2. /\ SubSeq(all, 2, 9) \in Seq(Byte)
        /\ Len(SubSeq(all, 2, 9)) = IF 2 <= 9 THEN 9 - 2 + 1 ELSE 0
        /\ \A i \in 1 .. 9 - 2 + 1 : SubSeq(all, 2, 9)[i] = all[2 + i - 1]
    BY <2>1, SubSeqProperties
  <2> QED
    BY <1>3, <2>2
<1>5. DOMAIN last8 = 1 .. 8
  BY <1>4, LenProperties
<1>6. \A i \in DOMAIN last8 : last8[i] # 0
  BY <1>2, <1>4, <1>5
<1>7. first = 1
  <2>1. 1 \in DOMAIN last8 /\ last8[1] # 0 /\ \A j \in 1 .. 1 - 1 : last8[j] = 0
    BY <1>5, <1>6
  <2>2. ASSUME NEW i \in DOMAIN last8,
               last8[i] # 0 /\ \A j \in 1 .. i - 1 : last8[j] = 0
        PROVE  i = 1
    BY <1>5, <1>6, <2>2
  <2> QED
    BY <2>1, <2>2
<1>8. SubSeq(last8, first, Len(last8)) = last8
  BY <1>4, <1>7, SubSeqFull
<1>9. ~\A i \in DOMAIN last8 : last8[i] = 0
  BY <1>5, <1>6
<1>10. Shifted(code, data) = last8
  BY <1>8, <1>9 DEF Shifted, all, last8
<1> QED
  BY <1>4, <1>6, <1>10

-----------------------------------------------------------------------------
(* The tables.                                                             *)

(* The second bytes of the two-byte codes: their range, *)
LEMMA ExtendedRange == \A i \in 1 .. 38 : Extended[i] \in 16 .. 109
  BY DEF Extended

(* ... from the fourth on, *)
LEMMA ExtendedHigh == \A i \in 4 .. 38 : Extended[i] \in 29 .. 109
  BY DEF Extended

(* ... and that they are all different. *)
LEMMA ExtendedFacts ==
    /\ DOMAIN Extended = 1 .. 38 /\ Extended \in Seq(Byte) /\ Len(Extended) = 38
    /\ \A i \in 1 .. 38 : Extended[i] # 42 /\ Extended[i] # 55
    /\ Extended[1] = 16 /\ Extended[2] = 25 /\ Extended[3] = 28
    /\ \A i, j \in 1 .. 38 : Extended[i] = Extended[j] => i = j
<1>1. DOMAIN Extended = 1 .. 38 /\ Len(Extended) = 38
  BY DEF Extended
<1>2. \A i \in 1 .. 38 : Extended[i] # 42 /\ Extended[i] # 55
  BY DEF Extended
<1>4. Extended[1] = 16 /\ Extended[2] = 25 /\ Extended[3] = 28
  BY DEF Extended
<1>5. \A i, j \in 1 .. 38 : Extended[i] = Extended[j] => i = j
  BY DEF Extended
<1>6. Extended \in Seq(Byte)
  BY DEF Extended, Byte
<1> QED
  BY <1>1, <1>2, <1>4, <1>5, <1>6

(* The first table of second bytes: the presses, then two releases. *)
LEMMA Part1Facts ==
    /\ DOMAIN scancodes_part1 = 1 .. 40
    /\ \A i \in 1 .. 38 : scancodes_part1[i] = Extended[i]
    /\ scancodes_part1[39] = 144 /\ scancodes_part1[40] = 153
    /\ \A i, j \in 1 .. 40 : scancodes_part1[i] = scancodes_part1[j] => i = j
    /\ \A i \in 1 .. 40 : scancodes_part1[i] # 156
<1>1. DOMAIN scancodes_part1 = 1 .. 40
  BY DEF scancodes_part1, Extended
<1>2. scancodes_part1[39] = 144 /\ scancodes_part1[40] = 153
  BY DEF scancodes_part1, Extended
<1>3. \A i \in 1 .. 38 : scancodes_part1[i] = Extended[i]
  BY DEF scancodes_part1, Extended
<1>4. \A i, j \in 1 .. 40 : scancodes_part1[i] = scancodes_part1[j] => i = j
  BY DEF scancodes_part1, Extended
<1>5. \A i \in 1 .. 40 : scancodes_part1[i] # 156
  BY DEF scancodes_part1, Extended
<1> QED
  BY <1>1, <1>2, <1>3, <1>4, <1>5

(* The second table: the releases after those two. *)
LEMMA Part2Facts ==
    /\ DOMAIN scancodes_part2 = 1 .. 37
    /\ \A i \in 4 .. 37 : scancodes_part2[i - 2] = Extended[i] + 128
    /\ scancodes_part2[37] = Extended[38] + 128
    /\ \A i, j \in 1 .. 37 : scancodes_part2[i] = scancodes_part2[j] => i = j
<1>1. DOMAIN scancodes_part2 = 1 .. 37
  BY DEF scancodes_part2
<1>2. \A i \in 4 .. 37 : scancodes_part2[i - 2] = Extended[i] + 128
  BY DEF scancodes_part2, Extended
<1>3. \A i, j \in 1 .. 37 : scancodes_part2[i] = scancodes_part2[j] => i = j
  BY DEF scancodes_part2
<1>4. scancodes_part2[37] = Extended[38] + 128
  BY DEF scancodes_part2, Extended
<1> QED
  BY <1>1, <1>2, <1>3, <1>4

(* In a table that lists no byte twice, index_of finds the place. *)
LEMMA IndexFound ==
    ASSUME NEW array, NEW i \in DOMAIN array, NEW byte, array[i] = byte,
           \A j, k \in DOMAIN array : array[j] = array[k] => j = k
    PROVE  index_of(array, byte) = i - 1
<1>1. (CHOOSE j \in DOMAIN array : array[j] = byte) = i
  OBVIOUS
<1> QED
  BY <1>1 DEF index_of

(* index_of does not find a byte that is not there. *)
LEMMA IndexMissing ==
    ASSUME NEW array, NEW byte, \A i \in DOMAIN array : array[i] # byte
    PROVE  index_of(array, byte) = -1
  BY DEF index_of

-----------------------------------------------------------------------------
(* The codes of the keyboard, by their shape.                              *)
PlainCode(k, up, c) == k \in 1 .. 83 /\ c = <<k + up>>
F11Code(k, up, c) == k \in 84 .. 85 /\ c = <<k + 3 + up>>
ExtendedCode(k, up, c) == k \in 86 .. 123 /\ c = <<224, Extended[k - 85] + up>>
PrintCode(k, up, c) == k = 124 /\ up = 0 /\ c = PrintPressed
PrintUpCode(k, up, c) == k = 124 /\ up = 128 /\ c = PrintReleased
PauseCode(k, up, c) == k = 125 /\ c = PausePressed

(* The shapes of the codes a keyboard sends. *)
LEMMA CodeCases ==
    ASSUME NEW k \in 1 .. 125, NEW up \in {0, 128}
    PROVE  LET c == ScanCode(k, up)
           IN  \/ PlainCode(k, up, c) \/ F11Code(k, up, c)
               \/ ExtendedCode(k, up, c)
               \/ PrintCode(k, up, c) \/ PrintUpCode(k, up, c)
               \/ PauseCode(k, up, c)
<1> USE DEF ScanCode, PRINT_SCREEN, PAUSE, E0
<1>1. CASE k \in 1 .. 83
  BY <1>1 DEF PlainCode
<1>2. CASE k \in 84 .. 85
  <2>1. /\ ~(k <= 83) /\ k \in 84 .. 85 /\ ~(k \in 86 .. 123)
        /\ k # 124 /\ k # 125
    BY <1>2
  <2>2. ScanCode(k, up) = <<k + 3 + up>>
    BY <2>1
  <2> QED
    BY <1>2, <2>2 DEF F11Code
<1>3. CASE k \in 86 .. 123
  <2>1. /\ ~(k <= 83) /\ ~(k \in 84 .. 85) /\ k \in 86 .. 123
        /\ k # 124 /\ k # 125
    BY <1>3
  <2>2. ScanCode(k, up) = <<224, Extended[k - 85] + up>>
    BY <2>1
  <2> QED
    BY <1>3, <2>2 DEF ExtendedCode
<1>4. CASE k = 124
  <2>1. /\ ~(k <= 83) /\ ~(k \in 84 .. 85) /\ ~(k \in 86 .. 123)
        /\ k = 124 /\ k # 125
    BY <1>4
  <2>2. ScanCode(k, up) = IF up = 0 THEN PrintPressed ELSE PrintReleased
    BY <2>1
  <2> HIDE DEF ScanCode
  <2> QED
    BY <1>4, <2>2 DEF PrintCode, PrintUpCode
<1>5. CASE k = 125
  <2>1. /\ ~(k <= 83) /\ ~(k \in 84 .. 85) /\ ~(k \in 86 .. 123)
        /\ k # 124 /\ k = 125
    BY <1>5
  <2>2. ScanCode(k, up) = PausePressed
    BY <2>1
  <2> HIDE DEF ScanCode
  <2> QED
    BY <1>5, <2>2 DEF PauseCode
<1> HIDE DEF ScanCode
<1> QED
  BY <1>1, <1>2, <1>3, <1>4, <1>5

(* What the driver needs of a code: some bytes, none of them zero, that   *)
(* are complete when all of them are there and at no time before.          *)
GoodCode(c) == /\ c \in Seq(Byte) /\ Len(c) \in 1 .. 6
               /\ \A i \in 1 .. Len(c) : c[i] # 0
               /\ is_complete_scancode(c)

ProperPrefix(p, c) == /\ Len(p) \in 1 .. Len(c) - 1
                      /\ \A i \in 1 .. Len(p) : p[i] = c[i]

(* Codes of one byte are complete. *)
LEMMA OneByte ==
    ASSUME NEW b \in 1 .. 83 \cup 87 .. 88 \cup 129 .. 211 \cup 215 .. 216
    PROVE  GoodCode(<<b>>)
<1>1. <<b>> \in Seq(Byte)
  BY DEF Byte
<1>2. is_complete_scancode(<<b>>)
  BY DEF is_complete_scancode
<1> QED
  BY <1>1, <1>2 DEF GoodCode

(* The three codes of more than two bytes. *)
LEMMA LongCodes ==
    /\ PrintPressed \in Seq(Byte) /\ Len(PrintPressed) = 4
    /\ PrintReleased \in Seq(Byte) /\ Len(PrintReleased) = 4
    /\ PausePressed \in Seq(Byte) /\ Len(PausePressed) = 6
    /\ \A i \in 1 .. 4 : PrintPressed[i] # 0 /\ PrintReleased[i] # 0
    /\ \A i \in 1 .. 6 : PausePressed[i] # 0
    /\ PrintPressed[1] = 224 /\ PrintPressed[2] = 42
    /\ PrintReleased[1] = 224 /\ PrintReleased[2] = 183
    /\ PausePressed[1] = 225
  BY DEF PrintPressed, PrintReleased, PausePressed, Byte, E0

LongCode(p) == p \in {PrintPressed, PrintReleased, PausePressed}

(* Up to three bytes are none of the three long codes. *)
LEMMA TooShort ==
    ASSUME NEW p, Len(p) \in 1 .. 3
    PROVE  ~LongCode(p)
<1>1. /\ Len(PrintPressed) = 4 /\ Len(PrintReleased) = 4
      /\ Len(PausePressed) = 6
  BY LongCodes
<1> QED
  BY <1>1 DEF LongCode

(* The long codes are complete, and have no zero byte. *)
LEMMA LongCodesGood ==
    GoodCode(PrintPressed) /\ GoodCode(PrintReleased) /\ GoodCode(PausePressed)
<1>1. /\ is_complete_scancode(PrintPressed) /\ is_complete_scancode(PrintReleased)
      /\ is_complete_scancode(PausePressed)
  BY DEF is_complete_scancode
<1> QED
  BY <1>1, LongCodes DEF GoodCode

(* So is every code. *)
LEMMA CodeFacts ==
    ASSUME NEW k \in 1 .. 125, NEW up \in {0, 128}
    PROVE  GoodCode(ScanCode(k, up))
<1> DEFINE c == ScanCode(k, up)
<1>1. CASE PlainCode(k, up, c)
  <2>1. k + up \in 1 .. 83 \cup 87 .. 88 \cup 129 .. 211 \cup 215 .. 216
    BY <1>1 DEF PlainCode
  <2> QED
    BY <1>1, <2>1, OneByte DEF PlainCode
<1>2. CASE F11Code(k, up, c)
  <2>1. k + 3 + up \in 1 .. 83 \cup 87 .. 88 \cup 129 .. 211 \cup 215 .. 216
    BY <1>2 DEF F11Code
  <2> QED
    BY <1>2, <2>1, OneByte DEF F11Code
<1>3. CASE ExtendedCode(k, up, c)
  <2> DEFINE e == Extended[k - 85]
  <2>1. k - 85 \in 1 .. 38
    BY <1>3 DEF ExtendedCode
  <2>2. e \in 16 .. 109
    BY <2>1, ExtendedRange
  <2>3. e # 42 /\ e # 55
    BY <2>1, ExtendedFacts
  <2>4. c = <<224, e + up>>
    BY <1>3 DEF ExtendedCode
  <2> HIDE DEF e
  <2>5. PICK b \in 1 .. 255 : b = e + up /\ b # 42 /\ b # 183
    BY <2>2, <2>3
  <2>6. c = <<224, b>>
    BY <2>4, <2>5
  <2>7. <<224, b>> \in Seq(Byte)
    BY DEF Byte
  <2>8. is_complete_scancode(<<224, b>>)
    BY <2>5 DEF is_complete_scancode, E0
  <2>9. GoodCode(<<224, b>>)
    BY <2>7, <2>8 DEF GoodCode
  <2> QED
    BY <2>6, <2>9
<1>4. CASE PrintCode(k, up, c)
  BY <1>4, LongCodesGood DEF PrintCode
<1>5. CASE PrintUpCode(k, up, c)
  BY <1>5, LongCodesGood DEF PrintUpCode
<1>6. CASE PauseCode(k, up, c)
  BY <1>6, LongCodesGood DEF PauseCode
<1> QED
  BY <1>1, <1>2, <1>3, <1>4, <1>5, <1>6, CodeCases

(* No code of two bytes is complete before its end, *)
LEMMA ShortPrefix ==
    ASSUME NEW p \in Seq(Byte), NEW c, ProperPrefix(p, c), Len(c) = 2, c[1] = 224
    PROVE  ~is_complete_scancode(p)
<1>1. Len(p) = 1 /\ p[1] = 224 /\ Len(p) \in 1 .. 3
  BY DEF ProperPrefix
<1>2. ~LongCode(p)
  BY <1>1, TooShort, Zenon
<1> QED
  BY <1>1, <1>2 DEF is_complete_scancode, LongCode

(* ... nor are those of Print Screen, *)
LEMMA PrintPrefix ==
    ASSUME NEW p \in Seq(Byte), NEW c, ProperPrefix(p, c), Len(c) = 4,
           c[1] = 224, c[2] \in {42, 183}
    PROVE  ~is_complete_scancode(p)
<1>1. Len(p) \in 1 .. 3 /\ p[1] = 224
  BY DEF ProperPrefix
<1>2. Len(p) = 2 => p[2] \in {42, 183}
  BY DEF ProperPrefix
<1>3. ~LongCode(p)
  BY <1>1, TooShort, Zenon
<1> QED
  BY <1>1, <1>2, <1>3 DEF is_complete_scancode, LongCode

(* ... nor that of Pause, *)
LEMMA PausePrefix ==
    ASSUME NEW p \in Seq(Byte), NEW c, ProperPrefix(p, c), Len(c) = 6, c[1] = 225
    PROVE  ~is_complete_scancode(p)
<1>1. Len(p) \in 1 .. 5 /\ p[1] = 225 /\ Len(p) # 6
  BY DEF ProperPrefix
<1>2. p # PrintPressed /\ p # PrintReleased
  BY <1>1, LongCodes
<1>3. p # PausePressed
  <2>1. Len(PausePressed) = 6
    BY DEF PausePressed
  <2> QED
    BY <1>1, <2>1, Zenon
<1> QED
  BY <1>1, <1>2, <1>3 DEF is_complete_scancode, E0

(* ... nor any other: is_complete_scancode waits for the last byte. *)
LEMMA PrefixIncomplete ==
    ASSUME NEW k \in 1 .. 125, NEW up \in {0, 128}, NEW p \in Seq(Byte),
           ProperPrefix(p, ScanCode(k, up))
    PROVE  ~is_complete_scancode(p)
<1> DEFINE c == ScanCode(k, up)
<1>1. CASE PlainCode(k, up, c)
  <2>1. Len(c) = 1
    BY <1>1 DEF PlainCode
  <2> QED
    BY <2>1 DEF ProperPrefix
<1>2. CASE F11Code(k, up, c)
  <2>1. Len(c) = 1
    BY <1>2 DEF F11Code
  <2> QED
    BY <2>1 DEF ProperPrefix
<1>3. CASE ExtendedCode(k, up, c)
  <2>1. Len(c) = 2 /\ c[1] = 224
    BY <1>3 DEF ExtendedCode
  <2> QED
    BY <2>1, ShortPrefix
<1>4. CASE PrintCode(k, up, c)
  <2>1. Len(c) = 4 /\ c[1] = 224 /\ c[2] = 42
    BY <1>4, LongCodes DEF PrintCode
  <2> QED
    BY <2>1, PrintPrefix
<1>5. CASE PrintUpCode(k, up, c)
  <2>1. Len(c) = 4 /\ c[1] = 224 /\ c[2] = 183
    BY <1>5, LongCodes DEF PrintUpCode
  <2> QED
    BY <2>1, PrintPrefix
<1>6. CASE PauseCode(k, up, c)
  <2>1. Len(c) = 6 /\ c[1] = 225
    BY <1>6, LongCodes DEF PauseCode
  <2> QED
    BY <2>1, PausePrefix
<1> QED
  BY <1>1, <1>2, <1>3, <1>4, <1>5, <1>6, CodeCases

-----------------------------------------------------------------------------
(* From codes to events.                                                   *)
DownEvent(k) == [key |-> k, pressed |-> TRUE]
UpEvent(k) == [key |-> k, pressed |-> FALSE]

(* The rows of Keyevent_table that the codes of the keyboard reach. *)
LEMMA PlainRow ==
    ASSUME NEW k \in 1 .. 83
    PROVE  k # -1 /\ Keyevent_table(k) = DownEvent(k)
  BY SMTT(30) DEF Keyevent_table, DownEvent, UpEvent, PRINT_SCREEN, PAUSE

(* The releases of those keys. *)
LEMMA PlainUpRow ==
    ASSUME NEW k \in 1 .. 83, NEW id \in Int, id = k + 128
    PROVE  id # -1 /\ Keyevent_table(id) = UpEvent(k)
<1>1. \A n \in 129 .. 211 : Keyevent_table(n) = UpEvent(n - 128)
  BY DEF Keyevent_table, DownEvent, UpEvent, PRINT_SCREEN, PAUSE
<1>2. id \in 129 .. 211 /\ id - 128 = k
  OBVIOUS
<1> QED
  BY <1>1, <1>2

(* The releases of F11 and F12. *)
LEMMA F11UpRow ==
    ASSUME NEW k \in 84 .. 85, NEW id \in Int, id = k + 131
    PROVE  id # -1 /\ Keyevent_table(id) = UpEvent(k)
<1>1. \A n \in 215 .. 216 : Keyevent_table(n) = UpEvent(n - 131)
  BY DEF Keyevent_table, DownEvent, UpEvent, PRINT_SCREEN, PAUSE
<1>2. id \in 215 .. 216 /\ id - 131 = k
  OBVIOUS
<1> QED
  BY <1>1, <1>2

(* The presses of F11, F12 and the keys with codes of two bytes. *)
LEMMA ExtendedRow ==
    ASSUME NEW k \in 84 .. 123, NEW id \in Int, id = k + 3
    PROVE  id # -1 /\ Keyevent_table(id) = DownEvent(k)
<1>1. \A n \in 87 .. 126 : Keyevent_table(n) = DownEvent(n - 3)
  BY DEF Keyevent_table, DownEvent, UpEvent, PRINT_SCREEN, PAUSE
<1>2. id \in 87 .. 126 /\ id - 3 = k
  OBVIOUS
<1> QED
  BY <1>1, <1>2

(* The two releases that stand in the first table. *)
LEMMA InsertUpRow ==
    ASSUME NEW k \in 86 .. 87, NEW id \in Int, id = k + 41
    PROVE  id # -1 /\ Keyevent_table(id) = UpEvent(k)
<1>1. \A n \in 127 .. 128 : Keyevent_table(n) = UpEvent(n - 41)
  BY DEF Keyevent_table, DownEvent, UpEvent, PRINT_SCREEN, PAUSE
<1>2. id \in 127 .. 128 /\ id - 41 = k
  OBVIOUS
<1> QED
  BY <1>1, <1>2

(* The releases of the second table. *)
LEMMA ExtendedUpRow ==
    ASSUME NEW k \in 88 .. 123, NEW id \in Int, id = k + 129
    PROVE  id # -1 /\ Keyevent_table(id) = UpEvent(k)
<1>1. \A n \in 217 .. 252 : Keyevent_table(n) = UpEvent(n - 129)
  BY DEF Keyevent_table, DownEvent, UpEvent, PRINT_SCREEN, PAUSE
<1>2. id \in 217 .. 252 /\ id - 129 = k
  OBVIOUS
<1> QED
  BY <1>1, <1>2

(* Print Screen and Pause. *)
LEMMA LongRows ==
    /\ Keyevent_table(253) = DownEvent(124)
    /\ Keyevent_table(254) = UpEvent(124)
    /\ Keyevent_table(255) = DownEvent(125)
<1>1. Keyevent_table(253) = DownEvent(124)
  BY DEF Keyevent_table, DownEvent, UpEvent, PRINT_SCREEN, PAUSE
<1>2. Keyevent_table(254) = UpEvent(124)
  BY DEF Keyevent_table, DownEvent, UpEvent, PRINT_SCREEN, PAUSE
<1>3. Keyevent_table(255) = DownEvent(125)
  BY DEF Keyevent_table, DownEvent, UpEvent, PRINT_SCREEN, PAUSE
<1> QED
  BY <1>1, <1>2, <1>3

(* The tables of two-byte codes. *)
LEMMA Part1Found ==
    ASSUME NEW i \in 1 .. 40
    PROVE  Part(scancodes_part1[i], 89, scancodes_part1, 128) = i + 88
<1>1. index_of(scancodes_part1, scancodes_part1[i]) = i - 1
  BY Part1Facts, IndexFound
<1> QED
  BY <1>1 DEF Part

(* The release of the keypad's Enter is not in the first table, *)
LEMMA Part1Missing == Part(156, 89, scancodes_part1, 128) = -1
<1>1. index_of(scancodes_part1, 156) = -1
  BY Part1Facts, IndexMissing
<1> QED
  BY <1>1 DEF Part

(* ... and of the second table the last release is left out. *)
LEMMA Part2Found ==
    ASSUME NEW i \in 1 .. 37
    PROVE  Part(scancodes_part2[i], 217, scancodes_part2, 252)
              = IF i <= 36 THEN i + 216 ELSE -1
<1>1. index_of(scancodes_part2, scancodes_part2[i]) = i - 1
  BY Part2Facts, IndexFound
<1> QED
  BY <1>1 DEF Part

(* What a code means: the press of k, its release, or the end. *)
Means(c, event) == /\ to_event_id(c) # -1
                   /\ Keyevent_table(to_event_id(c)) = event

(* The event of a code of one byte is the byte. *)
LEMMA OneByteId ==
    ASSUME NEW c \in Seq(Int), Len(c) = 1
    PROVE  to_event_id(c) = c[1]
<1>1. Len(c) \in 1 .. 3 /\ Len(c) # 2
  OBVIOUS
<1>2. ~LongCode(c)
  BY <1>1, TooShort, Zenon
<1> QED
  BY <1>1, <1>2 DEF to_event_id, LongCode

(* The event of a code of two bytes comes of one of the tables. *)
LEMMA TwoByteId ==
    ASSUME NEW c \in Seq(Int), Len(c) = 2
    PROVE  to_event_id(c) = IF c[1] < 224 \/ (c[1] = 224 /\ c[2] <= 156)
                              THEN Part(c[2], 89, scancodes_part1, 128)
                              ELSE Part(c[2], 217, scancodes_part2, 252)
<1>1. Len(c) \in 1 .. 3 /\ Len(c) # 1
  OBVIOUS
<1>2. ~LongCode(c)
  BY <1>1, TooShort, Zenon
<1> QED
  BY <1>1, <1>2 DEF to_event_id, LongCode, E0

(* The events of the long codes. *)
LEMMA LongIds ==
    /\ to_event_id(PrintPressed) = 253
    /\ to_event_id(PrintReleased) = 254
    /\ to_event_id(PausePressed) = 255
<1>1. to_event_id(PrintPressed) = 253
  BY LongCodes DEF to_event_id
<1>2. PrintPressed # PrintReleased
  BY LongCodes
<1>3. to_event_id(PrintReleased) = 254
  BY <1>2, LongCodes DEF to_event_id
<1>4. PausePressed # PrintPressed /\ PausePressed # PrintReleased
  BY LongCodes
<1>5. to_event_id(PausePressed) = 255
  BY <1>4, LongCodes DEF to_event_id
<1> QED
  BY <1>1, <1>3, <1>5

(* What a code of one byte means. *)
LEMMA ShortMeaning ==
    ASSUME NEW b \in Int, NEW c, c = <<b>>, b # -1, NEW event,
           Keyevent_table(b) = event
    PROVE  Means(c, event)
<1>1. c \in Seq(Int) /\ Len(c) = 1 /\ c[1] = b
  OBVIOUS
<1>2. to_event_id(c) = b
  BY <1>1, OneByteId
<1> QED
  BY <1>2 DEF Means

(* Second bytes up to 9C are looked up in the first table, *)
LEMMA LowByteId ==
    ASSUME NEW b \in Int, NEW c, c = <<224, b>>, b <= 156
    PROVE  to_event_id(c) = Part(b, 89, scancodes_part1, 128)
<1>1. c \in Seq(Int) /\ Len(c) = 2 /\ c[1] = 224 /\ c[2] = b
  OBVIOUS
<1>2. c[1] = 224 /\ c[2] <= 156
  BY <1>1
<1>3. to_event_id(c) = Part(c[2], 89, scancodes_part1, 128)
  BY <1>1, <1>2, TwoByteId
<1> QED
  BY <1>1, <1>3

(* ... those after it in the second. *)
LEMMA HighByteId ==
    ASSUME NEW b \in Int, NEW c, c = <<224, b>>, b > 156
    PROVE  to_event_id(c) = Part(b, 217, scancodes_part2, 252)
<1>1. c \in Seq(Int) /\ Len(c) = 2 /\ c[1] = 224 /\ c[2] = b
  OBVIOUS
<1>2. ~(c[1] < 224) /\ ~(c[2] <= 156)
  BY <1>1
<1>3. to_event_id(c) = Part(c[2], 217, scancodes_part2, 252)
  BY <1>1, <1>2, TwoByteId
<1> QED
  BY <1>1, <1>3

(* The codes of the keys that go down. *)
LEMMA ExtendedMeans ==
    ASSUME NEW k, NEW c, ExtendedCode(k, 0, c)
    PROVE  Means(c, DownEvent(k))
<1>1. k \in 86 .. 123
  BY DEF ExtendedCode
<1>2. PICK i \in 1 .. 38 : i = k - 85
  BY <1>1
<1>3. PICK b \in 16 .. 109 : b = Extended[i]
  BY ExtendedRange
<1>4. c = <<224, b>> /\ b \in Int /\ b <= 156
  BY <1>2, <1>3 DEF ExtendedCode
<1>5. b = scancodes_part1[i] /\ i \in 1 .. 40
  BY <1>3, Part1Facts
<1>6. Part(b, 89, scancodes_part1, 128) = i + 88
  BY <1>5, Part1Found
<1>7. to_event_id(c) = i + 88
  BY <1>4, <1>6, LowByteId
<1>8. PICK id \in Int : id = i + 88 /\ id = k + 3 /\ k \in 84 .. 123
  BY <1>1, <1>2
<1>9. id # -1 /\ Keyevent_table(id) = DownEvent(k)
  BY <1>8, ExtendedRow
<1> QED
  BY <1>7, <1>8, <1>9 DEF Means

(* The code of every press means that the key is down. *)
LEMMA PressMeans ==
    ASSUME NEW k \in 1 .. 125
    PROVE  Means(ScanCode(k, 0), DownEvent(k))
<1> DEFINE c == ScanCode(k, 0)
<1>1. CASE PlainCode(k, 0, c)
  <2>1. k \in 1 .. 83 /\ c = <<k>>
    BY <1>1 DEF PlainCode
  <2>2. k # -1 /\ Keyevent_table(k) = DownEvent(k)
    BY <2>1, PlainRow
  <2> QED
    BY <2>1, <2>2, ShortMeaning
<1>2. CASE F11Code(k, 0, c)
  <2>1. PICK b \in Int : b = k + 3 /\ c = <<b>> /\ k \in 84 .. 123
    BY <1>2 DEF F11Code
  <2>2. b # -1 /\ Keyevent_table(b) = DownEvent(k)
    BY <2>1, ExtendedRow
  <2> QED
    BY <2>1, <2>2, ShortMeaning
<1>3. CASE ExtendedCode(k, 0, c)
  BY <1>3, ExtendedMeans
<1>4. CASE PrintCode(k, 0, c)
  <2>1. k = 124 /\ c = PrintPressed
    BY <1>4 DEF PrintCode
  <2> QED
    BY <2>1, LongIds, LongRows DEF Means
<1>5. CASE PauseCode(k, 0, c)
  <2>1. k = 125 /\ c = PausePressed
    BY <1>5 DEF PauseCode
  <2> QED
    BY <2>1, LongIds, LongRows DEF Means
<1>6. ~PrintUpCode(k, 0, c)
  BY DEF PrintUpCode
<1> QED
  BY <1>1, <1>2, <1>3, <1>4, <1>5, <1>6, CodeCases

(* The codes of the keys that go up: E0 9C and E0 ED have no event. *)
LEMMA ExtendedUpMeans ==
    ASSUME NEW k, NEW c, ExtendedCode(k, 128, c)
    PROVE  /\ k # 88 /\ k # 123 => Means(c, UpEvent(k))
           /\ k = 88 \/ k = 123 => to_event_id(c) = -1
<1>0. k \in 86 .. 123
  BY DEF ExtendedCode
<1>1. PICK i \in 1 .. 38 : i = k - 85 /\ k = i + 85
  BY <1>0
<1>a. PICK e \in 16 .. 109 : e = Extended[i]
  BY ExtendedRange
<1>b. PICK b \in 144 .. 237 : b = e + 128
  OBVIOUS
<1>c. c = <<224, b>>
  BY <1>1, <1>a, <1>b DEF ExtendedCode
<1>d. b \in Int
  OBVIOUS
<1>2. CASE i \in 1 .. 2
  <2>1. /\ i = 1 => e = 16 /\ b = 144
        /\ i = 2 => e = 25 /\ b = 153
    <3>1. Extended[1] = 16 /\ Extended[2] = 25
      BY ExtendedFacts
    <3> QED
      BY <1>a, <1>b, <3>1
  <2>2. PICK j \in 1 .. 40 : j = i + 38 /\ j + 88 = k + 41
    BY <1>1, <1>2
  <2>3. b = scancodes_part1[j] /\ b <= 156
    <3>1. scancodes_part1[39] = 144 /\ scancodes_part1[40] = 153
      BY Part1Facts
    <3>2. CASE i = 1
      BY <2>1, <2>2, <3>1, <3>2
    <3>3. CASE i = 2
      BY <2>1, <2>2, <3>1, <3>3
    <3> QED
      BY <1>2, <3>2, <3>3
  <2>4. Part(b, 89, scancodes_part1, 128) = j + 88
    BY <2>2, <2>3, Part1Found
  <2>5. to_event_id(c) = j + 88
    BY <1>c, <1>d, <2>3, <2>4, LowByteId
  <2>6. PICK id \in Int : id = j + 88 /\ id = k + 41 /\ k \in 86 .. 87
    BY <1>1, <1>2, <2>2
  <2>7. id # -1 /\ Keyevent_table(id) = UpEvent(k)
    BY <2>6, InsertUpRow
  <2>8. Means(c, UpEvent(k))
    BY <2>5, <2>6, <2>7 DEF Means
  <2> QED
    BY <2>6, <2>8
<1>3. CASE i = 3
  <2>1. e = 28
    BY <1>3, <1>a, ExtendedFacts
  <2>2. b = 156 /\ b <= 156 /\ k = 88
    BY <1>1, <1>3, <1>b, <2>1
  <2>3. to_event_id(c) = Part(b, 89, scancodes_part1, 128)
    BY <1>c, <1>d, <2>2, LowByteId
  <2> QED
    BY <2>2, <2>3, Part1Missing
<1>4. CASE i \in 4 .. 37
  <2>1. e > 28
    BY <1>a, <1>4, ExtendedHigh
  <2>2. b > 156
    BY <1>b, <2>1
  <2>3. PICK j \in 1 .. 37 : j = i - 2 /\ j <= 36 /\ j + 216 = k + 129
    BY <1>1, <1>4
  <2>4. b = scancodes_part2[j]
    BY <1>a, <1>b, <1>4, <2>3, Part2Facts
  <2>5. Part(b, 217, scancodes_part2, 252) = j + 216
    BY <2>3, <2>4, Part2Found
  <2>6. to_event_id(c) = j + 216
    BY <1>c, <1>d, <2>2, <2>5, HighByteId
  <2>7. PICK id \in Int : id = j + 216 /\ id = k + 129 /\ k \in 88 .. 123
    BY <1>1, <1>4, <2>3
  <2>8. id # -1 /\ Keyevent_table(id) = UpEvent(k)
    BY <2>7, ExtendedUpRow
  <2>9. Means(c, UpEvent(k))
    BY <2>6, <2>7, <2>8 DEF Means
  <2>10. k # 88 /\ k # 123
    BY <1>1, <1>4
  <2> QED
    BY <2>9, <2>10
<1>5. CASE i = 38
  <2>1. b = scancodes_part2[37]
    BY <1>a, <1>b, <1>5, Part2Facts
  <2>2. e > 28
    BY <1>a, <1>5, ExtendedHigh
  <2>3. b > 156 /\ k = 123
    BY <1>1, <1>b, <1>5, <2>2
  <2>4. Part(b, 217, scancodes_part2, 252) = -1
    BY <2>1, Part2Found
  <2>5. to_event_id(c) = -1
    BY <1>c, <1>d, <2>3, <2>4, HighByteId
  <2> QED
    BY <2>3, <2>5
<1>6. i \in 1 .. 2 \/ i = 3 \/ i \in 4 .. 37 \/ i = 38
  OBVIOUS
<1> QED
  BY <1>2, <1>3, <1>4, <1>5, <1>6, Zenon

(* The code of a release means that the key is up, but for two keys. *)
LEMMA ReleaseMeans ==
    ASSUME NEW k \in 1 .. 124
    PROVE  /\ k # 88 /\ k # 123 => Means(ScanCode(k, 128), UpEvent(k))
           /\ k = 88 \/ k = 123 => to_event_id(ScanCode(k, 128)) = -1
<1> DEFINE c == ScanCode(k, 128)
<1>1. CASE PlainCode(k, 128, c)
  <2>1. PICK b \in Int : b = k + 128 /\ c = <<b>> /\ k \in 1 .. 83
    BY <1>1 DEF PlainCode
  <2>2. b # -1 /\ Keyevent_table(b) = UpEvent(k)
    BY <2>1, PlainUpRow
  <2>3. Means(c, UpEvent(k)) 
    BY <2>1, <2>2, ShortMeaning
  <2> QED
    BY <2>1, <2>3
<1>2. CASE F11Code(k, 128, c)
  <2>1. PICK b \in Int : b = k + 131 /\ c = <<b>> /\ k \in 84 .. 85
    BY <1>2 DEF F11Code
  <2>2. b # -1 /\ Keyevent_table(b) = UpEvent(k)
    BY <2>1, F11UpRow
  <2>3. Means(c, UpEvent(k)) 
    BY <2>1, <2>2, ShortMeaning
  <2> QED
    BY <2>1, <2>3
<1>3. CASE ExtendedCode(k, 128, c)
  BY <1>3, ExtendedUpMeans
<1>4. CASE PrintUpCode(k, 128, c)
  <2>1. k = 124 /\ c = PrintReleased
    BY <1>4 DEF PrintUpCode
  <2>2. Means(c, UpEvent(k)) 
    BY <2>1, LongIds, LongRows DEF Means
  <2> QED
    BY <2>1, <2>2
<1>5. ~PrintCode(k, 128, c) /\ ~PauseCode(k, 128, c)
  BY DEF PrintCode, PauseCode
<1> QED
  BY <1>1, <1>2, <1>3, <1>4, <1>5, CodeCases

-----------------------------------------------------------------------------
(* The steps of the keyboard and of the driver.                            *)
LEMMA HeadTailByte ==
    ASSUME NEW w \in Seq(Byte), w # <<>>
    PROVE  /\ Len(w) \in Nat /\ Len(w) >= 1
           /\ Head(w) = w[1] /\ w[1] \in Byte
           /\ Tail(w) \in Seq(Byte) /\ Len(Tail(w)) = Len(w) - 1
           /\ \A i \in 1 .. Len(w) - 1 : Tail(w)[i] = w[i + 1]
<1>1. Len(w) \in Nat /\ Len(w) >= 1
  BY EmptySeq, LenProperties
<1>2. Tail(w) \in Seq(Byte) /\ Len(Tail(w)) = Len(w) - 1
  BY HeadTailProperties
<1>3. \A i \in 1 .. Len(w) - 1 : Tail(w)[i] = w[i + 1]
  BY <1>2, HeadTailProperties
<1>4. Head(w) = w[1] /\ w[1] \in Byte
  BY <1>1, ElementOfSeq
<1> QED
  BY <1>1, <1>2, <1>3, <1>4

(* Bytes that begin with FF, or eight of them, are no code. *)
LEMMA DeafIncomplete ==
    ASSUME NEW p \in Seq(Byte), Len(p) >= 1, p[1] = 255 \/ Len(p) = 8
    PROVE  ~is_complete_scancode(p)
<1>1. CASE p[1] = 255
  <2>1. /\ PrintPressed[1] = 224 /\ PrintReleased[1] = 224
        /\ PausePressed[1] = 225
    BY LongCodes
  <2> QED
    BY <1>1, <2>1 DEF is_complete_scancode, E0
<1>2. CASE Len(p) = 8
  <2>1. /\ Len(PrintPressed) = 4 /\ Len(PrintReleased) = 4
        /\ Len(PausePressed) = 6
    BY LongCodes
  <2>2. p # PrintPressed /\ p # PrintReleased /\ p # PausePressed
    <3>1. Len(p) # 4 /\ Len(p) # 6
      BY <1>2
    <3> QED
      BY <2>1, <3>1, Zenon
  <2>3. Len(p) # 1 /\ Len(p) # 2
    BY <1>2
  <2> QED
    BY <2>2, <2>3 DEF is_complete_scancode
<1> QED
  BY <1>1, <1>2

(* No byte is no code. *)
LEMMA EmptyIncomplete == ~is_complete_scancode(<<>>)
<1>1. /\ Len(PrintPressed) = 4 /\ Len(PrintReleased) = 4
      /\ Len(PausePressed) = 6 /\ Len(<<>>) = 0
  BY LongCodes
<1>2. <<>> \notin {PrintPressed, PrintReleased, PausePressed}
  BY <1>1
<1> QED
  BY <1>1, <1>2 DEF is_complete_scancode

(* Two sequences of bytes with the same bytes are equal. *)
LEMMA SameBytes ==
    ASSUME NEW p \in Seq(Byte), NEW c \in Seq(Byte), Len(p) = Len(c),
           \A i \in 1 .. Len(p) : p[i] = c[i]
    PROVE  p = c
  BY SeqEqual

(* The codes of the keys of the model. *)
LEMMA KeyCode ==
    ASSUME NEW k \in Keys, NEW up \in {0, 128}
    PROVE  /\ k \in 1 .. 125 /\ k # 0 /\ GoodCode(ScanCode(k, up))
           /\ ScanCode(k, up) \in Seq(Byte) /\ ScanCode(k, up) # <<>>
<1>1. k \in 1 .. 125
  BY KeyboardConstants
<1>2. GoodCode(ScanCode(k, up))
  BY <1>1, CodeFacts
<1>3. ScanCode(k, up) # <<>>
  BY <1>2, EmptySeq DEF GoodCode
<1> QED
  BY <1>1, <1>2, <1>3 DEF GoodCode

(* With nothing on the wire, no code is under way. *)
LEMMA WireEmpty ==
    ASSUME KeyboardInv, wire = <<>>
    PROVE  /\ ~overrun /\ ~fatal => Idle
           /\ overrun => SCAN_CODE # <<>> /\ (SCAN_CODE[1] = 255 \/ Len(SCAN_CODE) = 8)
<1>1. ASSUME Sending PROVE FALSE
  <2> DEFINE c == ScanCode(sent.key, Up(sent.pressed))
  <2>1. PICK n \in 0 .. 5 : Arrived(n, c)
    BY <1>1 DEF Sending
  <2>2. Up(sent.pressed) \in {0, 128}
    BY DEF Up
  <2>3. Len(c) \in 1 .. 6
    BY <1>1, <2>2, KeyCode DEF Sending, GoodCode
  <2>4. Len(wire) = 0
    BY EmptySeq
  <2> QED
    BY <2>1, <2>3, <2>4 DEF Arrived
<1>2. wire # <<255>>
  OBVIOUS
<1> QED
  BY <1>1, <1>2 DEF KeyboardInv, Deaf

(* A code that starts puts all its bytes on the wire. *)
LEMMA StartSending ==
    ASSUME NEW c, GoodCode(c), SCAN_CODE' = <<>>, wire' = c
    PROVE  Arrived(0, c)'
<1>1. Len(c) \in 1 .. 6 /\ Len(SCAN_CODE') = 0
  BY DEF GoodCode
<1> QED
  BY <1>1 DEF Arrived

(* A key goes down. *)
LEMMA PressKeeps ==
    ASSUME KeyboardInv, NEW k \in Keys, Press(k)
    PROVE  KeyboardInv'
<1> DEFINE c == ScanCode(k, 0)
<1>1. /\ k \in 1 .. 125 /\ k # 0 /\ GoodCode(c) /\ c \in Seq(Byte) /\ c # <<>>
  BY KeyCode
<1>2. /\ wire = <<>> /\ ~fatal /\ wire' = c /\ sent' = [key |-> k, pressed |-> TRUE]
      /\ held' = IF k = PAUSE THEN held ELSE held \cup {k}
      /\ UNCHANGED <<overrun, SCAN_CODE, Key_pressed_table, typed, fatal>>
  BY DEF Press
<1>3. sent'.key = k /\ sent'.pressed = TRUE /\ Up(sent'.pressed) = 0
  BY <1>2 DEF Up
<1>4. TypeOK'
  <2>1. held' \subseteq Keys
    BY <1>2 DEF KeyboardInv, TypeOK
  <2>2. sent' \in [key : {0} \cup Keys, pressed : BOOLEAN]
    BY <1>2
  <2> QED
    BY <1>1, <1>2, <2>1, <2>2 DEF KeyboardInv, TypeOK
<1>5. OnlyTwoCodesAreFatal'
  BY <1>2 DEF OnlyTwoCodesAreFatal
<1>6. TypedIsPressed'
  BY <1>1, <1>2 DEF TypedIsPressed, Quiet
<1>7. overrun' => Deaf' /\ ~fatal'
  <2> SUFFICES ASSUME overrun' PROVE Deaf'
    BY <1>2
  <2>1. overrun /\ Deaf
    BY <1>2 DEF KeyboardInv
  <2>2. \A i \in DOMAIN wire' : wire'[i] # 0
    BY <1>1, <1>2, LenProperties DEF GoodCode
  <2>3. SCAN_CODE' # <<>> /\ (SCAN_CODE'[1] = 255 \/ Len(SCAN_CODE') = 8)
    BY <1>2, <2>1, WireEmpty
  <2> QED
    BY <1>2, <2>1, <2>2, <2>3 DEF Deaf
<1>8. ~overrun' /\ ~fatal' => Idle' \/ Sending'
  <2> SUFFICES ASSUME ~overrun' PROVE Sending'
    BY <1>2
  <2>1. Idle
    BY <1>2, WireEmpty
  <2>2. Arrived(0, c)'
    BY <1>1, <1>2, <2>1, StartSending DEF Idle
  <2>3. held' = (Key_pressed_table' \cup {k}) \ {PAUSE}
    BY <1>2, <2>1 DEF Idle
  <2>4. Arrived(0, ScanCode(sent.key, Up(sent.pressed)))'
    BY <1>3, <2>2
  <2> QED
    BY <1>3, <2>3, <2>4 DEF Sending
<1> QED
  BY <1>4, <1>5, <1>6, <1>7, <1>8 DEF KeyboardInv

(* A key goes up. *)
LEMMA ReleaseKeeps ==
    ASSUME KeyboardInv, NEW k \in Keys, Release(k)
    PROVE  KeyboardInv'
<1> DEFINE c == ScanCode(k, 128)
<1>1. /\ k \in 1 .. 125 /\ k # 0 /\ GoodCode(c) /\ c \in Seq(Byte) /\ c # <<>>
  BY KeyCode
<1>2. /\ wire = <<>> /\ ~fatal /\ wire' = c /\ sent' = [key |-> k, pressed |-> FALSE]
      /\ k \in held /\ held' = held \ {k}
      /\ UNCHANGED <<overrun, SCAN_CODE, Key_pressed_table, typed, fatal>>
  BY DEF Release
<1>3. sent'.key = k /\ sent'.pressed = FALSE /\ Up(sent'.pressed) = 128
  BY <1>2 DEF Up
<1>4. TypeOK'
  <2>1. held' \subseteq Keys
    BY <1>2 DEF KeyboardInv, TypeOK
  <2>2. sent' \in [key : {0} \cup Keys, pressed : BOOLEAN]
    BY <1>2
  <2> QED
    BY <1>1, <1>2, <2>1, <2>2 DEF KeyboardInv, TypeOK
<1>5. OnlyTwoCodesAreFatal'
  BY <1>2 DEF OnlyTwoCodesAreFatal
<1>6. TypedIsPressed'
  BY <1>1, <1>2 DEF TypedIsPressed, Quiet
<1>7. overrun' => Deaf' /\ ~fatal'
  <2> SUFFICES ASSUME overrun' PROVE Deaf'
    BY <1>2
  <2>1. overrun /\ Deaf
    BY <1>2 DEF KeyboardInv
  <2>2. \A i \in DOMAIN wire' : wire'[i] # 0
    BY <1>1, <1>2, LenProperties DEF GoodCode
  <2>3. SCAN_CODE' # <<>> /\ (SCAN_CODE'[1] = 255 \/ Len(SCAN_CODE') = 8)
    BY <1>2, <2>1, WireEmpty
  <2> QED
    BY <1>2, <2>1, <2>2, <2>3 DEF Deaf
<1>8. ~overrun' /\ ~fatal' => Idle' \/ Sending'
  <2> SUFFICES ASSUME ~overrun' PROVE Sending'
    BY <1>2
  <2>1. Idle
    BY <1>2, WireEmpty
  <2>2. Arrived(0, c)'
    BY <1>1, <1>2, <2>1, StartSending DEF Idle
  <2>3. held' = Key_pressed_table' \ {PAUSE, k} /\ k # PAUSE
    BY <1>2, <2>1 DEF Idle
  <2>4. Arrived(0, ScanCode(sent.key, Up(sent.pressed)))'
    BY <1>3, <2>2
  <2> QED
    BY <1>3, <2>3, <2>4 DEF Sending
<1> QED
  BY <1>4, <1>5, <1>6, <1>7, <1>8 DEF KeyboardInv

(* The keyboard reports an error. *)
LEMMA ErrorByteKeeps ==
    ASSUME KeyboardInv, NEW byte \in {0, 255}, ErrorByte(byte)
    PROVE  KeyboardInv'
<1>1. /\ wire = <<>> /\ ~fatal /\ ~overrun /\ wire' = <<byte>>
      /\ sent' = [key |-> 0, pressed |-> FALSE] /\ overrun' = (byte = 255)
      /\ UNCHANGED <<held, SCAN_CODE, Key_pressed_table, typed, fatal>>
  BY DEF ErrorByte
<1>2. Idle
  BY <1>1, WireEmpty
<1>3. TypeOK'
  <2>1. wire' \in Seq(Byte)
    BY <1>1 DEF Byte
  <2>2. sent' \in [key : {0} \cup Keys, pressed : BOOLEAN]
    BY <1>1
  <2> QED
    BY <1>1, <2>1, <2>2 DEF KeyboardInv, TypeOK
<1>4. OnlyTwoCodesAreFatal'
  BY <1>1 DEF OnlyTwoCodesAreFatal
<1>5. TypedIsPressed'
  BY <1>1 DEF TypedIsPressed, Quiet
<1>6. CASE byte = 0
  <2>1. ~overrun' /\ wire' = <<0>> /\ sent'.key = 0
    <3>1. byte # 255
      BY <1>6
    <3>2. overrun' = FALSE
      BY <1>1, <3>1, Zenon
    <3>3. sent'.key = 0
      BY <1>1
    <3>4. wire' = <<0>>
      BY <1>1, <1>6, Zenon
    <3> QED
      BY <3>2, <3>3, <3>4, Zenon
  <2>2. Idle'
    BY <1>1, <1>2, <2>1 DEF Idle
  <2> QED
    BY <1>3, <1>4, <1>5, <2>1, <2>2 DEF KeyboardInv
<1>7. CASE byte = 255
  <2>1. overrun' /\ wire' = <<255>>
    <3>1. overrun' = TRUE
      BY <1>1, <1>7
    <3> QED
      BY <1>1, <1>7, <3>1
  <2>2. SCAN_CODE' = <<>> /\ ~fatal'
    BY <1>1, <1>2 DEF Idle
  <2>3. (\A i \in DOMAIN wire' : wire'[i] # 0) /\ \A i \in DOMAIN SCAN_CODE' : SCAN_CODE'[i] # 0
    BY <2>1, <2>2
  <2>4. Deaf'
    BY <2>1, <2>2, <2>3 DEF Deaf
  <2> QED
    BY <1>3, <1>4, <1>5, <2>1, <2>2, <2>4 DEF KeyboardInv
<1> QED
  BY <1>6, <1>7

(* A SCAN_CODE that will never be a code again. *)
DeafCode(c) == /\ c \in Seq(Byte) /\ Len(c) \in 1 .. 8
               /\ \A i \in 1 .. Len(c) : c[i] # 0
               /\ c[1] = 255 \/ Len(c) = 8

(* FF alone cannot become a code, *)
LEMMA FirstFF == DeafCode(Shifted(<<>>, 255))
<1>1. Shifted(<<>>, 255) = Append(<<>>, 255)
  <2>1. <<>> \in Seq(Byte) /\ Len(<<>>) < 8 /\ 255 \in Byte /\ 255 # 0
    BY DEF Byte
  <2> QED
    BY <2>1, ShiftedAppends
<1>2. Append(<<>>, 255) = <<255>>
  OBVIOUS
<1>3. <<255>> \in Seq(Byte) /\ Len(<<255>>) \in 1 .. 8 /\ <<255>>[1] = 255
  BY DEF Byte
<1>4. \A i \in 1 .. Len(<<255>>) : <<255>>[i] # 0
  OBVIOUS
<1>5. DeafCode(<<255>>)
  BY <1>3, <1>4 DEF DeafCode
<1> QED
  BY <1>1, <1>2, <1>5

(* ... nor can it with another byte behind it, *)
LEMMA DeafAppend ==
    ASSUME NEW s, DeafCode(s), Len(s) < 8, NEW d \in Byte, d # 0
    PROVE  DeafCode(Shifted(s, d))
<1> DEFINE c == Append(s, d)
<1>1. s \in Seq(Byte) /\ Len(s) \in 1 .. 7 /\ s[1] = 255 /\ s # <<>> /\ s[1] # 0
  BY DEF DeafCode
<1>2. Shifted(s, d) = c
  BY <1>1, ShiftedAppends
<1>3. /\ c \in Seq(Byte) /\ Len(c) = Len(s) + 1
      /\ \A i \in 1 .. Len(s) : c[i] = s[i]
      /\ c[Len(s) + 1] = d
  BY <1>1, AppendByte
<1> HIDE DEF c
<1>4. Len(c) \in 1 .. 8
  BY <1>1, <1>3
<1>5. \A i \in 1 .. Len(c) : c[i] # 0
  <2> TAKE i \in 1 .. Len(c)
  <2>1. i \in 1 .. Len(s) \/ i = Len(s) + 1
    BY <1>1, <1>3
  <2> QED
    BY <1>3, <2>1 DEF DeafCode
<1>6. c[1] = 255
  <2>1. 1 \in 1 .. Len(s)
    BY <1>1
  <2> QED
    BY <1>1, <1>3, <2>1
<1> QED
  BY <1>2, <1>3, <1>4, <1>5, <1>6 DEF DeafCode

(* ... nor when the eight bytes are full and the oldest is lost. *)
LEMMA DeafShift ==
    ASSUME NEW s, DeafCode(s), NEW d \in Byte, d # 0
    PROVE  DeafCode(Shifted(s, d))
<1>1. CASE Len(s) < 8
  BY <1>1, DeafAppend
<1>2. CASE Len(s) = 8
  <2> DEFINE c == Shifted(s, d)
  <2>1. s \in Seq(Byte) /\ DOMAIN s = 1 .. 8
    BY <1>2, LenProperties DEF DeafCode
  <2>2. \A i \in DOMAIN s : s[i] # 0
    BY <1>2, <2>1 DEF DeafCode
  <2>3. c \in Seq(Byte) /\ Len(c) = 8 /\ \A i \in DOMAIN c : c[i] # 0
    BY <1>2, <2>1, <2>2, ShiftedFull
  <2>4. DOMAIN c = 1 .. Len(c)
    BY <2>3, LenProperties
  <2> QED
    BY <2>3, <2>4 DEF DeafCode
<1>3. Len(s) < 8 \/ Len(s) = 8
  BY DEF DeafCode
<1> QED
  BY <1>1, <1>2, <1>3

(* Facts that the provers need one by one. *)
LEMMA EmptyCode == <<>> \in Seq(Byte) /\ Len(<<>>) = 0 /\ Len(<<>>) <= 8
  OBVIOUS

(* ... the numbers of bytes that a code can have. *)
LEMMA OneToSix ==
    \A l \in 1 .. 6 : /\ l <= 6
                      /\ \A n \in 0 .. 5 : n + 1 < l => n + 1 \in 0 .. 5 /\ l - (n + 1) # 0
  OBVIOUS

(* ... the same for SCAN_CODE. *)
LEMMA OneToEight == \A n \in Nat : n >= 1 /\ n <= 8 => n \in 1 .. 8
  OBVIOUS

(* Once FF has come, a byte goes to SCAN_CODE and changes nothing else. *)
LEMMA DeafStays ==
    ASSUME KeyboardInv, overrun, ps2_keyboard_interrupt
    PROVE  /\ Deaf' /\ SCAN_CODE' # <<>> /\ SCAN_CODE' \in Seq(Byte)
           /\ Len(SCAN_CODE') <= 8
           /\ UNCHANGED <<Key_pressed_table, fatal>>
<1> DEFINE data == Head(wire)
           code == Shifted(SCAN_CODE, data)
<1>1. /\ wire \in Seq(Byte) /\ wire # <<>> /\ wire' = Tail(wire) /\ Deaf
      /\ SCAN_CODE \in Seq(Byte) /\ Len(SCAN_CODE) <= 8
  BY DEF KeyboardInv, TypeOK, ps2_keyboard_interrupt
<1>2. /\ Len(wire) \in Nat /\ Len(wire) >= 1 /\ data = wire[1] /\ wire[1] \in Byte
      /\ Tail(wire) \in Seq(Byte) /\ Len(Tail(wire)) = Len(wire) - 1
      /\ \A i \in 1 .. Len(wire) - 1 : Tail(wire)[i] = wire[i + 1]
  BY <1>1, HeadTailByte
<1>3. DOMAIN wire = 1 .. Len(wire) /\ DOMAIN Tail(wire) = 1 .. Len(wire) - 1
  BY <1>1, <1>2, LenProperties
<1>4. data # 0 /\ data \in Byte
  BY <1>1, <1>2, <1>3 DEF Deaf
<1>5. \A i \in DOMAIN wire' : wire'[i] # 0
  BY <1>1, <1>2, <1>3 DEF Deaf
<1>6. DeafCode(code)
  <2>1. CASE SCAN_CODE = <<>> /\ wire = <<255>>
    <3>1. data = 255
      BY <2>1
    <3>2. code = Shifted(<<>>, 255)
      BY <2>1, <3>1, Zenon
    <3> QED
      BY <3>2, FirstFF, Zenon
  <2>2. CASE SCAN_CODE # <<>> /\ (SCAN_CODE[1] = 255 \/ Len(SCAN_CODE) = 8)
    <3>1. Len(SCAN_CODE) \in 1 .. 8 /\ DOMAIN SCAN_CODE = 1 .. Len(SCAN_CODE)
      <4>1. SCAN_CODE \in Seq(Byte) /\ SCAN_CODE # <<>>
        BY <1>1, <2>2
      <4>2. Len(SCAN_CODE) \in Nat /\ Len(SCAN_CODE) >= 1
        BY <4>1, HeadTailByte
      <4>3. DOMAIN SCAN_CODE = 1 .. Len(SCAN_CODE)
        BY <4>1, LenProperties
      <4>4. Len(SCAN_CODE) <= 8
        BY <1>1, Zenon
      <4>5. Len(SCAN_CODE) \in 1 .. 8
        BY <4>2, <4>4, OneToEight, Zenon
      <4> QED
        BY <4>3, <4>5, Zenon
    <3>2. \A i \in 1 .. Len(SCAN_CODE) : SCAN_CODE[i] # 0
      BY <1>1, <3>1 DEF Deaf
    <3>3. DeafCode(SCAN_CODE)
      BY <1>1, <2>2, <3>1, <3>2 DEF DeafCode
    <3> QED
      BY <1>4, <3>3, DeafShift
  <2> QED
    BY <1>1, <2>1, <2>2 DEF Deaf
<1>7. ~is_complete_scancode(code)
  BY <1>6, DeafIncomplete DEF DeafCode
<1>8. /\ SCAN_CODE' = code
      /\ UNCHANGED <<Key_pressed_table, fatal>>
  BY <1>7 DEF ps2_keyboard_interrupt
<1> HIDE DEF code
<1>9. SCAN_CODE' # <<>>
  <2>1. Len(<<>>) = 0
    OBVIOUS
  <2> QED
    BY <1>6, <1>8, <2>1 DEF DeafCode
<1>10. \A i \in DOMAIN SCAN_CODE' : SCAN_CODE'[i] # 0
  BY <1>6, <1>8, LenProperties DEF DeafCode
<1>11. Deaf'
  BY <1>5, <1>6, <1>8, <1>9, <1>10 DEF Deaf, DeafCode
<1> QED
  BY <1>6, <1>8, <1>9, <1>11 DEF DeafCode

(* The byte that comes next belongs to the code under way. *)
LEMMA NextByte ==
    ASSUME NEW c, GoodCode(c), NEW n \in 0 .. 5, Arrived(n, c),
           wire \in Seq(Byte), SCAN_CODE \in Seq(Byte)
    PROVE  LET code == Shifted(SCAN_CODE, Head(wire))
           IN  /\ code \in Seq(Byte) /\ Len(code) = n + 1
               /\ \A i \in 1 .. n + 1 : code[i] = c[i]
               /\ Tail(wire) \in Seq(Byte) /\ Len(Tail(wire)) = Len(c) - (n + 1)
               /\ \A i \in 1 .. Len(c) - (n + 1) : Tail(wire)[i] = c[n + 1 + i]
<1>1. /\ n < Len(c) /\ Len(SCAN_CODE) = n /\ Len(wire) = Len(c) - n
      /\ \A i \in 1 .. n : SCAN_CODE[i] = c[i]
      /\ \A i \in 1 .. Len(c) - n : wire[i] = c[n + i]
  BY DEF Arrived
<1>2. Len(c) \in 1 .. 6 /\ \A i \in 1 .. Len(c) : c[i] # 0
  BY DEF GoodCode
<1>3. wire # <<>>
  <2>1. Len(<<>>) = 0
    OBVIOUS
  <2> QED
    BY <1>1, <1>2, <2>1
<1>4. /\ Head(wire) = wire[1] /\ wire[1] \in Byte
      /\ Tail(wire) \in Seq(Byte) /\ Len(Tail(wire)) = Len(wire) - 1
      /\ \A i \in 1 .. Len(wire) - 1 : Tail(wire)[i] = wire[i + 1]
  BY <1>3, HeadTailByte
<1>5. wire[1] = c[n + 1] /\ wire[1] # 0
  BY <1>1, <1>2
<1>6. SCAN_CODE # <<>> => SCAN_CODE[1] # 0
  <2> SUFFICES ASSUME SCAN_CODE # <<>> PROVE SCAN_CODE[1] # 0
    OBVIOUS
  <2>1. n >= 1
    BY <1>1, HeadTailByte
  <2> QED
    BY <1>1, <1>2, <2>1
<1>7. Len(SCAN_CODE) < 8
  BY <1>1
<1>8. Shifted(SCAN_CODE, Head(wire)) = Append(SCAN_CODE, wire[1])
  BY <1>4, <1>5, <1>6, <1>7, ShiftedAppends
<1> DEFINE code == Append(SCAN_CODE, wire[1])
<1>9. /\ code \in Seq(Byte) /\ Len(code) = Len(SCAN_CODE) + 1
      /\ \A i \in 1 .. Len(SCAN_CODE) : code[i] = SCAN_CODE[i]
      /\ code[Len(SCAN_CODE) + 1] = wire[1]
  BY <1>4, AppendByte
<1> HIDE DEF code
<1>10. \A i \in 1 .. n + 1 : code[i] = c[i]
  <2> TAKE i \in 1 .. n + 1
  <2>1. i \in 1 .. n \/ i = n + 1
    OBVIOUS
  <2> QED
    BY <1>1, <1>5, <1>9, <2>1
<1>11. code \in Seq(Byte) /\ Len(code) = n + 1
  BY <1>1, <1>9
<1>12. Tail(wire) \in Seq(Byte) /\ Len(Tail(wire)) = Len(c) - (n + 1)
  BY <1>1, <1>2, <1>4
<1>13. \A i \in 1 .. Len(c) - (n + 1) : Tail(wire)[i] = c[n + 1 + i]
  <2> TAKE i \in 1 .. Len(c) - (n + 1)
  <2>1. i \in 1 .. Len(wire) - 1 /\ i + 1 \in 1 .. Len(c) - n /\ n + (i + 1) = n + 1 + i
    BY <1>1, <1>2
  <2> QED
    BY <1>1, <1>4, <2>1
<1> QED
  BY <1>8, <1>10, <1>11, <1>12, <1>13 DEF code

(* A code that is complete and means that key k went down, or up. *)
LEMMA DownStep ==
    ASSUME NEW k, NEW c, Means(c, DownEvent(k)), response_scancode(c)
    PROVE  /\ Key_pressed_table' = Key_pressed_table \cup {k}
           /\ typed' = IF is_valid_char(k)
                         THEN [key |-> k, shifted |-> is_shift_pressed]
                         ELSE NoChar
<1>1. Keyevent_table(to_event_id(c)) = DownEvent(k)
  BY DEF Means
<1>2. DownEvent(k).key = k /\ DownEvent(k).pressed = TRUE
  BY DEF DownEvent
<1> QED
  BY <1>1, <1>2, Zenon DEF response_scancode

(* The event of a release takes the key out of the table. *)
LEMMA UpStep ==
    ASSUME NEW k, NEW c, Means(c, UpEvent(k)), response_scancode(c)
    PROVE  /\ Key_pressed_table' = Key_pressed_table \ {k}
           /\ typed' = NoChar
<1>1. Keyevent_table(to_event_id(c)) = UpEvent(k)
  BY DEF Means
<1>2. UpEvent(k).key = k /\ UpEvent(k).pressed = FALSE
  BY DEF UpEvent
<1> QED
  BY <1>1, <1>2, Zenon DEF response_scancode

(* The interrupt, by what the byte completes. *)
LEMMA InterruptCases ==
    ASSUME ps2_keyboard_interrupt
    PROVE  LET code == Shifted(SCAN_CODE, Head(wire))
           IN  /\ wire # <<>> /\ ~fatal /\ wire' = Tail(wire)
               /\ UNCHANGED <<held, sent, overrun>>
               /\ ~is_complete_scancode(code) =>
                     /\ SCAN_CODE' = code /\ typed' = NoChar
                     /\ UNCHANGED <<Key_pressed_table, fatal>>
               /\ is_complete_scancode(code) /\ to_event_id(code) # -1 =>
                     response_scancode(code) /\ SCAN_CODE' = <<>> /\ UNCHANGED fatal
               /\ is_complete_scancode(code) /\ to_event_id(code) = -1 =>
                     fatal' = TRUE /\ SCAN_CODE' = code
  BY Zenon DEF ps2_keyboard_interrupt

(* With the last byte SCAN_CODE is the code that was sent. *)
LEMMA WholeCode ==
    ASSUME KeyboardInv, ~overrun, ~fatal, Sending, ps2_keyboard_interrupt,
           NEW c, c = ScanCode(sent.key, Up(sent.pressed)), Arrived(Len(c) - 1, c)
    PROVE  /\ Shifted(SCAN_CODE, Head(wire)) = c /\ is_complete_scancode(c)
           /\ wire' = <<>> /\ c \in Seq(Byte) /\ Len(c) <= 6
<1>1. Up(sent.pressed) \in {0, 128} /\ sent.key \in Keys
  BY DEF Up, Sending
<1>2. GoodCode(c)
  BY <1>1, KeyCode
<1>3. c \in Seq(Byte) /\ Len(c) \in 1 .. 6 /\ is_complete_scancode(c)
  BY <1>2 DEF GoodCode
<1>4. wire \in Seq(Byte) /\ SCAN_CODE \in Seq(Byte)
  BY DEF KeyboardInv, TypeOK
<1>5. PICK n \in 0 .. 5 : n = Len(c) - 1 /\ n + 1 = Len(c) /\ Len(c) - (n + 1) = 0
  BY <1>3
<1> DEFINE code == Shifted(SCAN_CODE, Head(wire))
<1>6. /\ code \in Seq(Byte) /\ Len(code) = n + 1
      /\ \A i \in 1 .. n + 1 : code[i] = c[i]
      /\ Tail(wire) \in Seq(Byte) /\ Len(Tail(wire)) = Len(c) - (n + 1)
  BY <1>2, <1>4, <1>5, NextByte
<1> HIDE DEF code
<1>7. code = c
  BY <1>3, <1>5, <1>6, SameBytes
<1>8. Tail(wire) = <<>>
  BY <1>5, <1>6, EmptySeq
<1>9. wire' = <<>>
  BY <1>8 DEF ps2_keyboard_interrupt
<1>10. Len(c) <= 6
  BY <1>3, OneToSix, Zenon
<1> QED
  BY <1>3, <1>7, <1>9, <1>10, Zenon DEF code

(* The interrupt for the last byte of a press, *)
LEMMA PressArrived ==
    ASSUME KeyboardInv, ~overrun, ~fatal, Sending, ps2_keyboard_interrupt, sent.pressed,
           NEW c, c = ScanCode(sent.key, Up(sent.pressed)), Arrived(Len(c) - 1, c)
    PROVE  KeyboardInv'
<1> DEFINE k == sent.key
<1>0. k \in Keys /\ Up(sent.pressed) = 0
  BY Zenon DEF Sending, Up
<1>1. k \in 1 .. 125 /\ Up(sent.pressed) = 0
  BY <1>0, KeyboardConstants
<1>2. /\ Shifted(SCAN_CODE, Head(wire)) = c /\ is_complete_scancode(c)
      /\ wire' = <<>> /\ c \in Seq(Byte) /\ Len(c) <= 6
  BY WholeCode
<1>3. Means(c, DownEvent(k))
  BY <1>1, PressMeans
<1>4. to_event_id(c) # -1
  BY <1>3 DEF Means
<1>5. /\ response_scancode(c) /\ SCAN_CODE' = <<>> /\ fatal' = fatal
      /\ held' = held /\ sent' = sent /\ overrun' = overrun
  BY <1>2, <1>4, InterruptCases
<1>6. /\ Key_pressed_table' = Key_pressed_table \cup {k}
      /\ typed' = IF is_valid_char(k)
                    THEN [key |-> k, shifted |-> is_shift_pressed]
                    ELSE NoChar
  BY <1>3, <1>5, DownStep
<1>7. held = (Key_pressed_table \cup {k}) \ {PAUSE}
  BY DEF Sending
<1>8. Idle'
  BY <1>2, <1>5, <1>6, <1>7 DEF Idle
<1>9. TypedIsPressed'
  <2>1. Key_pressed_table' \cap Shifts = held' \cap Shifts
    <3>1. PAUSE \notin Shifts
      BY DEF PAUSE, Shifts
    <3> QED
      BY <1>5, <1>6, <1>7, <3>1
  <2>2. is_valid_char(k) <=> k \in Printable
    BY DEF is_valid_char, Printable
  <2> QED
    BY <1>5, <1>6, <2>1, <2>2, Zenon DEF TypedIsPressed, is_shift_pressed
<1>10. TypeOK'
  <2>1. SCAN_CODE' \in Seq(Byte) /\ Len(SCAN_CODE') <= 8 /\ wire' \in Seq(Byte)
    BY <1>2, <1>5
  <2> QED
    BY <1>5, <2>1 DEF KeyboardInv, TypeOK
<1>11. OnlyTwoCodesAreFatal'
  BY <1>5 DEF OnlyTwoCodesAreFatal
<1> QED
  BY <1>5, <1>8, <1>9, <1>10, <1>11 DEF KeyboardInv

(* ... of a release, *)
LEMMA ReleaseArrived ==
    ASSUME KeyboardInv, ~overrun, ~fatal, Sending, ps2_keyboard_interrupt, ~sent.pressed,
           NEW c, c = ScanCode(sent.key, Up(sent.pressed)), Arrived(Len(c) - 1, c)
    PROVE  KeyboardInv'
<1> DEFINE k == sent.key
<1>0. k \in Keys /\ Up(sent.pressed) = 128 /\ k # PAUSE
  BY Zenon DEF Sending, Up
<1>1. k \in 1 .. 124 /\ Up(sent.pressed) = 128
  <2>1. k \in 1 .. 125
    BY <1>0, KeyboardConstants
  <2> QED
    BY <1>0, <2>1 DEF PAUSE
<1>2. /\ Shifted(SCAN_CODE, Head(wire)) = c /\ is_complete_scancode(c)
      /\ wire' = <<>> /\ c \in Seq(Byte) /\ Len(c) <= 6
  BY WholeCode
<1>3. held' = held /\ sent' = sent /\ overrun' = overrun
  BY InterruptCases
<1>4. CASE k = 88 \/ k = 123
  <2>1. to_event_id(c) = -1
    <3>1. c = ScanCode(k, 128)
      BY <1>1
    <3>2. \A n \in 1 .. 124 : n = 88 \/ n = 123 => to_event_id(ScanCode(n, 128)) = -1
      BY ReleaseMeans, Zenon
    <3> QED
      BY <1>1, <1>4, <3>1, <3>2, SMTT(30)
  <2>2. fatal' = TRUE /\ SCAN_CODE' = c
    BY <1>2, <2>1, InterruptCases
  <2>3. TypeOK'
    BY <1>2, <1>3, <2>2 DEF KeyboardInv, TypeOK
  <2>4. OnlyTwoCodesAreFatal'
    BY <1>3, <1>4 DEF OnlyTwoCodesAreFatal, KEYPAD_ENTER, MEDIA_SELECT
  <2>5. TypedIsPressed'
    BY <2>2 DEF TypedIsPressed, Quiet
  <2> QED
    BY <1>3, <2>2, <2>3, <2>4, <2>5 DEF KeyboardInv
<1>5. CASE k # 88 /\ k # 123
  <2>1. Means(c, UpEvent(k))
    <3>1. c = ScanCode(k, 128)
      BY <1>1
    <3>2. PICK n \in 1 .. 124 : n = k
      BY <1>1, Zenon
    <3>3. n # 88 /\ n # 123
      BY <1>5, <3>2, Zenon
    <3>4. Means(ScanCode(n, 128), UpEvent(n))
      BY <3>3, ReleaseMeans, Zenon
    <3> QED
      BY <3>1, <3>2, <3>4, Zenon
  <2>2. to_event_id(c) # -1
    BY <2>1 DEF Means
  <2>3. response_scancode(c) /\ SCAN_CODE' = <<>> /\ fatal' = fatal
    BY <1>2, <2>2, InterruptCases
  <2>4. Key_pressed_table' = Key_pressed_table \ {k} /\ typed' = NoChar
    BY <2>1, <2>3, UpStep
  <2>5. held = Key_pressed_table \ {PAUSE, k}
    BY DEF Sending
  <2>6. Idle'
    BY <1>2, <1>3, <2>3, <2>4, <2>5 DEF Idle
  <2>7. TypedIsPressed'
    BY <1>3, <2>4 DEF TypedIsPressed
  <2>8. TypeOK'
    <3>1. SCAN_CODE' \in Seq(Byte) /\ Len(SCAN_CODE') <= 8 /\ wire' \in Seq(Byte)
      BY <1>2, <2>3
    <3> QED
      BY <1>3, <2>3, <3>1 DEF KeyboardInv, TypeOK
  <2>9. OnlyTwoCodesAreFatal'
    BY <2>3 DEF OnlyTwoCodesAreFatal
  <2> QED
    BY <1>3, <2>3, <2>6, <2>7, <2>8, <2>9 DEF KeyboardInv
<1> QED
  BY <1>4, <1>5

(* A byte in the middle of a code. *)
LEMMA ByteArrived ==
    ASSUME KeyboardInv, ~overrun, ~fatal, Sending, ps2_keyboard_interrupt,
           NEW c, c = ScanCode(sent.key, Up(sent.pressed)),
           NEW n \in 0 .. 5, Arrived(n, c), n + 1 < Len(c)
    PROVE  KeyboardInv'
<1>1. Up(sent.pressed) \in {0, 128} /\ sent.key \in Keys
  BY DEF Up, Sending
<1>2. GoodCode(c) /\ sent.key \in 1 .. 125
  BY <1>1, KeyCode
<1>3. Len(c) \in 1 .. 6
  BY <1>2 DEF GoodCode
<1>4. wire \in Seq(Byte) /\ SCAN_CODE \in Seq(Byte)
  BY DEF KeyboardInv, TypeOK
<1> DEFINE code == Shifted(SCAN_CODE, Head(wire))
<1>5. /\ code \in Seq(Byte) /\ Len(code) = n + 1
      /\ \A i \in 1 .. n + 1 : code[i] = c[i]
      /\ Tail(wire) \in Seq(Byte) /\ Len(Tail(wire)) = Len(c) - (n + 1)
      /\ \A i \in 1 .. Len(c) - (n + 1) : Tail(wire)[i] = c[n + 1 + i]
  BY <1>2, <1>4, NextByte
<1>6. ~is_complete_scancode(code)
  <2>1. ProperPrefix(code, c)
    BY <1>3, <1>5 DEF ProperPrefix
  <2> QED
    BY <1>1, <1>2, <1>5, <2>1, PrefixIncomplete
<1>7. /\ SCAN_CODE' = code /\ wire' = Tail(wire) /\ fatal' = fatal
      /\ Key_pressed_table' = Key_pressed_table
      /\ held' = held /\ sent' = sent /\ overrun' = overrun
  BY <1>6, InterruptCases
<1> HIDE DEF code
<1>8. PICK m \in 0 .. 5 : m = n + 1
  BY <1>3, OneToSix, Zenon
<1>9. Arrived(m, c)'
  <2>1. /\ m < Len(c) /\ Len(SCAN_CODE') = m /\ Len(wire') = Len(c) - m
        /\ \A i \in 1 .. m : SCAN_CODE'[i] = c[i]
        /\ \A i \in 1 .. Len(c) - m : wire'[i] = c[m + i]
    BY <1>5, <1>7, <1>8
  <2> QED
    BY <2>1 DEF Arrived
<1>10. Sending'
  <2>1. Arrived(m, ScanCode(sent.key, Up(sent.pressed)))'
    BY <1>7, <1>9
  <2> QED
    BY <1>1, <1>7, <2>1 DEF Sending
<1>11. TypeOK'
  <2>1. SCAN_CODE' \in Seq(Byte) /\ Len(SCAN_CODE') <= 8 /\ wire' \in Seq(Byte)
    BY <1>5, <1>7
  <2> QED
    BY <1>7, <2>1 DEF KeyboardInv, TypeOK
<1>12. OnlyTwoCodesAreFatal'
  BY <1>7 DEF OnlyTwoCodesAreFatal
<1>13. TypedIsPressed'
  <2>1. Len(c) - (n + 1) # 0
    BY <1>3, OneToSix, Zenon
  <2>2. wire' # <<>>
    BY <1>5, <1>7, <2>1, EmptyCode, Zenon
  <2> QED
    BY <2>2 DEF TypedIsPressed, Quiet
<1> QED
  BY <1>7, <1>10, <1>11, <1>12, <1>13 DEF KeyboardInv

(* An error byte 00 when nothing is under way. *)
LEMMA ZeroArrived ==
    ASSUME KeyboardInv, ~overrun, ~fatal, Idle, ps2_keyboard_interrupt
    PROVE  KeyboardInv'
<1>1. wire # <<>> /\ wire' = Tail(wire)
  BY InterruptCases
<1>2. wire = <<0>> /\ SCAN_CODE = <<>> /\ sent.key = 0
  BY <1>1 DEF Idle
<1>3. Head(wire) = 0 /\ Tail(wire) = <<>>
  BY <1>2
<1>4. Shifted(SCAN_CODE, Head(wire)) = <<>>
  BY <1>2, <1>3, ShiftedZero
<1>5. /\ SCAN_CODE' = <<>> /\ fatal' = fatal
      /\ Key_pressed_table' = Key_pressed_table
      /\ held' = held /\ sent' = sent /\ overrun' = overrun
  BY <1>4, EmptyIncomplete, InterruptCases
<1>6. Idle'
  BY <1>1, <1>3, <1>5 DEF Idle
<1>7. TypeOK'
  <2>1. SCAN_CODE' \in Seq(Byte) /\ Len(SCAN_CODE') <= 8 /\ wire' \in Seq(Byte)
    BY <1>1, <1>3, <1>5, EmptyCode, Zenon
  <2> QED
    BY <1>5, <2>1 DEF KeyboardInv, TypeOK
<1>8. OnlyTwoCodesAreFatal'
  BY <1>5 DEF OnlyTwoCodesAreFatal
<1>9. TypedIsPressed'
  BY <1>2, <1>5 DEF TypedIsPressed
<1> QED
  BY <1>5, <1>6, <1>7, <1>8, <1>9 DEF KeyboardInv

(* So every interrupt keeps the invariant, *)
LEMMA InterruptKeeps ==
    ASSUME KeyboardInv, ps2_keyboard_interrupt
    PROVE  KeyboardInv'
<1>1. ~fatal
  BY DEF ps2_keyboard_interrupt
<1>2. CASE overrun
  <2>1. /\ Deaf' /\ SCAN_CODE' \in Seq(Byte) /\ Len(SCAN_CODE') <= 8
        /\ fatal' = fatal
    BY <1>2, DeafStays
  <2>2. wire # <<>> /\ wire' = Tail(wire) /\ held' = held /\ sent' = sent /\ overrun' = overrun
    BY InterruptCases
  <2>3. wire' \in Seq(Byte)
    BY <2>2, HeadTailByte DEF KeyboardInv, TypeOK
  <2>4. TypeOK'
    BY <2>1, <2>2, <2>3 DEF KeyboardInv, TypeOK
  <2>5. OnlyTwoCodesAreFatal'
    BY <1>1, <2>1 DEF OnlyTwoCodesAreFatal
  <2>6. TypedIsPressed'
    BY <1>2, <2>2 DEF TypedIsPressed, Quiet
  <2> QED
    BY <1>1, <1>2, <2>1, <2>2, <2>4, <2>5, <2>6 DEF KeyboardInv
<1>3. CASE ~overrun /\ Idle
  BY <1>1, <1>3, ZeroArrived
<1>4. CASE ~overrun /\ Sending
  <2> DEFINE c == ScanCode(sent.key, Up(sent.pressed))
  <2>1. PICK n \in 0 .. 5 : Arrived(n, c)
    BY <1>4 DEF Sending
  <2>2. Up(sent.pressed) \in {0, 128} /\ sent.key \in Keys
    BY <1>4 DEF Up, Sending
  <2>3. Len(c) \in 1 .. 6
    BY <2>2, KeyCode DEF GoodCode
  <2>4. n < Len(c)
    BY <2>1 DEF Arrived
  <2>5. CASE n + 1 < Len(c)
    BY <1>1, <1>4, <2>1, <2>5, ByteArrived
  <2>6. CASE n = Len(c) - 1
    <3>1. Arrived(Len(c) - 1, c)
      BY <2>1, <2>6
    <3>2. CASE sent.pressed
      BY <1>1, <1>4, <3>1, <3>2, PressArrived
    <3>3. CASE ~sent.pressed
      BY <1>1, <1>4, <3>1, <3>3, ReleaseArrived
    <3> QED
      BY <3>2, <3>3
  <2>7. n + 1 < Len(c) \/ n = Len(c) - 1
    BY <2>3, <2>4
  <2> QED
    BY <2>5, <2>6, <2>7
<1> QED
  BY <1>1, <1>2, <1>3, <1>4 DEF KeyboardInv

-----------------------------------------------------------------------------
(* The invariant is inductive.                                             *)
LEMMA InitKeyboard == Init => KeyboardInv
<1> SUFFICES ASSUME Init PROVE KeyboardInv
  OBVIOUS
<1>1. TypeOK
  <2>1. sent \in [key : {0} \cup Keys, pressed : BOOLEAN]
    BY DEF Init
  <2>2. wire \in Seq(Byte) /\ SCAN_CODE \in Seq(Byte) /\ Len(SCAN_CODE) <= 8
    BY EmptyCode, Zenon DEF Init
  <2> QED
    BY <2>1, <2>2 DEF Init, TypeOK
<1>2. sent.key = 0
  BY DEF Init
<1> QED
  BY <1>1, <1>2 DEF Init, KeyboardInv, OnlyTwoCodesAreFatal, TypedIsPressed, Idle

(* ... and every step does. *)
LEMMA StepKeepsKeyboard == KeyboardInv /\ [Next]_vars => KeyboardInv'
<1> SUFFICES ASSUME KeyboardInv, [Next]_vars PROVE KeyboardInv'
  OBVIOUS
<1>1. ASSUME NEW k \in Keys, Press(k) PROVE KeyboardInv'
  BY <1>1, PressKeeps
<1>2. ASSUME NEW k \in Keys, Release(k) PROVE KeyboardInv'
  BY <1>2, ReleaseKeeps
<1>3. ASSUME NEW byte \in {0, 255}, ErrorByte(byte) PROVE KeyboardInv'
  BY <1>3, ErrorByteKeeps
<1>4. CASE ps2_keyboard_interrupt
  BY <1>4, InterruptKeeps
<1>5. CASE UNCHANGED vars
  BY <1>5 DEF vars, KeyboardInv, TypeOK, OnlyTwoCodesAreFatal, TypedIsPressed,
              Quiet, Deaf, Idle, Sending, Arrived
<1> QED
  BY <1>1, <1>2, <1>3, <1>4, <1>5 DEF Next, Spin

(* The inductive invariant holds. *)
LEMMA KeyboardAlways == Spec => []KeyboardInv
  BY InitKeyboard, StepKeepsKeyboard, PTL DEF Spec

(* The driver keeps in step with the keyboard (ps2_keyboard.cpp:225-235):  *)
(* for every set of keys, every order in which they go down and up and     *)
(* every error byte 00 between two codes, SCAN_CODE is empty when the      *)
(* bytes of a code have all come.                                          *)
THEOREM BytesStayTogether == Spec => []InStep
<1>1. KeyboardInv => InStep
  <2> SUFFICES ASSUME KeyboardInv, Quiet PROVE SCAN_CODE = <<>>
    BY DEF InStep
  <2> QED
    BY WireEmpty DEF Quiet, Idle
<1> QED
  BY <1>1, KeyboardAlways, PTL

(* No code stops the kernel but the releases of keypad enter and media     *)
(* select, which the tables of ps2_keyboard.cpp:83-110 do not list.        *)
THEOREM AllOtherCodesHaveEvents == Spec => []OnlyTwoCodesAreFatal
<1>1. KeyboardInv => OnlyTwoCodesAreFatal
  BY DEF KeyboardInv
<1> QED
  BY <1>1, KeyboardAlways, PTL

(* Between two codes Key_pressed_table is the set of the keys held down    *)
(* (ps2_keyboard.cpp:197-209).                                             *)
THEOREM TableIsTrue == Spec => []TableShowsHeld
<1>1. KeyboardInv => TableShowsHeld
  <2> SUFFICES ASSUME KeyboardInv, Quiet PROVE Key_pressed_table \ {PAUSE} = held
    BY DEF TableShowsHeld
  <2> QED
    BY WireEmpty DEF Quiet, Idle
<1> QED
  BY <1>1, KeyboardAlways, PTL

(* gets receives the character of every printable key that goes down, in   *)
(* the right case, and nothing else (ps2_keyboard.cpp:176-222).            *)
THEOREM CharactersAreRight == Spec => []TypedIsPressed
<1>1. KeyboardInv => TypedIsPressed
  BY DEF KeyboardInv
<1> QED
  BY <1>1, KeyboardAlways, PTL

(* A byte FF is the last thing the driver understands: SCAN_CODE is never  *)
(* empty again and the table of keys never changes                         *)
(* (ps2_keyboard.cpp:225-235).                                             *)
THEOREM DeafForEver == Spec => OverrunDeafens
<1>1. KeyboardInv /\ [Next]_vars =>
        [overrun /\ SCAN_CODE # <<>> =>
           SCAN_CODE' # <<>> /\ UNCHANGED <<Key_pressed_table, fatal>>]_vars
  <2> SUFFICES ASSUME KeyboardInv, [Next]_vars, overrun, SCAN_CODE # <<>>
               PROVE  SCAN_CODE' # <<>> /\ UNCHANGED <<Key_pressed_table, fatal>>
    OBVIOUS
  <2>1. ASSUME NEW k \in Keys, Press(k) \/ Release(k)
        PROVE  SCAN_CODE' # <<>> /\ UNCHANGED <<Key_pressed_table, fatal>>
    BY <2>1 DEF Press, Release
  <2>2. CASE ps2_keyboard_interrupt
    BY <2>2, DeafStays
  <2>3. ASSUME NEW byte \in {0, 255}, ErrorByte(byte) PROVE FALSE
    BY <2>3 DEF ErrorByte
  <2>4. CASE UNCHANGED vars
    BY <2>4 DEF vars
  <2> QED
    BY <2>1, <2>2, <2>3, <2>4 DEF Next, Spin
<1> QED
  BY <1>1, KeyboardAlways, PTL DEF Spec, OverrunDeafens
=============================================================================
