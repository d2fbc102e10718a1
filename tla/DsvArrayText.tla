---------------------------- MODULE DsvArrayText ----------------------------
(***************************************************************************)
(* An array of integers as text, "1,12,2", in buffers of Size bytes:       *)
(* DSV_Str2Array and DSV_Array2Str of libdsv/src/util.cpp, the first on    *)
(* the value of a JSON file, of a command line or of the save file, the    *)
(* second when the server saves, prints or lists an array.  An element is  *)
(* its digits.                                                             *)
(***************************************************************************)
EXTENDS Integers, Sequences

CONSTANTS Digits,    \* the characters of numbers
          Size,      \* DSV_STRING_SIZE_MAX
          MaxItems   \* bound: elements of an array

Nul == "nul"

ASSUME ArrayTextAssumption ==
  Size \in Nat \ {0} /\ MaxItems \in Nat /\ {",", Nul} \cap Digits = {}

VARIABLES arr,     \* the array
          long,    \* history: the text it was last read from fills its buffer
          buf,     \* the buffer of DSV_Array2Str, a local of its callers
          rc, at,  \* its bytes counted so far, and its elements printed
          doing    \* "ready", "print", "printed", "abort": an assertion failed,
                   \* or "wild": memory beyond a buffer is read or written

avars == <<arr, long, buf, rc, at, doing>>

Junk == [i \in 1..Size |-> "?"]
Numerals == {<<d>> : d \in Digits} \cup {<<d, e>> : d, e \in Digits}
InputTexts == UNION {[1..k -> Digits \cup {","}] : k \in 0..Size}

ArrayInit == /\ arr = <<>> /\ long = FALSE
             /\ buf = Junk
             /\ rc = 0 /\ at = 0
             /\ doing = "ready"

-----------------------------------------------------------------------------
(* DSV_Str2Array.                                                          *)

\* strtok: what stands between commas, if anything does.
Tokens(t) ==
  LET Begins(i) == i = 1 \/ t[i - 1] = ","
      found[i \in 0..Len(t)] ==   \* in the first i characters
        IF i = 0 THEN <<>>
        ELSE IF t[i] = "," THEN found[i - 1]
        ELSE IF Begins(i) THEN Append(found[i - 1], <<t[i]>>)
        ELSE [found[i - 1] EXCEPT ![Len(found[i - 1])] = Append(@, t[i])]
  IN found[Len(t)]

\* strncpy into Size bytes does not end a text that fills them.  memdup asserts
\* that the vector has a buffer.
DSV_Str2Array(t) ==
  /\ long' = (Len(t) >= Size)
  /\ \/ long' /\ doing' = "wild" /\ UNCHANGED arr
     \/ ~long' /\ Tokens(t) = <<>> /\ doing' = "abort" /\ UNCHANGED arr
     \/ ~long' /\ Tokens(t) # <<>> /\ doing' = "ready" /\ arr' = Tokens(t)

ReadInput(t) == /\ doing = "ready"
                /\ DSV_Str2Array(t)
                /\ UNCHANGED <<buf, rc, at>>

AddItem(x) == /\ doing = "ready" /\ Len(arr) < MaxItems
              /\ arr' = Append(arr, x)
              /\ UNCHANGED <<long, buf, rc, at, doing>>

-----------------------------------------------------------------------------
(* DSV_Array2Str.                                                          *)

PrintArray == /\ doing = "ready"
              /\ doing' = "print"
              /\ UNCHANGED <<arr, long, buf, rc, at>>

\* snprintf of s at byte p: it keeps the last of the bytes there are for Nul.
Printed(s, p) ==
  LET n == IF Len(s) < Size - p THEN Len(s) ELSE Size - p - 1
  IN [i \in 1..Size |-> IF i \in p + 1..p + n THEN s[i - p]
                        ELSE IF i = p + n + 1 THEN Nul ELSE buf[i]]

\* What is left, len - rc, is a size_t: beyond the end it is huge.
RoomLeft == rc <= Size

PrintElement ==
  /\ doing = "print" /\ at < Len(arr)
  /\ LET s == Append(arr[at + 1], ",")
     IN /\ rc' = rc + Len(s)
        /\ IF ~RoomLeft THEN doing' = "wild" /\ UNCHANGED buf
           ELSE /\ buf' = IF rc < Size THEN Printed(s, rc) ELSE buf
                /\ UNCHANGED doing
  /\ at' = at + 1
  /\ UNCHANGED <<arr, long>>

\* The last comma goes: buf[rc - 1], at the TLA+ index rc.  Bugs' forms: one
\* byte too early; one too late.
LastCommaEarly == rc - 1
LastCommaLate == rc + 1
LastComma == rc

EndPrint ==
  /\ doing = "print" /\ at = Len(arr)
  /\ IF LastComma \in 1..Size
     THEN buf' = [buf EXCEPT ![LastComma] = Nul] /\ doing' = "printed"
     ELSE UNCHANGED buf /\ doing' = "wild"
  /\ UNCHANGED <<arr, long, rc, at>>

\* The text up to Nul is saved, and a restore reads it.
CString == SubSeq(buf, 1, (CHOOSE i \in 1..Size : buf[i] = Nul /\ \A j \in 1..i - 1 : buf[j] # Nul) - 1)

ReadBack == /\ doing = "printed"
            /\ DSV_Str2Array(CString)
            /\ buf' = Junk /\ rc' = 0 /\ at' = 0

ArrayNext == \/ \E t \in InputTexts : ReadInput(t)
             \/ \E x \in Numerals : AddItem(x)
             \/ PrintArray \/ PrintElement \/ EndPrint \/ ReadBack

ArraySpec == ArrayInit /\ [][ArrayNext]_avars

-----------------------------------------------------------------------------
(* Properties.                                                             *)

\* Bytes the text of the array needs: each element with its comma, the last
\* of which leaves its place to Nul.
Needed == LET bytes[k \in 0..Len(arr)] == IF k = 0 THEN 0 ELSE bytes[k - 1] + Len(arr[k]) + 1
          IN bytes[Len(arr)]

\* Memory beyond a buffer is used exactly when a text, or that of an array,
\* does not fit, or when an array is empty: up to the last byte of the buffer
\* and not beyond it (util.cpp:300 and :302).
WildIffTooLong ==
  /\ doing = "printed" => Needed \in 1..Size
  /\ doing = "wild" => Needed \notin 1..Size \/ long

\* What fits comes back from a save as it was.
TextRoundTrip == [][ReadBack => doing' = "ready" /\ arr' = arr]_avars
=============================================================================
