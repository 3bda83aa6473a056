------------------------------ MODULE Position ------------------------------
(***************************************************************************)
(* Positions: the protocol counts UTF-16 code units in a line, the parser   *)
(* bytes in a file.  internal/lsp/uri.go and internal/phputil/utf16.go      *)
(* convert between the two by decoding the line each in its own way; every  *)
(* range of a reference and every edit of a rename goes through them.       *)
(*                                                                         *)
(* A file is any sequence of bytes.  A byte is known by the UTF-8 sequence  *)
(* it belongs to: <<n, k>> is the k-th byte of a character of n bytes.      *)
(* The file need not be valid UTF-8: bytes come in any order.               *)
(*                                                                         *)
(* Lines end with a newline, as both functions have it.  The lines of a     *)
(* token are counted by the parser, which is external; should it count a    *)
(* carriage return on its own as the end of a line, the two would differ.   *)
(* No byte here is such a carriage return.                                  *)
(***************************************************************************)
EXTENDS Integers, Sequences, FiniteSets

CONSTANTS
  CharSize,  \* the sizes of the characters other than the newline
  MaxLen     \* bound: bytes in the file

ASSUME PositionAssumption == CharSize \subseteq 1..4 /\ MaxLen \in Nat

Newline == <<1, 0>>

Byte == {Newline} \cup {b \in CharSize \X (1..4) : b[2] <= b[1]}

VARIABLE src

Offsets == 0 .. Len(src)

At(o) == src[o + 1]
-----------------------------------------------------------------------------
(* utf8.DecodeRune of the bytes from o up to limit: a character that is     *)
(* there whole, otherwise one byte, as the replacement character.           *)
RuneSize(o, limit) ==
  LET n == At(o)[1] IN
  IF o + n <= limit /\ \A k \in 1..n : At(o + k - 1) = <<n, k>> THEN n ELSE 1

(* Characters from U+10000 on, those of four bytes, take two units.         *)
(* The two directions count on their own.  Mutant: each takes one.          *)
Units_One(size) == 1

Units(size) == IF size = 4 THEN 2 ELSE 1

PositionUnits(size) == IF size = 4 THEN 2 ELSE 1

(* The offset of a line, counted from 0, or -1 when there are fewer lines.  *)
LineStart(line) ==
  LET start[n \in 0..line] ==
        IF n = 0 THEN 0
        ELSE IF start[n - 1] = -1 THEN -1
        ELSE LET newlines == {o \in start[n - 1] .. Len(src) - 1 : At(o) = Newline}
             IN IF newlines = {} THEN -1
                ELSE 1 + CHOOSE o \in newlines : \A q \in newlines : o <= q
  IN start[line]

(* CountUTF16Units of the bytes from start up to end. *)
CountUTF16Units(start, end) ==
  LET count[o \in start..end] ==
        IF o = end THEN 0
        ELSE Units(RuneSize(o, end)) + count[o + RuneSize(o, end)]
  IN count[start]

(* The line is counted from 1 here.  Anything out of range is column 0. *)
UTF16ColFromOffset(lineNum, offset) ==
  LET start == LineStart(lineNum - 1) IN
  IF src = <<>> \/ offset <= 0 THEN 0
  ELSE IF start = -1 \/ offset < start \/ offset > Len(src) THEN 0
  ELSE CountUTF16Units(start, offset)

(* From an offset on, character by character, while units remain and the    *)
(* line does not end.  Mutant: a position between the two units of          *)
(* a character steps over it.                                               *)
Fits_Any(units, remaining) == TRUE

Fits(units, remaining) == units <= remaining

OffsetInLine(start, character) ==
  LET walk[p \in (start .. Len(src)) \X (0..character)] ==
        LET o == p[1]
            remaining == p[2]
            size == RuneSize(o, Len(src))
            units == PositionUnits(size)
        IN IF remaining = 0 \/ o = Len(src) \/ At(o) = Newline THEN o
           ELSE IF ~Fits(units, remaining) THEN o
           ELSE walk[<<o + size, IF units <= remaining THEN remaining - units ELSE 0>>]
  IN walk[<<start, character>>]

positionToByteOffset(line, character) ==
  LET start == LineStart(line)
  IN IF start = -1 THEN Len(src) ELSE OffsetInLine(start, character)

(* toLSPRange of the bytes from s up to e, on the lines the parser says. *)
toLSPRange(loc) ==
  [start |-> [line |-> loc.startLine - 1,
              character |-> UTF16ColFromOffset(loc.startLine, loc.startByte)],
   end |-> [line |-> loc.endLine - 1,
            character |-> UTF16ColFromOffset(loc.endLine, loc.endByte)]]
-----------------------------------------------------------------------------
(* The file grows byte by byte.                                             *)
Init == src = <<>>

AppendByte(b) == Len(src) < MaxLen /\ src' = Append(src, b)

Next == \E b \in Byte : AppendByte(b)

Spec == Init /\ [][Next]_src
-----------------------------------------------------------------------------
(* The line of an offset, from 1, as the parser counts it.                  *)
LineOf(o) == 1 + Cardinality({p \in 0 .. o - 1 : At(p) = Newline})

(* Where a token of the parser may begin or end: not within a character.    *)
Boundary(o) ==
  LET starts[p \in Offsets] ==
        p = 0 \/ \E q \in 0 .. p - 1 : starts[q] /\ q + RuneSize(q, Len(src)) = p
  IN starts[o]

Loc(s, e) ==
  [startLine |-> LineOf(s), startByte |-> s, endLine |-> LineOf(e), endByte |-> e]

(* A range that was computed for a token selects the bytes of that token    *)
(* when the client sends it back, whatever precedes them on their lines,    *)
(* valid UTF-8 or not: a rename replaces the literal and nothing else.      *)
RangeSelectsToken ==
  \A s \in Offsets : \A e \in s .. Len(src) :
    Boundary(s) /\ Boundary(e) =>
      LET r == toLSPRange(Loc(s, e)) IN
      /\ positionToByteOffset(r.start.line, r.start.character) = s
      /\ positionToByteOffset(r.end.line, r.end.character) = e

(* Any position, also one that no character has (within a surrogate pair,   *)
(* past the end of the line or of the file), is taken to an offset of the   *)
(* file that does not lie behind it.                                        *)
PositionRoundsDown ==
  \A line \in 0 .. Len(src) + 1, character \in 0 .. Len(src) + 1 :
    LET o == positionToByteOffset(line, character) IN
    /\ o \in Offsets
    /\ LineStart(line) # -1 =>
         /\ LineOf(o) = line + 1
         /\ UTF16ColFromOffset(line + 1, o) <= character
=============================================================================
