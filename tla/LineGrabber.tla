------------------------------ MODULE LineGrabber ------------------------------
(* LineGrabber.h: takes a buffer apart, line by line or all that is left.     *)
(* Both operations copy into a local array of Limit characters and make a     *)
(* string of it, up to the first NUL; text that leaves no room for one has no *)
(* defined result.                                                            *)
EXTENDS Naturals, Sequences, FiniteSetsExt

CONSTANTS
  Characters,  \* CR, LF, Nul and others
  CR, LF, Nul,
  Limit,       \* buffer_size: 1024 in the code
  MaxSize      \* bound on m_size

VARIABLES
  buffer,  \* m_buffer, m_size characters
  index,   \* m_index
  text,    \* history: what was returned, a line feed behind each line
  defined  \* history: every result so far was defined

vars == <<buffer, index, text, defined>>

Size == Len(buffer)
IsEof == index >= Size

Init ==
  /\ buffer \in UNION {[1..n -> Characters] : n \in 0..MaxSize}
  /\ index = 0 /\ text = <<>> /\ defined = TRUE

(* The first of the characters cs from index on, or the end of the buffer.    *)
FirstOf(cs) == Min({n \in (index + 1)..Size : buffer[n] \in cs} \union {Size + 1})

(* std::string of a zeroed char array.                                        *)
CString(s) == SubSeq(s, 1, Min({n \in 1..Len(s) : s[n] = Nul} \union {Len(s) + 1}) - 1)

Return(s, end, more) ==
  /\ defined /\ defined' = (Len(s) < Limit)
  /\ index' = end
  /\ text' = IF defined' THEN text \o CString(s) \o more ELSE text
  /\ UNCHANGED buffer

(* A carriage return takes the character behind it along, whatever it is, and *)
(* even if there is none.                                                     *)
GetNextLineMutantSkipsOne ==
  LET end == FirstOf({CR, LF}) IN
  /\ ~IsEof
  /\ Return(SubSeq(buffer, index + 1, end - 1), Min({end, Size}), <<LF>>)

GetNextLine ==
  LET end == FirstOf({CR, LF}) IN
  /\ ~IsEof
  /\ Return(SubSeq(buffer, index + 1, end - 1),
            IF end > Size THEN Size ELSE IF buffer[end] = CR THEN end + 1 ELSE end,
            <<LF>>)

GetContentTillEof ==
  /\ ~IsEof
  /\ Return(SubSeq(buffer, index + 1, Size), Size, <<>>)

Step == GetNextLine \/ GetContentTillEof
-----------------------------------------------------------------------------
(* Line ends are CR LF or LF, and there is no NUL.                            *)
Clean ==
  \A n \in 1..Size : buffer[n] # Nul /\ (buffer[n] = CR => n < Size /\ buffer[n + 1] = LF)

(* What is left of the first n characters of s without carriage returns.      *)
PlainPrefix(s) ==
  LET plain[n \in 0..Len(s)] ==
        IF n = 0 THEN <<>>
        ELSE IF s[n] = CR THEN plain[n - 1] ELSE Append(plain[n - 1], s[n])
  IN plain

Plain(s) == PlainPrefix(s)[Len(s)]

(* In a clean buffer nothing is lost, split or read twice, in whatever order  *)
(* lines and contents are asked for, as long as no text fills the array: what *)
(* was returned is the buffer up to the index, but for carriage returns and   *)
(* for a line feed behind a last line that had none.                          *)
LinesAreFaithful ==
  (Clean /\ defined) =>
    LET passed == Plain(SubSeq(buffer, 1, index)) IN
    Plain(text) = passed \/ (IsEof /\ Plain(text) = Append(passed, LF))
=============================================================================
