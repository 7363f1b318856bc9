----------------------------- MODULE LineFilter -----------------------------
(***************************************************************************)
(* What the filters of CppSources/Filter.cpp do with a buffer, apart from  *)
(* where it comes from and goes to.  The state of a do_filter is a record: *)
(* buf and pos are buffer[curBuf] and bufPos[curBuf], old is the part of   *)
(* the other buffer not yet used, sub is subBuf, test bTestDosLineEnd and  *)
(* off fposoff.  Copying and appending need buf alone; the filter that     *)
(* separates lines holds the buffer it read before in old.                 *)
(***************************************************************************)
EXTENDS Naturals, Sequences, SequencesExt, FiniteSetsExt

CONSTANTS CR, LF

LineEnds == {"DosLineEnd", "UnixLineEnd", "MacLineEnd"}

Kinds == {"copy", "lines", "append", "separate"}

FilterStart == [buf |-> <<>>, pos |-> 0, old |-> <<>>, sub |-> <<>>, test |-> FALSE, off |-> 0]

NewBuffer(s, b) == [s EXCEPT !.buf = b, !.pos = 0]

\* the buffer from bufPos on; nothing when bufPos is at the end or behind it
Rest(s) == SubSeq(s.buf, s.pos + 1, Len(s.buf))

\* find_Char from bufPos on; 0 where the code has -1
FindChar(s, c) ==
    LET at == {i \in (s.pos + 1) .. Len(s.buf) : s.buf[i] = c}
    IN  IF at = {} THEN 0 ELSE Min(at)

\* fault: what is left of the other buffer is forgotten
Settle_Drop(s) ==
    [s EXCEPT !.pos = IF s.test /\ s.buf[s.pos + 1] = LF THEN s.pos + 1 ELSE s.pos,
              !.test = FALSE, !.old = <<>>]

\* the head of the inner loop: a \n behind a \r that ended the buffer before
\* is skipped, and what is left of that buffer begins the line
Settle(s) ==
    [s EXCEPT !.pos = IF s.test /\ s.buf[s.pos + 1] = LF THEN s.pos + 1 ELSE s.pos,
              !.test = FALSE,
              !.sub = s.sub \o s.old,
              !.old = <<>>]

EndOfLine(s, m_LineEnd) == FindChar(s, IF m_LineEnd = "UnixLineEnd" THEN LF ELSE CR)

\* a \r at the very end of the buffer: the next one may begin with its \n
EndsInCR(s, m_LineEnd) == m_LineEnd = "DosLineEnd" /\ EndOfLine(s, m_LineEnd) = Len(s.buf)

\* fposoff for a line end found at fpos; in the case above it is as before
LineEndLength(s, m_LineEnd) ==
    IF EndsInCR(s, m_LineEnd) THEN s.off
    ELSE IF m_LineEnd = "DosLineEnd" /\ s.buf[EndOfLine(s, m_LineEnd) + 1] = LF THEN 2
    ELSE 1

HasLine(s, m_LineEnd) == EndOfLine(Settle(s), m_LineEnd) # 0

\* for s with a line end: the line it writes
Line(s, m_LineEnd) ==
    LET t == Settle(s) IN t.sub \o SubSeq(t.buf, t.pos + 1, EndOfLine(t, m_LineEnd) - 1)

\* and its state behind that line
AfterLine(s, m_LineEnd) ==
    LET t == Settle(s)
        off == LineEndLength(t, m_LineEnd)
    IN  [t EXCEPT !.sub = <<>>,
                  !.pos = EndOfLine(t, m_LineEnd) - 1 + off,
                  !.off = off,
                  !.test = EndsInCR(t, m_LineEnd)]

\* curBuf = 1 - curBuf: what is left becomes the other buffer's
SwapBuffers(s) == [s EXCEPT !.old = Rest(s), !.buf = <<>>, !.pos = 0]

-----------------------------------------------------------------------------
(* What the filters are for: the buffers each makes of all the buffers it  *)
(* is given.                                                               *)

\* the text in the first i buffers
Joined(bufs) ==
    LET upto[i \in 0 .. Len(bufs)] == IF i = 0 THEN <<>> ELSE upto[i - 1] \o bufs[i] IN upto

\* the lines that have ended in the first i characters, and the one they leave open
Scan(text, m_LineEnd) ==
    LET ends == IF m_LineEnd = "UnixLineEnd" THEN LF ELSE CR
        upto[i \in 0 .. Len(text)] ==
            IF i = 0 THEN [lines |-> <<>>, open |-> <<>>]
            ELSE IF text[i] = ends
                 THEN [lines |-> Append(upto[i - 1].lines, upto[i - 1].open), open |-> <<>>]
            ELSE IF m_LineEnd = "DosLineEnd" /\ i > 1 /\ text[i] = LF /\ text[i - 1] = CR
                 THEN upto[i - 1]
            ELSE [upto[i - 1] EXCEPT !.open = Append(@, text[i])]
    IN  upto

LinesOf(text, m_LineEnd) ==
    LET s == Scan(text, m_LineEnd)[Len(text)]
    IN  IF s.open = <<>> THEN s.lines ELSE Append(s.lines, s.open)

NewLine(m_LineEnd) ==
    CASE m_LineEnd = "DosLineEnd" -> <<CR, LF>>
      [] m_LineEnd = "UnixLineEnd" -> <<LF>>
      [] m_LineEnd = "MacLineEnd" -> <<CR>>

Filtered(kind, bufs, m_LineEnd) ==
    CASE kind = "copy" -> bufs
      [] kind = "lines" -> LinesOf(Joined(bufs)[Len(bufs)], m_LineEnd)
      [] kind = "append" -> [i \in 1 .. Len(bufs) |-> bufs[i] \o NewLine(m_LineEnd)]
      [] kind = "separate" -> [i \in 1 .. Len(bufs) |->
                                  IF i = Len(bufs) THEN bufs[i] ELSE bufs[i] \o NewLine(m_LineEnd)]

\* those of the first i buffers that are not empty
Kept(bufs) ==
    LET upto[i \in 0 .. Len(bufs)] ==
            IF i = 0 THEN <<>>
            ELSE IF bufs[i] = <<>> THEN upto[i - 1]
            ELSE Append(upto[i - 1], bufs[i])
    IN  upto

NonEmpty(bufs) == Kept(bufs)[Len(bufs)]

\* what goes from each filter to the next, beginning with the input file; an
\* empty buffer does not pass
Passed(kinds, bufs, m_LineEnd) ==
    LET behind[f \in 0 .. Len(kinds) - 1] ==
            IF f = 0 THEN bufs ELSE NonEmpty(Filtered(kinds[f], behind[f - 1], m_LineEnd))
    IN  behind

PipeOf(kinds, bufs, m_LineEnd) ==
    LET n == Len(kinds) IN Filtered(kinds[n], Passed(kinds, bufs, m_LineEnd)[n - 1], m_LineEnd)
=============================================================================
