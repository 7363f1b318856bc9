---------------------------- MODULE MCFilterPipe ----------------------------
(***************************************************************************)
(* Instances of FilterPipe for TLC.  The plain pipe runs on every way to   *)
(* cut a text into up to three buffers of one or two characters, the       *)
(* threaded one on a few, at two speeds.                                   *)
(***************************************************************************)
EXTENDS FilterPipe

Chunks(chars) == {<<c>> : c \in chars} \cup {<<c, d>> : c, d \in chars}
Files(chars, most) == UNION {[1 .. n -> Chunks(chars)] : n \in 0 .. most}

\* the first \r of the file does not end a buffer
CutWell(files) ==
    {s \in files : \A i \in 1 .. Len(s) :
        FindChar(NewBuffer(FilterStart, s[i]), CR) = Len(s[i]) =>
            \E j \in 1 .. i - 1 : CR \in ToSet(s[j])}

Setup(pipes, ends, files, threading, delays) ==
    [m_Pipe : pipes, m_LineEnd : ends, source : files, threaded : threading, delay : delays]

LinePipe == {<<"copy", "lines">>}
OtherPipes == {<<"copy", "copy", "lines">>, <<"lines", "separate">>, <<"append", "copy">>}
TwoLines == {<<<<LF, "x">>, <<"x">>, <<LF>>>>}

MCSetups ==
    Setup(LinePipe, {"UnixLineEnd"}, Files({LF, "x"}, 3), {FALSE}, {1})
    \cup Setup(LinePipe, {"MacLineEnd"}, Files({CR, "x"}, 3), {FALSE}, {1})
    \cup Setup(LinePipe, {"DosLineEnd"}, CutWell(Files({CR, LF, "x"}, 3)), {FALSE}, {1})
    \cup Setup(OtherPipes, {"UnixLineEnd"}, Files({LF, "x"}, 2), {FALSE}, {1})
    \cup Setup(LinePipe \cup OtherPipes, {"UnixLineEnd"}, TwoLines, {TRUE}, {1, 2})

MCDosSetups == Setup(LinePipe, {"DosLineEnd"}, Files({CR, LF, "x"}, 3), {FALSE}, {1})
=============================================================================
