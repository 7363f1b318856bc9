---------------------------- MODULE StringValues ----------------------------
(***************************************************************************)
(* What CStringBuffer promises although its copies share memory: every     *)
(* object is a string of its own, and a call, while it is running in one   *)
(* thread, changes at its end the object it was made on and no other.      *)
(* NULL and the empty string are the same value here.                      *)
(***************************************************************************)
EXTENDS Naturals, Sequences

CONSTANTS
    Threads, Objects,
    Calls,         \* the calls a thread makes, as records
    NoCall,
    Lower(_)       \* what ToLowerCase makes of a character

VARIABLES
    val,           \* the string each object is
    owner,         \* the thread that uses it
    running        \* per thread: the call it is in, or NoCall

\* what the call c may make of the object it is made on
Outcomes(c) ==
    LET s == val[c.obj]
        n == Len(s)
        tail(i) == SubSeq(s, i + 1, n)
    IN CASE c.name \in {"SetString", "Fill"} -> {c.text}
         [] c.name = "Clear" -> {<<>>}
         [] c.name = "Copy" -> {val[c.from]}
         [] c.name = "AppendString" -> {s \o c.text}
         [] c.name = "InsertString" -> {SubSeq(s, 1, c.pos) \o c.text \o tail(c.pos)}
         [] c.name = "DeleteString" -> {SubSeq(s, 1, c.pos) \o tail(c.pos + c.len)}
         [] c.name = "ToLowerCase" -> {[i \in 1 .. n |-> Lower(s[i])]}
         [] c.name = "ScanString" -> {s}
            \* cut or left alone: which of them depends on who shares the memory
         [] c.name = "SetSize" -> {s, IF c.len <= n THEN SubSeq(s, 1, c.len - 1) ELSE s}

Init ==
    /\ val = [o \in Objects |-> <<>>]
    /\ running = [t \in Threads |-> NoCall]
    /\ owner \in [Objects -> Threads]

Begin(t) ==
    /\ running[t] = NoCall
    /\ LET c == running'[t]
       IN  c \in Calls /\ owner[c.obj] = t /\ running' = [running EXCEPT ![t] = c]
    /\ UNCHANGED <<val, owner>>

End(t) ==
    /\ running[t] # NoCall
    /\ \E s \in Outcomes(running[t]) : val' = [val EXCEPT ![running[t].obj] = s]
    /\ running' = [running EXCEPT ![t] = NoCall]
    /\ UNCHANGED owner

Give(o, t) ==
    /\ running[owner[o]] = NoCall /\ running[t] = NoCall
    /\ owner' = [owner EXCEPT ![o] = t]
    /\ UNCHANGED <<val, running>>

Next == \E t \in Threads : Begin(t) \/ End(t) \/ \E o \in Objects : Give(o, t)

Spec == Init /\ [][Next]_<<val, owner, running>>
=============================================================================
