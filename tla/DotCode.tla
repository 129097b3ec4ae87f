--------------------------------- MODULE DotCode ---------------------------------
(***************************************************************************)
(* How a message is written between two programs that end it with a dot.     *)
(* qmail-remote sends what is in the queue, or some other client sends any   *)
(* bytes, and qmail-smtpd takes them one by one until the dot; qmail-pop3d   *)
(* sends a message, or its head and n lines, to a client that undoes dots    *)
(* as RFC 1939 says.  Bytes are "." "r" (CR) "n" (LF) and "x".               *)
(***************************************************************************)
EXTENDS Naturals, SequencesExt

CONSTANTS
  Way,           \* "remote", "any" or "pop3"
  MaxLen,        \* bound on the bytes of a message
  MaxTop         \* bound on the lines asked for with TOP

DotCodeAssumption == Way \in {"remote", "any", "pop3"} /\ {MaxLen, MaxTop} \subseteq Nat

Bytes == {".", "r", "n", "x"}

VARIABLES
  message,       \* what is to be sent
  limit,         \* of TOP: lines + 1, and 0 for all of it
  wire,          \* what is on the way, and was not read yet
  refused,       \* qmail-remote did not send it, or qmail-smtpd hung up
  state,         \* of blast() in qmail-smtpd
  out,           \* what qmail-smtpd put into the queue, or the POP client got
  done

vars == <<message, limit, wire, refused, state, out, done>>

-----------------------------------------------------------------------------
(* blast() in qmail-remote *)

LineEnds(m) == {i \in DOMAIN m : m[i] = "n"}
StartsLine(m, i) == i = 1 \/ m[i - 1] = "n"

(* A wrong version: doubles a dot only where the message begins. *)
CodeFirst(m, i) ==
  CASE m[i] = "n" -> <<"r", "n">>
    [] m[i] = "." /\ i = 1 -> <<".", ".">>
    [] OTHER -> <<m[i]>>

Code(m, i) ==
  CASE m[i] = "n" -> <<"r", "n">>
    [] m[i] = "." /\ StartsLine(m, i) -> <<".", ".">>
    [] OTHER -> <<m[i]>>
Partial(m) == m # <<>> /\ Last(m) # "n"
Remote(m) == FlattenSeq([i \in DOMAIN m |-> Code(m, i)]) \o <<".", "r", "n">>

-----------------------------------------------------------------------------
(* blast() in qmail-pop3d: lines are ended by CR LF whether they ended or    *)
(* not, and one more ends the message.                                       *)

LinesOf(m) ==
  LET ends == LineEnds(m) \cup (IF Partial(m) THEN {Len(m) + 1} ELSE {})
      start(e) == IF \E d \in ends : d < e THEN 1 + CHOOSE d \in ends : d < e /\ \A c \in ends : c < e => c <= d ELSE 1
  IN [k \in 1 .. Cardinality(ends) |->
        LET e == CHOOSE e \in ends : Cardinality({d \in ends : d < e}) = k - 1
        IN SubSeq(m, start(e), e - 1)]

HeadLines(ls) == IF \E k \in DOMAIN ls : ls[k] = <<>>
                 THEN CHOOSE k \in DOMAIN ls : ls[k] = <<>> /\ \A j \in 1 .. k - 1 : ls[j] # <<>>
                 ELSE Len(ls)

(* A wrong version: off by one. *)
SentMore(ls, l) == IF l = 0 \/ HeadLines(ls) + l > Len(ls) THEN ls ELSE SubSeq(ls, 1, HeadLines(ls) + l)

Sent(ls, l) == IF l = 0 \/ HeadLines(ls) + l - 1 > Len(ls) THEN ls ELSE SubSeq(ls, 1, HeadLines(ls) + l - 1)
Stuffed(line) == IF line # <<>> /\ line[1] = "." THEN <<".">> \o line ELSE line
Pop3(m, l) ==
  FlattenSeq([k \in DOMAIN Sent(LinesOf(m), l) |-> Stuffed(Sent(LinesOf(m), l)[k]) \o <<"r", "n">>])
    \o <<"r", "n", ".", "r", "n">>

Init ==
  /\ message \in BoundedSeq(Bytes, MaxLen)
  /\ limit \in (IF Way = "pop3" THEN 0 .. MaxTop + 1 ELSE {0})
  /\ refused = (Way = "remote" /\ Partial(message))
  /\ wire = CASE Way = "remote" -> IF Partial(message) THEN <<>> ELSE Remote(message) \o <<"x">>
              [] Way = "any" -> message
              [] Way = "pop3" -> Pop3(message, limit)
  /\ state = 1 /\ out = <<>> /\ done = FALSE

-----------------------------------------------------------------------------
(* blast() in qmail-smtpd: [state |-> after a byte, put |-> what is queued]  *)

Result(s, p) == [state |-> s, put |-> p]
Stray == 5     \* a bare LF: the connection is closed
End == 6       \* the dot

(* A wrong version: a bare LF begins a line. *)
BlastBare(s, ch) ==
  CASE s \in {0, 1, 2} /\ ch = "n" -> Result(1, <<ch>>)
    [] s \in {0, 1} /\ ch = "r" -> Result(4, <<>>)
    [] s = 1 /\ ch = "." -> Result(2, <<>>)
    [] s = 2 /\ ch = "r" -> Result(3, <<>>)
    [] s = 3 /\ ch = "n" -> Result(End, <<>>)
    [] s = 3 /\ ch = "r" -> Result(4, <<".", "r">>)
    [] s = 3 /\ ch \notin {"n", "r"} -> Result(0, <<".", "r", ch>>)
    [] s = 4 /\ ch = "n" -> Result(1, <<ch>>)
    [] s = 4 /\ ch = "r" -> Result(4, <<ch>>)
    [] s = 4 /\ ch \notin {"n", "r"} -> Result(0, <<"r", ch>>)
    [] OTHER -> Result(0, <<ch>>)

Blast(s, ch) ==
  CASE s \in {0, 1, 2} /\ ch = "n" -> Result(Stray, <<>>)
    [] s \in {0, 1} /\ ch = "r" -> Result(4, <<>>)
    [] s = 1 /\ ch = "." -> Result(2, <<>>)
    [] s = 2 /\ ch = "r" -> Result(3, <<>>)
    [] s = 3 /\ ch = "n" -> Result(End, <<>>)
    [] s = 3 /\ ch = "r" -> Result(4, <<".", "r">>)
    [] s = 3 /\ ch \notin {"n", "r"} -> Result(0, <<".", "r", ch>>)
    [] s = 4 /\ ch = "n" -> Result(1, <<ch>>)
    [] s = 4 /\ ch = "r" -> Result(4, <<ch>>)
    [] s = 4 /\ ch \notin {"n", "r"} -> Result(0, <<"r", ch>>)
    [] OTHER -> Result(0, <<ch>>)

Smtpd ==
  /\ Way # "pop3" /\ ~done /\ ~refused /\ wire # <<>>
  /\ LET r == Blast(state, Head(wire))
     IN /\ state' = r.state /\ out' = out \o r.put
        /\ refused' = (r.state = Stray) /\ done' = (r.state = End)
  /\ wire' = Tail(wire) /\ UNCHANGED <<message, limit>>

(* A POP client: takes a line off the wire, undoes a dot, stops at a dot.    *)
Client ==
  /\ Way = "pop3" /\ ~done /\ wire # <<>>
  /\ LET e == CHOOSE i \in 1 .. Len(wire) - 1 :
                /\ wire[i] = "r" /\ wire[i + 1] = "n"
                /\ \A j \in 1 .. i - 1 : ~(wire[j] = "r" /\ wire[j + 1] = "n")
         line == SubSeq(wire, 1, e - 1)
     IN /\ wire' = SubSeq(wire, e + 2, Len(wire))
        /\ done' = (line = <<".">>)
        /\ out' = IF done' THEN out
                  ELSE out \o (IF line # <<>> /\ line[1] = "." THEN Tail(line) ELSE line) \o <<"n">>
  /\ UNCHANGED <<message, limit, refused, state>>

Next == Smtpd \/ Client
Spec == Init /\ [][Next]_vars

-----------------------------------------------------------------------------
(* What qmail-remote sends, qmail-smtpd stores to the byte, whatever dots    *)
(* and returns are in it, and it stops there: the next command is still on   *)
(* the wire.  Only a message without a last newline is not sent.             *)
RoundTrip ==
  Way = "remote" =>
    /\ done => out = message /\ wire = <<"x">>
    /\ wire = <<>> => refused
    /\ refused => Partial(message)

(* Whoever sends: the message ends at the first CR LF . CR LF and nowhere    *)
(* else, and a bare LF never gets into it.                                   *)
DotAt(m, i) == /\ i >= 3 /\ m[i - 2] = "." /\ m[i - 1] = "r" /\ m[i] = "n"
               /\ i = 3 \/ (i >= 5 /\ m[i - 4] = "r" /\ m[i - 3] = "n")
BareAt(m, i) == m[i] = "n" /\ (i = 1 \/ m[i - 1] # "r")
EndsAtTheDot ==
  Way = "any" =>
    LET read == SubSeq(message, 1, Len(message) - Len(wire))
    IN /\ done <=> read # <<>> /\ DotAt(read, Len(read)) /\ ~refused
       /\ refused <=> read # <<>> /\ BareAt(read, Len(read))
       /\ \A i \in 1 .. Len(read) - 1 : ~DotAt(read, i) /\ ~BareAt(read, i)

(* A POP client gets the lines it asked for and an empty one, whatever dots  *)
(* and returns are in them.                                                  *)
Asked ==
  LET ls == LinesOf(message)
      body == IF \E k \in DOMAIN ls : ls[k] = <<>> THEN Len(ls) - HeadLines(ls) ELSE 0
      n == IF limit = 0 \/ limit - 1 > body THEN Len(ls) ELSE HeadLines(ls) + limit - 1
  IN FlattenSeq([k \in 1 .. n |-> ls[k] \o <<"n">>])
PopGetsLines ==
  Way = "pop3" /\ done => out = Asked \o <<"n">> /\ wire = <<>>
=============================================================================
