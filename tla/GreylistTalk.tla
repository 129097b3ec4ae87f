------------------------------ MODULE GreylistTalk ------------------------------
(***************************************************************************)
(* The fake conversation of jgreylist with one client that is to be refused: *)
(* a loop that reads a character at a time, answers each line, and is to be  *)
(* ended by QUIT, by too many RCPTs or by an alarm whose handler sets a flag. *)
(* The alarm may come at any point of the loop.                              *)
(***************************************************************************)
EXTENDS Naturals, Sequences

CONSTANTS
  Limit,    \* JGREYLIST_LIMIT; 0 for none
  Lines     \* bound on the lines that a client sends

GreylistTalkAssumption == {Limit, Lines} \subseteq Nat

VARIABLES
  pc,              \* "test" alarm_received, "call" read(), "read" (in the kernel), "got", "answer", "end", "bye", "done"
  cmd,             \* what the line says
  timer,           \* alarm(): "set" or "off"
  alarm_received, rcpt_count,
  input, open,     \* what the client has sent and is not read; may it send more
  sent,            \* lines sent
  rcpts, last, late  \* ghosts: RCPTs read; the last answer; one came after the end

vars == <<pc, cmd, timer, alarm_received, rcpt_count, input, open, sent, rcpts, last, late>>

Commands == {"QUIT", "HELO", "RCPT", "DATA"}

Init ==
  /\ pc = "test" /\ cmd = "none" /\ timer = "set" /\ alarm_received = FALSE /\ rcpt_count = 0
  /\ input = <<>> /\ open = TRUE /\ sent = 0 /\ rcpts = 0 /\ last = 220 /\ late = FALSE

Loop == <<timer, alarm_received, rcpt_count, input, open, sent, rcpts, last, late>>

(* The client sends a line, in two pieces, or closes.                        *)
SendPart ==
  /\ open /\ sent < Lines /\ Len(input) < 2 /\ sent' = sent + 1 /\ input' = Append(input, "part")
  /\ UNCHANGED <<pc, cmd, timer, alarm_received, rcpt_count, open, rcpts, last, late>>
SendLine ==
  /\ open /\ sent < Lines /\ Len(input) < 2 /\ sent' = sent + 1
  /\ \E c \in Commands : input' = Append(input, c)
  /\ UNCHANGED <<pc, cmd, timer, alarm_received, rcpt_count, open, rcpts, last, late>>
Close == open /\ open' = FALSE /\ UNCHANGED <<pc, cmd, timer, alarm_received, rcpt_count, input, sent, rcpts, last, late>>

-----------------------------------------------------------------------------
(* getcmd(): test the flag, then call read().                                *)
Test ==
  /\ pc = "test"
  /\ IF alarm_received THEN pc' = "got" /\ cmd' = "none" ELSE pc' = "call" /\ UNCHANGED cmd
  /\ UNCHANGED Loop

Call == pc = "call" /\ pc' = "read" /\ UNCHANGED <<cmd, Loop>>

(* A part of a line leads back to the test; an end of file ends the line.    *)
Read ==
  /\ pc = "read" /\ (input # <<>> \/ ~open)
  /\ IF input = <<>> THEN pc' = "got" /\ cmd' = "" /\ UNCHANGED <<input, rcpts>>
     ELSE /\ input' = Tail(input)
          /\ IF Head(input) = "part" THEN pc' = "test" /\ UNCHANGED <<cmd, rcpts>>
             ELSE /\ pc' = "got" /\ cmd' = Head(input)
                  /\ rcpts' = IF Head(input) = "RCPT" THEN rcpts + 1 ELSE rcpts
  /\ UNCHANGED <<timer, alarm_received, rcpt_count, open, sent, last, late>>

(* A wrong version: the handler sets no flag. *)
AlarmMute ==
  /\ timer = "set" /\ timer' = "off" /\ alarm_received' = FALSE
  /\ IF pc = "read" /\ input = <<>> /\ open THEN pc' = "got" /\ cmd' = "none" ELSE UNCHANGED <<pc, cmd>>
  /\ UNCHANGED <<rcpt_count, input, open, sent, rcpts, last, late>>

(* handle_alarm(): only a process that is inside read() is interrupted.      *)
Alarm ==
  /\ timer = "set" /\ timer' = "off" /\ alarm_received' = TRUE
  /\ IF pc = "read" /\ input = <<>> /\ open THEN pc' = "got" /\ cmd' = "none" ELSE UNCHANGED <<pc, cmd>>
  /\ UNCHANGED <<rcpt_count, input, open, sent, rcpts, last, late>>

Say(a) == last' = a /\ late' = (late \/ (last \in {221, 421} /\ a # 421))

(* The rest of the loop of fake(): the flag once more, then the answer.      *)
Check ==
  /\ pc = "got" /\ pc' = (IF alarm_received THEN "end" ELSE "answer")
  /\ UNCHANGED <<cmd, Loop>>

(* A wrong version: one RCPT more. *)
AnswerMore ==
  /\ pc = "answer"
  /\ IF cmd = "QUIT" THEN /\ timer' = "off" /\ alarm_received' = FALSE /\ Say(221) /\ pc' = "end"
                          /\ UNCHANGED rcpt_count
     ELSE /\ UNCHANGED <<timer, alarm_received>>
          /\ rcpt_count' = (IF cmd = "RCPT" /\ Limit > 0 THEN rcpt_count + 1 ELSE rcpt_count)
          /\ IF rcpt_count' # rcpt_count /\ rcpt_count' > Limit THEN Say(421) /\ pc' = "end"
             ELSE Say(IF cmd = "HELO" THEN 250 ELSE 450) /\ pc' = "test"
  /\ UNCHANGED <<cmd, input, open, sent, rcpts>>

Answer ==
  /\ pc = "answer"
  /\ IF cmd = "QUIT" THEN /\ timer' = "off" /\ alarm_received' = FALSE /\ Say(221) /\ pc' = "end"
                          /\ UNCHANGED rcpt_count
     ELSE /\ UNCHANGED <<timer, alarm_received>>
          /\ rcpt_count' = (IF cmd = "RCPT" /\ Limit > 0 THEN rcpt_count + 1 ELSE rcpt_count)
          /\ IF rcpt_count' # rcpt_count /\ rcpt_count' >= Limit THEN Say(421) /\ pc' = "end"
             ELSE Say(IF cmd = "HELO" THEN 250 ELSE 450) /\ pc' = "test"
  /\ UNCHANGED <<cmd, input, open, sent, rcpts>>

End == pc = "end" /\ pc' = "bye" /\ timer' = "off" /\ UNCHANGED <<cmd, alarm_received, rcpt_count, input, open, sent, rcpts, last, late>>

Bye ==
  /\ pc = "bye" /\ pc' = "done"
  /\ IF alarm_received THEN Say(421) ELSE UNCHANGED <<last, late>>
  /\ UNCHANGED <<cmd, timer, alarm_received, rcpt_count, input, open, sent, rcpts>>

Server == Test \/ Call \/ Read \/ Check \/ Answer \/ End \/ Bye
Next == SendPart \/ SendLine \/ Close \/ Server \/ Alarm
Spec == Init /\ [][Next]_vars
Fairness == WF_vars(Server) /\ WF_vars(Alarm) /\ WF_vars(Close)

-----------------------------------------------------------------------------
(* No client gets past the limit, and the answer that ends the conversation  *)
(* is the last one.                                                          *)
LimitKept ==
  /\ Limit > 0 => rcpts <= Limit
  /\ ~late
  /\ pc = "done" => last \in {221, 421}

(* A conversation with a client that goes, or is slow, ends.                 *)
Ends == <>(pc = "done")
=============================================================================
