-------------------------------- MODULE Spawn --------------------------------
(***************************************************************************)
(* spawn.c, the main loop of qmail-lspawn and qmail-rspawn, with its        *)
(* client qmail-send at the other ends of two pipes.  A command names a     *)
(* slot; the slot then has a child, the read end of the pipe for its        *)
(* output, and (until the child has been waited for) the write end of that  *)
(* pipe.  An end of file on the read end makes the report.                  *)
(*                                                                         *)
(* SIGCHLD is blocked except in select(), so that a turn of the loop and    *)
(* the handler never interleave.                                            *)
(***************************************************************************)
EXTENDS Integers, Sequences, FiniteSets

CONSTANTS
  Slots,        \* 0 .. auto_spawn - 1
  MaxDel,       \* bound on masterdelid: deliveries asked for
  Endings,      \* how a child may end, records [crashed, code, out]
  Service       \* "local" (qmail-lspawn) or "remote" (qmail-rspawn)

Dels == 1 .. MaxDel
Running == [crashed |-> FALSE, code |-> 0, out |-> "running"]

SpawnAssumption ==
  /\ Slots \subseteq Nat
  /\ MaxDel \in Nat
  /\ Endings \subseteq [crashed : BOOLEAN, code : Nat, out : STRING] /\ Running \notin Endings
  /\ Service \in {"local", "remote"}

VARIABLES
  want,      \* want[i]: delivery the client waits for in slot i, or 0
  delid,     \* next delivery number of the client
  client,    \* the client lives
  cmds,      \* the pipe to the spawner: <<slot, delivery>>
  reports,   \* the pipe back: <<slot, verdict, delivery it is about>>
  used,      \* d[i].used
  del,       \* delivery of slot i, kept by its child, 0 if none yet
  child,     \* child[i]: "none", "forked", "running", "zombie", "reaped"
  wstat,     \* d[i].wstat: how the last child that was waited for ended
  truth,     \* truth[n]: how the child of delivery n ended
  holdsown,  \* the spawner still has the write end of slot i (fdout)
  inherited, \* inherited[i]: slots whose write end the child of i got by fork()
  lingers,   \* something that the child of i started keeps its write end
  answers,   \* answers[n]: reports made for delivery n
  reading    \* flagreading; "exited" when the process has ended

clientVars == <<want, delid, client>>
slotVars == <<used, del, child, wstat, holdsown, inherited, lingers>>
vars == <<clientVars, slotVars, cmds, reports, truth, answers, reading>>

TypeOK ==
  /\ want \in [Slots -> Dels \cup {0}]
  /\ delid \in 1 .. MaxDel + 1 /\ client \in BOOLEAN
  /\ cmds \in Seq(Slots \X Dels)
  /\ reports \in Seq(Slots \X {"K", "Z", "D"} \X Dels)
  /\ used \in [Slots -> BOOLEAN] /\ holdsown \in [Slots -> BOOLEAN]
  /\ lingers \in [Slots -> BOOLEAN]
  /\ del \in [Slots -> Dels \cup {0}]
  /\ child \in [Slots -> {"none", "forked", "running", "zombie", "reaped"}]
  /\ wstat \in [Slots -> Endings \cup {Running}]
  /\ truth \in [Dels -> Endings \cup {Running}]
  /\ inherited \in [Slots -> SUBSET Slots]
  /\ answers \in [Dels -> Nat]
  /\ reading \in {"yes", "no", "exited"}

Init ==
  /\ want = [i \in Slots |-> 0] /\ delid = 1 /\ client = TRUE
  /\ cmds = <<>> /\ reports = <<>>
  /\ used = [i \in Slots |-> FALSE] /\ del = [i \in Slots |-> 0]
  /\ child = [i \in Slots |-> "none"] /\ wstat = [i \in Slots |-> Running]
  /\ holdsown = [i \in Slots |-> FALSE] /\ lingers = [i \in Slots |-> FALSE]
  /\ inherited = [i \in Slots |-> {}]
  /\ truth = [n \in Dels |-> Running] /\ answers = [n \in Dels |-> 0]
  /\ reading = "yes"

-----------------------------------------------------------------------------
(* qmail-send: del_start() takes an unused slot and writes the command;     *)
(* del_dochan() reads a report and frees the slot.                          *)

Ask(i) ==
  /\ client /\ delid <= MaxDel /\ want[i] = 0
  /\ want' = [want EXCEPT ![i] = delid] /\ delid' = delid + 1
  /\ cmds' = Append(cmds, <<i, delid>>)
  /\ UNCHANGED <<client, slotVars, reports, truth, answers, reading>>

Hear ==
  /\ client /\ reports # <<>>
  /\ reports' = Tail(reports)
  /\ want' = [want EXCEPT ![Head(reports)[1]] = 0]
  /\ UNCHANGED <<delid, client, slotVars, cmds, truth, answers, reading>>

ClientDies ==
  /\ client /\ client' = FALSE
  /\ UNCHANGED <<want, delid, slotVars, cmds, reports, truth, answers, reading>>

-----------------------------------------------------------------------------
(* What the report says, from the exit status and the output. *)

(* qmail-lspawn: only what qmail-local or the code before it exits with.    *)
LocalVerdict(e) ==
  CASE e.crashed                       -> "Z"
    [] ~e.crashed /\ e.code = 0        -> "K"
    [] ~e.crashed /\ e.code \in {111, 71, 74, 75} -> "Z"
    [] OTHER                           -> "D"

(* qmail-rspawn: out is what qmail-remote wrote, letter by letter: the       *)
(* first letters of the recipient's line and of the message's line.          *)
RemoteVerdict(e, out) ==
  CASE e.crashed \/ e.code = 111 \/ (e.code = 0 /\ out = "") -> "Z"
    [] ~e.crashed /\ e.code = 0 /\ out = "rK"                -> "K"
    [] ~e.crashed /\ e.code = 0 /\ out \in {"rZ", "s", "sK", "sZ", "sD", "Z"} -> "Z"
    [] OTHER                                                 -> "D"

Verdict(e, out) == IF Service = "local" THEN LocalVerdict(e) ELSE RemoteVerdict(e, out)

(* okwrite(): after the first error nothing is written any more. *)
Answer(i, v, n) ==
  /\ answers' = [answers EXCEPT ![n] = @ + 1]
  /\ reports' = IF client THEN Append(reports, <<i, v, n>>) ELSE reports

-----------------------------------------------------------------------------
(* The spawner *)

(* docmd(): a command that cannot be carried out is answered at once.       *)
Refuse ==
  /\ reading = "yes" /\ cmds # <<>>
  /\ cmds' = Tail(cmds)
  /\ LET i == Head(cmds)[1] IN
     \E v \in {"Z", "D"} : Answer(i, v, Head(cmds)[2])
  /\ UNCHANGED <<clientVars, used, del, child, wstat, holdsown, inherited,
                 lingers, truth, reading>>

(* A wrong version: the write end is closed after the fork, not after the wait. *)
ForkAndClose ==
  /\ reading = "yes" /\ cmds # <<>>
  /\ LET i == Head(cmds)[1] IN
     /\ ~used[i]
     /\ used' = [used EXCEPT ![i] = TRUE]
     /\ del' = [del EXCEPT ![i] = Head(cmds)[2]]
     /\ child' = [child EXCEPT ![i] = IF Service = "local" THEN "forked" ELSE "running"]
     /\ holdsown' = [holdsown EXCEPT ![i] = FALSE]
     /\ inherited' = [inherited EXCEPT ![i] = {j \in Slots : holdsown[j]}]
     /\ lingers' = [lingers EXCEPT ![i] = FALSE]
  /\ cmds' = Tail(cmds)
  /\ UNCHANGED <<clientVars, reports, wstat, truth, answers, reading>>

(* docmd(): the child inherits the write ends of the other slots, closed on *)
(* exec only; wstat keeps what it was.  qmail-rspawn uses vfork(), so that   *)
(* its loop goes on after the exec.                                          *)
Fork ==
  /\ reading = "yes" /\ cmds # <<>>
  /\ LET i == Head(cmds)[1] IN
     /\ ~used[i]
     /\ used' = [used EXCEPT ![i] = TRUE]
     /\ del' = [del EXCEPT ![i] = Head(cmds)[2]]
     /\ child' = [child EXCEPT ![i] = IF Service = "local" THEN "forked" ELSE "running"]
     /\ holdsown' = [holdsown EXCEPT ![i] = TRUE]
     /\ inherited' = [inherited EXCEPT ![i] = {j \in Slots : holdsown[j]}]
     /\ lingers' = [lingers EXCEPT ![i] = FALSE]
  /\ cmds' = Tail(cmds)
  /\ UNCHANGED <<clientVars, reports, wstat, truth, answers, reading>>

Exec(i) ==
  /\ child[i] = "forked"
  /\ child' = [child EXCEPT ![i] = "running"]
  /\ inherited' = [inherited EXCEPT ![i] = {}]
  /\ UNCHANGED <<clientVars, cmds, reports, used, del, wstat, holdsown,
                 lingers, truth, answers, reading>>

(* The child ends, before or after its exec; a program that it started may *)
(* keep the pipe open.                                                      *)
ChildEnds(i) ==
  /\ child[i] \in {"forked", "running"}
  /\ child' = [child EXCEPT ![i] = "zombie"]
  /\ \E e \in Endings :
       /\ child[i] = "forked" => e.out = ""
       /\ truth' = [truth EXCEPT ![del[i]] = e]
  /\ inherited' = [inherited EXCEPT ![i] = {}]
  /\ \E l \in BOOLEAN :
       /\ l => child[i] = "running"
       /\ lingers' = [lingers EXCEPT ![i] = l]
  /\ UNCHANGED <<clientVars, cmds, reports, used, del, wstat, holdsown,
                 answers, reading>>

LingerEnds(i) ==
  /\ lingers[i] /\ lingers' = [lingers EXCEPT ![i] = FALSE]
  /\ UNCHANGED <<clientVars, cmds, reports, used, del, child, wstat, holdsown,
                 inherited, truth, answers, reading>>

(* A wrong version: the write end stays open. *)
SigchldKeepsPipe(i) ==
  /\ reading # "exited" /\ child[i] = "zombie"
  /\ child' = [child EXCEPT ![i] = "reaped"]
  /\ wstat' = [wstat EXCEPT ![i] = truth[del[i]]]
  /\ UNCHANGED <<clientVars, cmds, reports, used, del, holdsown, inherited, lingers,
                 truth, answers, reading>>

(* sigchld(), for the slot whose pid was waited for. *)
Sigchld(i) ==
  /\ reading # "exited" /\ child[i] = "zombie"
  /\ child' = [child EXCEPT ![i] = "reaped"]
  /\ wstat' = [wstat EXCEPT ![i] = truth[del[i]]]
  /\ holdsown' = [holdsown EXCEPT ![i] = FALSE]
  /\ UNCHANGED <<clientVars, cmds, reports, used, del, inherited, lingers,
                 truth, answers, reading>>

(* Somebody can still write to the pipe of slot i. *)
HasWriter(i) ==
  \/ holdsown[i] \/ lingers[i] \/ child[i] \in {"forked", "running"}
  \/ \E j \in Slots : i \in inherited[j]

(* A wrong version: the slot stays in use. *)
EndOfOutputKeeps(i) ==
  /\ reading # "exited" /\ used[i] /\ ~HasWriter(i)
  /\ Answer(i, Verdict(wstat[i], wstat[i].out), del[i])
  /\ used' = used
  /\ UNCHANGED <<clientVars, cmds, del, child, wstat, holdsown, inherited,
                 lingers, truth, reading>>

(* read() returns 0 on d[i].fdin: all output is read, report and free.      *)
EndOfOutput(i) ==
  /\ reading # "exited" /\ used[i] /\ ~HasWriter(i)
  /\ Answer(i, Verdict(wstat[i], wstat[i].out), del[i])
  /\ used' = [used EXCEPT ![i] = FALSE]
  /\ UNCHANGED <<clientVars, cmds, del, child, wstat, holdsown, inherited,
                 lingers, truth, reading>>

(* A wrong version: the end of file counts only when no slot is in use and a command was read. *)
NoMoreCommandsLate ==
  /\ reading = "yes" /\ ~client /\ cmds # <<>>
  /\ reading' = "no"
  /\ UNCHANGED <<clientVars, slotVars, cmds, reports, truth, answers>>

(* getcmd() reads an end of file. *)
NoMoreCommands ==
  /\ reading = "yes" /\ ~client /\ cmds = <<>>
  /\ reading' = "no"
  /\ UNCHANGED <<clientVars, slotVars, cmds, reports, truth, answers>>

Exit ==
  /\ reading = "no" /\ \A i \in Slots : ~used[i]
  /\ reading' = "exited"
  /\ UNCHANGED <<clientVars, slotVars, cmds, reports, truth, answers>>

-----------------------------------------------------------------------------
Spawner ==
  \/ Refuse \/ Fork \/ NoMoreCommands \/ Exit
  \/ \E i \in Slots : Sigchld(i) \/ EndOfOutput(i)

Children == \E i \in Slots : Exec(i) \/ ChildEnds(i) \/ LingerEnds(i)

Next == (\E i \in Slots : Ask(i)) \/ Hear \/ ClientDies \/ Spawner \/ Children

Spec == Init /\ [][Next]_vars

(* The loop goes on, children end and so does what they leave behind. *)
Fairness ==
  /\ WF_vars(Refuse \/ Fork) /\ WF_vars(NoMoreCommands) /\ WF_vars(Exit)
  /\ \A i \in Slots : WF_vars(Sigchld(i)) /\ WF_vars(EndOfOutput(i))
                      /\ WF_vars(ChildEnds(i)) /\ WF_vars(LingerEnds(i))

FairSpec == Spec /\ Fairness

-----------------------------------------------------------------------------
Started(n) == truth[n] # Running

(* The message was handed over: qmail-local said so by its exit, or         *)
(* qmail-remote by the letters r and K and a normal exit.                   *)
Delivered(n) ==
  /\ Started(n) /\ ~truth[n].crashed /\ truth[n].code = 0
  /\ Service = "remote" => truth[n].out = "rK"

(* Each report tells how the child of this very delivery ended, never how   *)
(* an earlier child of the slot did: K exactly for what was handed over,    *)
(* and nothing before the child is gone.                                    *)
TrueReports ==
  \A k \in 1 .. Len(reports) :
    LET n == reports[k][3] IN
    /\ reports[k][2] = "K" <=> Delivered(n)
    /\ Started(n) => reports[k][2] = Verdict(truth[n], truth[n].out)

(* What the client waits for in slot i is in exactly one place: a command,  *)
(* a child, or a report; so no command ever finds its slot in use, and no   *)
(* report is about another delivery than the one that has the slot.         *)
InOnePlace ==
  client => \A i \in Slots :
    LET asked    == {k \in 1 .. Len(cmds) : cmds[k][1] = i}
        told     == {k \in 1 .. Len(reports) : reports[k][1] = i} IN
    /\ Cardinality(asked) + Cardinality(told) + (IF used[i] THEN 1 ELSE 0)
         = (IF want[i] = 0 THEN 0 ELSE 1)
    /\ \A k \in told : reports[k][3] = want[i]
    /\ used[i] => del[i] = want[i]

(* Each delivery that was asked for is answered.                            *)
AllAnswered == \A n \in Dels : (delid > n) ~> (answers[n] = 1 \/ ~client)

(* When the client is gone the spawner waits for its children and exits.    *)
ExitsAfterClient == ~client ~> (reading = "exited" /\ \A i \in Slots : ~used[i])

=============================================================================
