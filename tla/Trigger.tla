------------------------------- MODULE Trigger -------------------------------
(***************************************************************************)
(* How a new entry of todo/ is noticed: qmail-queue pulls a FIFO that        *)
(* qmail-todo selects on; trigger_set() drains it by closing it and opening  *)
(* it anew.  A pull may come at any point of that, or of the scan.           *)
(***************************************************************************)
EXTENDS Naturals, FiniteSets

CONSTANTS
  Writers,     \* processes of qmail-queue, each with a message of its own
  DirFails,    \* opendir("todo") may fail
  Timer,       \* SLEEP_TODO passes
  Kills        \* bound on the deaths of qmail-todo and qmail-queue

TriggerAssumption == DirFails \in BOOLEAN /\ Timer \in BOOLEAN /\ Kills \in Nat

VARIABLES
  todo,      \* entries of todo/, named by their writers
  writer,    \* where each qmail-queue is
  reader,    \* qmail-todo holds the FIFO open for reading
  holders,   \* writers that hold it open for writing
  byte,      \* there is a byte in it
  hangup,    \* the last writer has gone since the reader opened it
  phase,     \* of qmail-todo
  left,      \* entries that readdir() will still return
  due,       \* nexttodorun has come
  kills

vars == <<todo, writer, reader, holders, byte, hangup, phase, left, due, kills>>
fifo == <<reader, holders, byte, hangup>>
daemon == <<phase, left, due>>

Init ==
  /\ todo = {} /\ writer = [w \in Writers |-> "link"]
  /\ reader = FALSE /\ holders = {} /\ byte = FALSE /\ hangup = FALSE
  /\ phase = "init" /\ left = {} /\ due = FALSE /\ kills = 0

-----------------------------------------------------------------------------
(* The FIFO, as the kernel keeps it *)

(* select() finds it readable: data, or an end of file.                     *)
Readable == reader /\ (byte \/ (hangup /\ holders = {}))

CloseForWriting(w) ==
  /\ holders' = holders \ {w}
  /\ byte' = (byte /\ (reader \/ holders' # {}))
  /\ hangup' = (hangup \/ (reader /\ holders' = {}))
  /\ UNCHANGED reader

CloseForReading ==
  /\ reader' = FALSE /\ hangup' = FALSE
  /\ byte' = (byte /\ holders # {})
  /\ UNCHANGED holders

OpenForReading == reader' = TRUE /\ UNCHANGED <<holders, byte, hangup>>

-----------------------------------------------------------------------------
(* qmail-queue: link(intd, todo), then triggerpull() *)

Link(w) ==
  /\ writer[w] = "link"
  /\ writer' = [writer EXCEPT ![w] = "open"] /\ todo' = todo \cup {w}
  /\ UNCHANGED <<fifo, daemon, kills>>

OpenFifo(w) ==
  /\ writer[w] = "open"
  /\ IF reader
     THEN /\ holders' = holders \cup {w}
          /\ writer' = [writer EXCEPT ![w] = "write"]
     ELSE /\ UNCHANGED holders
          /\ writer' = [writer EXCEPT ![w] = "end"]
  /\ UNCHANGED <<todo, reader, byte, hangup, daemon, kills>>

(* A pipe without a reader takes no byte; a full one has one.               *)
WriteFifo(w) ==
  /\ writer[w] = "write"
  /\ byte' = (byte \/ reader)
  /\ writer' = [writer EXCEPT ![w] = "close"]
  /\ UNCHANGED <<todo, reader, holders, hangup, daemon, kills>>

CloseFifo(w) ==
  /\ writer[w] = "close" /\ CloseForWriting(w)
  /\ writer' = [writer EXCEPT ![w] = "end"]
  /\ UNCHANGED <<todo, daemon, kills>>

WriterDies(w) ==
  /\ kills < Kills /\ kills' = kills + 1
  /\ writer[w] \notin {"end", "dead"} /\ CloseForWriting(w)
  /\ writer' = [writer EXCEPT ![w] = "dead"]
  /\ UNCHANGED <<todo, daemon>>

-----------------------------------------------------------------------------
(* qmail-todo *)

(* todo_init() *)
Start ==
  /\ phase = "init" /\ OpenForReading
  /\ phase' = "idle" /\ due' = TRUE
  /\ UNCHANGED <<todo, writer, left, kills>>

(* A wrong version: the FIFO is not drained. *)
WakeKeeps ==
  /\ phase = "idle" /\ (Readable \/ due)
  /\ phase' = "open"
  /\ UNCHANGED <<todo, writer, fifo, left, due, kills>>

(* A wrong version: only the trigger counts. *)
WakePulledOnly ==
  /\ phase = "idle" /\ Readable
  /\ phase' = "closed" /\ CloseForReading
  /\ UNCHANGED <<todo, writer, left, due, kills>>

(* todo_do() finds the trigger pulled, or its time come: trigger_set().     *)
Wake ==
  /\ phase = "idle" /\ (Readable \/ due)
  /\ phase' = "closed" /\ CloseForReading
  /\ UNCHANGED <<todo, writer, left, due, kills>>

Reopen ==
  /\ phase = "closed" /\ OpenForReading
  /\ phase' = "open"
  /\ UNCHANGED <<todo, writer, left, due, kills>>

OpenDir ==
  /\ phase = "open"
  /\ phase' = "scan" /\ left' = todo /\ due' = FALSE
  /\ UNCHANGED <<todo, writer, fifo, kills>>

(* pausedir(): the time of the next run stays as it is.                     *)
OpenDirFails ==
  /\ DirFails /\ phase = "open"
  /\ phase' = "idle"
  /\ UNCHANGED <<todo, writer, fifo, left, due, kills>>

(* readdir() may also return what came after opendir().                     *)
Preprocess(w) ==
  /\ phase = "scan" /\ w \in todo
  /\ todo' = todo \ {w} /\ left' = left \ {w}
  /\ UNCHANGED <<writer, fifo, phase, due, kills>>

(* A wrong version: the trigger is drained after the scan. *)
CloseDirDrains ==
  /\ phase = "scan" /\ left = {}
  /\ phase' = "idle" /\ byte' = FALSE /\ hangup' = FALSE
  /\ UNCHANGED <<todo, writer, reader, holders, left, due, kills>>

CloseDir ==
  /\ phase = "scan" /\ left = {}
  /\ phase' = "idle"
  /\ UNCHANGED <<todo, writer, fifo, left, due, kills>>

TimeComes ==
  /\ Timer /\ phase = "idle"
  /\ due' = TRUE
  /\ UNCHANGED <<todo, writer, fifo, phase, left, kills>>

TodoDies ==
  /\ kills < Kills /\ kills' = kills + 1
  /\ phase # "init" /\ CloseForReading
  /\ phase' = "init" /\ left' = {} /\ due' = FALSE
  /\ UNCHANGED <<todo, writer>>

-----------------------------------------------------------------------------
Queue(w) == Link(w) \/ OpenFifo(w) \/ WriteFifo(w) \/ CloseFifo(w)
Daemon == Start \/ Wake \/ Reopen \/ OpenDir \/ CloseDir \/ \E w \in Writers : Preprocess(w)

Next ==
  \/ \E w \in Writers : Queue(w) \/ WriterDies(w)
  \/ Daemon \/ OpenDirFails \/ TimeComes \/ TodoDies

Spec == Init /\ [][Next]_vars

(* Every process runs on, readdir() comes to an end, and time passes; a      *)
(* directory that can be opened again and again is opened in the end.        *)
Fairness ==
  /\ \A w \in Writers : WF_vars(Queue(w))
  /\ WF_vars(Daemon) /\ SF_vars(OpenDir)
  /\ WF_vars(TimeComes)
FairSpec == Spec /\ Fairness

-----------------------------------------------------------------------------
TypeOK ==
  /\ todo \subseteq Writers /\ left \subseteq todo /\ holders \subseteq Writers
  /\ writer \in [Writers -> {"link", "open", "write", "close", "end", "dead"}]
  /\ holders = {w \in Writers : writer[w] \in {"write", "close"}}
  /\ reader = (phase \notin {"init", "closed"})
  /\ byte \in BOOLEAN /\ hangup \in BOOLEAN /\ due \in BOOLEAN
  /\ phase \in {"init", "idle", "closed", "open", "scan"}
  /\ kills \in 0 .. Kills

(* qmail-todo.c:28, "when triggered, respond instantly": an entry whose      *)
(* trigger was pulled to the end keeps select() from sleeping, or it is in   *)
(* the scan that goes on or in the one that is about to begin.              *)
RespondInstantly ==
  \A w \in todo : writer[w] = "end" =>
    \/ Readable \/ due
    \/ phase \in {"init", "closed", "open"}
    \/ phase = "scan" /\ w \in left

(* An entry of todo/ is preprocessed in the end, also when its qmail-queue   *)
(* died before it pulled the trigger, and when the directory cannot be read.  *)
EveryEntryTaken == \A w \in Writers : w \in todo ~> w \notin todo

(* qmail-todo.c:26, "if not triggered, do not busy-loop": when all writers   *)
(* have gone, qmail-todo comes to rest.                                      *)
ComesToRest == <>[](phase = "idle" /\ ~Readable /\ ~due)
=============================================================================
