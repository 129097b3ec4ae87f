-------------------------------- MODULE Multilog --------------------------------
(***************************************************************************)
(* multilog writes the log of a service to a directory: current, which is    *)
(* renamed to previous when it is full, run through a processor if there is  *)
(* one, and kept under a timestamp.  It can be told to end, be killed, and   *)
(* the machine can crash, between any two system calls.  Directories are     *)
(* written at once, data only by fsync().  A line is two bytes, the odd and  *)
(* the even one; the log is the sequence of their numbers.                   *)
(***************************************************************************)
EXTENDS Naturals, SequencesExt

CONSTANTS
  Size, Slack,   \* bytes of a file; how near to its end a line end is looked for: 2000 in the source
  Num,           \* number of old files, plus one
  Lines,         \* bound on the lines of the service
  Kills,         \* bound on processes killed
  Crashes        \* bound on crashes of the machine

MultilogAssumption ==
  /\ {Size, Slack, Num, Lines, Kills, Crashes} \subseteq Nat
  /\ Num >= 2 /\ 2 <= Slack /\ Slack < Size

VARIABLES
  processor,   \* whether there is one, by the script of actions
  pc,          \* the next system call
  fin,         \* finish(): the file, its code, and where it returns to
  written,     \* bytes the service has written
  got, buf,    \* bytes read; those of them not in current yet
  exitasap,    \* SIGTERM has come
  file,        \* the files current, previous and processed; Gone if there is none
  linked,      \* the file that is the same as the newest old file, or "none"
  old,         \* the old files, oldest first
  dropped,     \* ghost: the log that was in old files which are removed by now
  logged,      \* ghost: what was written to current and no crash has taken away
  kills, crashes

vars == <<processor, pc, fin, written, got, buf, exitasap, file, linked, old, dropped, logged, kills, crashes>>

(* mark: the x bit; cut: ghost, a crash has taken data away.                 *)
Gone == [there |-> FALSE, data |-> <<>>, synced |-> 0, mark |-> FALSE, cut |-> FALSE]
New == [Gone EXCEPT !.there = TRUE]
Names == {"current", "previous", "processed"}

Init ==
  /\ processor \in BOOLEAN /\ pc = "r1" /\ fin = [file |-> "current", code |-> "u", to |-> "run"]
  /\ written = 0 /\ got = 0 /\ buf = <<>> /\ exitasap = FALSE
  /\ file = [n \in Names |-> Gone] /\ linked = "none" /\ old = <<>>
  /\ dropped = <<>> /\ logged = <<>> /\ kills = 0 /\ crashes = 0

rest == <<processor, written, got, buf, exitasap, logged, kills, crashes>>   \* what work on the directory leaves alone
Goto(l) == pc' = l /\ UNCHANGED fin
Finish(f, c, l) == pc' = "link" /\ fin' = [file |-> f, code |-> c, to |-> l]
Delete(f) == file' = [file EXCEPT ![f] = Gone] /\ linked' = (IF linked = f THEN "none" ELSE linked)

-----------------------------------------------------------------------------
(* finish(): link, unlink, filesfit() *)

(* A wrong version: does not see that the file has been linked before. *)
LinkAgain ==
  /\ pc = "link"
  /\ IF ~file[fin.file].there THEN Goto(fin.to) /\ UNCHANGED <<linked, old>>
     ELSE /\ Goto("unlink")
          /\ linked' = fin.file
          /\ old' = Append(old, [data |-> file[fin.file].data, synced |-> file[fin.file].synced,
                                 code |-> fin.code, cut |-> file[fin.file].cut])
  /\ UNCHANGED <<file, dropped, rest>>

Link ==
  /\ pc = "link"
  /\ IF ~file[fin.file].there THEN Goto(fin.to) /\ UNCHANGED <<linked, old>>
     ELSE /\ Goto("unlink")
          /\ IF linked = fin.file THEN UNCHANGED <<linked, old>>
             ELSE /\ linked' = fin.file
                  /\ old' = Append(old, [data |-> file[fin.file].data, synced |-> file[fin.file].synced,
                                         code |-> fin.code, cut |-> file[fin.file].cut])
  /\ UNCHANGED <<file, dropped, rest>>

Unlink ==
  /\ pc = "unlink" /\ Delete(fin.file) /\ Goto("fit")
  /\ UNCHANGED <<old, dropped, rest>>

(* A wrong version: allows one too many. *)
FitLate ==
  /\ pc = "fit"
  /\ IF Len(old) <= Num
     THEN Goto(fin.to) /\ UNCHANGED <<old, dropped>>
     ELSE old' = Tail(old) /\ dropped' = dropped \o Head(old).data /\ UNCHANGED <<pc, fin>>
  /\ UNCHANGED <<file, linked, rest>>

Fit ==
  /\ pc = "fit"
  /\ IF Len(old) < Num
     THEN Goto(fin.to) /\ UNCHANGED <<old, dropped>>
     ELSE old' = Tail(old) /\ dropped' = dropped \o Head(old).data /\ UNCHANGED <<pc, fin>>
  /\ UNCHANGED <<file, linked, rest>>

-----------------------------------------------------------------------------
(* fullcurrent() *)

Sync(f) == file' = [file EXCEPT ![f].synced = Len(file[f].data)]

(* A wrong version: does not call fsync(). *)
Full1Unsynced == pc = "full1" /\ Goto("full2") /\ UNCHANGED <<file, linked, old, dropped, rest>>

Full1 == pc = "full1" /\ Sync("current") /\ Goto("full2") /\ UNCHANGED <<linked, old, dropped, rest>>

Full2 ==
  /\ pc = "full2"
  /\ file' = [file EXCEPT !["previous"] = file["current"], !["current"] = Gone]
  /\ Goto("full3") /\ UNCHANGED <<linked, old, dropped, rest>>

Full3 ==
  /\ pc = "full3" /\ file' = [file EXCEPT !["current"] = New]
  /\ IF processor THEN Goto("process") ELSE Finish("previous", "s", "run")
  /\ UNCHANGED <<linked, old, dropped, rest>>

(* The processor, started until it succeeds; it is one that copies.          *)
Process ==
  /\ pc = "process"
  /\ \/ file' = [file EXCEPT !["processed"] = New] /\ UNCHANGED <<pc, fin>>
     \/ file' = [file EXCEPT !["processed"] = [New EXCEPT !.data = file["previous"].data]] /\ Goto("psync")
  /\ UNCHANGED <<linked, old, dropped, rest>>

ProcSync == pc = "psync" /\ Sync("processed") /\ Goto("pmark") /\ UNCHANGED <<linked, old, dropped, rest>>

ProcMark ==
  /\ pc = "pmark" /\ file' = [file EXCEPT !["processed"].mark = TRUE] /\ Goto("punlink")
  /\ UNCHANGED <<linked, old, dropped, rest>>

ProcUnlink ==
  /\ pc = "punlink" /\ Delete("previous") /\ Finish("processed", "s", "run")
  /\ UNCHANGED <<old, dropped, rest>>

-----------------------------------------------------------------------------
(* restart() *)

Restart1 ==
  /\ pc = "r1"
  /\ IF file["current"].there /\ file["current"].mark
     THEN file' = [file EXCEPT !["current"].mark = FALSE] /\ UNCHANGED linked /\ Goto("run")
     ELSE IF file["processed"].there /\ file["processed"].mark
          THEN Delete("previous") /\ Finish("processed", "s", "r2")
          ELSE Delete("processed") /\ Finish("previous", "u", "r2")
  /\ UNCHANGED <<old, dropped, rest>>

Restart2 == pc = "r2" /\ Finish("current", "u", "r3") /\ UNCHANGED <<file, linked, old, dropped, rest>>

Restart3 ==
  /\ pc = "r3" /\ file' = [file EXCEPT !["current"] = New] /\ Goto("run")
  /\ UNCHANGED <<linked, old, dropped, rest>>

-----------------------------------------------------------------------------
(* doit(), flushread(), c_write() *)

IsEnd(b) == b % 2 = 0
Complete == IF buf = <<>> THEN 0 ELSE IF IsEnd(Last(buf)) THEN Len(buf) ELSE Len(buf) - 1
MidLine == buf # <<>> /\ ~IsEnd(Last(buf))

Service ==
  /\ written < 2 * Lines /\ written' = written + 1
  /\ UNCHANGED <<processor, pc, fin, got, buf, exitasap, file, linked, old, dropped, logged, kills, crashes>>

SigTerm ==
  /\ ~exitasap /\ pc = "run" /\ exitasap' = TRUE
  /\ UNCHANGED <<processor, pc, fin, written, got, buf, file, linked, old, dropped, logged, kills, crashes>>

(* A wrong version: ends where it is. *)
ReadSome ==
  /\ pc = "run" /\ Complete = 0
  /\ IF exitasap
     THEN pc' = "quit" /\ UNCHANGED <<got, buf>>
     ELSE /\ UNCHANGED pc
          /\ \E k \in 1 .. written - got :
               got' = got + k /\ buf' = buf \o [j \in 1 .. k |-> got + j]
  /\ UNCHANGED <<processor, fin, written, exitasap, file, linked, old, dropped, logged, kills, crashes>>

(* What is complete has been written.  After SIGTERM the line is read to its *)
(* end, byte by byte, and no further.                                        *)
Read ==
  /\ pc = "run" /\ Complete = 0
  /\ IF exitasap /\ ~MidLine
     THEN pc' = "quit" /\ UNCHANGED <<got, buf>>
     ELSE /\ UNCHANGED pc
          /\ \E k \in 1 .. (IF exitasap /\ written > got THEN 1 ELSE written - got) :
               got' = got + k /\ buf' = buf \o [j \in 1 .. k |-> got + j]
  /\ UNCHANGED <<processor, fin, written, exitasap, file, linked, old, dropped, logged, kills, crashes>>

(* c_write(): len bytes are offered, w are written.                          *)
LastEnd(len) == CHOOSE e \in 0 .. len : (e = 0 \/ IsEnd(buf[e])) /\ \A d \in e + 1 .. len : ~IsEnd(buf[d])
Offered ==
  LET bytes == Len(file["current"].data)
      len == IF Complete >= Size - bytes THEN Size - bytes ELSE Complete
  IN IF bytes + len >= Size - Slack /\ LastEnd(len) > 0 THEN LastEnd(len) ELSE len

(* A wrong version: takes what it offered as written. *)
WriteAll ==
  /\ pc = "run" /\ Complete > 0 /\ Len(file["current"].data) < Size
  /\ \E w \in 1 .. Offered :
       /\ file' = [file EXCEPT !["current"].data = @ \o SubSeq(buf, 1, w)]
       /\ logged' = logged \o SubSeq(buf, 1, w)
       /\ buf' = SubSeq(buf, Offered + 1, Len(buf))
       /\ IF Len(file["current"].data) + w >= Size - Slack /\ IsEnd(buf[w]) THEN Goto("full1") ELSE Goto("run")
  /\ UNCHANGED <<processor, written, got, exitasap, linked, old, dropped, kills, crashes>>

Write ==
  /\ pc = "run" /\ Complete > 0 /\ Len(file["current"].data) < Size
  /\ \E w \in 1 .. Offered :
       /\ file' = [file EXCEPT !["current"].data = @ \o SubSeq(buf, 1, w)]
       /\ logged' = logged \o SubSeq(buf, 1, w)
       /\ buf' = SubSeq(buf, w + 1, Len(buf))
       /\ IF Len(file["current"].data) + w >= Size - Slack /\ IsEnd(buf[w]) THEN Goto("full1") ELSE Goto("run")
  /\ UNCHANGED <<processor, written, got, exitasap, linked, old, dropped, kills, crashes>>

(* current is full without a line end, or SIGALRM has come.                  *)
Rotate ==
  /\ pc = "run" /\ file["current"].data # <<>>
  /\ Complete = 0 \/ Len(file["current"].data) >= Size
  /\ Goto("full1")
  /\ UNCHANGED <<file, linked, old, dropped, rest>>

(* c_quit() *)
Quit ==
  \/ pc = "quit" /\ Sync("current") /\ Goto("mark") /\ UNCHANGED <<linked, old, dropped, rest>>
  \/ /\ pc = "mark" /\ file' = [file EXCEPT !["current"].mark = TRUE]
     /\ Goto("exited") /\ UNCHANGED <<linked, old, dropped, rest>>

(* supervise starts it again.                                                *)
Again ==
  /\ pc = "exited" /\ Goto("r1") /\ exitasap' = FALSE
  /\ UNCHANGED <<processor, written, got, buf, file, linked, old, dropped, logged, kills, crashes>>

Lost == pc' = "r1" /\ buf' = <<>> /\ exitasap' = FALSE /\ UNCHANGED <<processor, fin, written, got, dropped>>

Killed ==
  /\ pc # "exited" /\ kills < Kills /\ kills' = kills + 1
  /\ Lost /\ UNCHANGED <<file, linked, old, logged, crashes>>

(* What is not on disk is lost from some byte on; data goes there in order.  *)
Cuts(f) == {[f EXCEPT !.data = SubSeq(@, 1, n), !.synced = n, !.cut = @ \/ n < Len(f.data)] :
              n \in f.synced .. Len(f.data)}

Kept(fs, os, l, dr) ==
  dr \o FlattenSeq([i \in 1 .. Len(os) |-> os[i].data])
     \o (IF fs["processed"].mark
         THEN (IF l = "processed" THEN <<>> ELSE fs["processed"].data)
         ELSE (IF l = "previous" THEN <<>> ELSE fs["previous"].data))
     \o (IF l = "current" THEN <<>> ELSE fs["current"].data)

Crash ==
  /\ crashes < Crashes /\ crashes' = crashes + 1
  /\ \E os \in {s \in [1 .. Len(old) -> UNION {Cuts(old[i]) : i \in 1 .. Len(old)}] : \A i \in 1 .. Len(old) : s[i] \in Cuts(old[i])},
        c \in Cuts(file["current"]), p \in Cuts(file["previous"]), q \in Cuts(file["processed"]) :
       /\ old' = os
       /\ file' = LET fs == [current |-> c, previous |-> p, processed |-> q]
                  IN IF linked = "none" THEN fs
                     ELSE [fs EXCEPT ![linked].data = Last(os).data, ![linked].synced = Last(os).synced, ![linked].cut = Last(os).cut]
       /\ logged' = Kept(file', os, linked, dropped)
  /\ Lost /\ UNCHANGED <<linked, kills>>

Step ==
  \/ Link \/ Unlink \/ Fit \/ Full1 \/ Full2 \/ Full3 \/ Process \/ ProcSync \/ ProcMark \/ ProcUnlink
  \/ Restart1 \/ Restart2 \/ Restart3 \/ Read \/ Write \/ Quit

Next == Step \/ Service \/ SigTerm \/ Rotate \/ Again \/ Killed \/ Crash
Spec == Init /\ [][Next]_vars

-----------------------------------------------------------------------------
TypeOK ==
  /\ processor \in BOOLEAN
  /\ pc \in {"run", "link", "unlink", "fit", "full1", "full2", "full3", "process", "psync", "pmark", "punlink",
             "r1", "r2", "r3", "quit", "mark", "exited"}
  /\ got <= written /\ written \in 0 .. 2 * Lines /\ Len(old) <= Num + Kills + Crashes
  /\ linked \in Names \cup {"none"} /\ (linked # "none" => file[linked].there /\ old # <<>>)
  /\ \A n \in Names : file[n].synced \in 0 .. Len(file[n].data)

(* Whatever is killed between two system calls, every byte that was written  *)
(* is kept in one place, in order, until its old file is removed.            *)
KeptOnce == Kept(file, old, linked, dropped) = logged

(* An old file with the code "s" is on disk: no crash took anything from it. *)
SafeIsWhole ==
  \A i \in 1 .. Len(old) : old[i].code = "s" => ~old[i].cut /\ old[i].synced = Len(old[i].data)

(* multilog that is told to end has written every line it read, and stops    *)
(* between two lines, so that the next one goes on where it ended.           *)
EndsBetweenLines ==
  pc = "exited" => buf = <<>> /\ file["current"].mark /\ (kills = 0 /\ crashes = 0 => got % 2 = 0)

(* Without a kill or a crash nothing that the service said is lost.          *)
NothingLost ==
  kills = 0 /\ crashes = 0 => logged \o buf = [j \in 1 .. got |-> j]

(* Num - 1 old files are there while multilog waits, and one more for every  *)
(* time it was killed between unlink() and filesfit(): those go later.       *)
RoomIsMade == pc = "run" => Len(old) < Num + kills + crashes
=============================================================================
