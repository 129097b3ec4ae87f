-------------------------------- MODULE Greylist --------------------------------
(***************************************************************************)
(* The entry that jgreylist keeps for one block of addresses: a file whose  *)
(* modification time is that of the first connection and whose access time   *)
(* is that of the last.  Several connections read and write it without a     *)
(* lock, each in several system calls, while jgreylist-clean removes entries *)
(* that are old and directories that are empty.                              *)
(***************************************************************************)
EXTENDS Integers, FiniteSets

CONSTANTS
  Procs,            \* connections from the block
  Hold,             \* JGREYLIST_HOLDTIME
  MaxAge, OneAge,   \* of jgreylist-clean; OneAge = 0 turns that check off
  MaxTime, Sweeps   \* bounds on the clock and on the runs of jgreylist-clean

GreylistAssumption == {Hold, MaxAge, OneAge, MaxTime, Sweeps} \subseteq Nat

VARIABLES
  now,
  dir, file,        \* is the directory there; the file: [there, mtime, atime]
  pc,               \* "mkdir", "stat", "create", "time", "tstat", "utime", "grey", "okay", "died"
  sb,               \* st_mtime that the process has from its last stat()
  at, verdict,      \* its clock and its decision
  cpc, cnow, sweeps,\* jgreylist-clean: "off", "stat", "unlink", "rmdir"; its clock
  met,              \* ghost: times at which a first connection was refused
  swept             \* ghost: processes during which something was removed

client == <<pc, sb, at, verdict>>
cleaner == <<cpc, cnow, sweeps>>
vars == <<now, dir, file, client, cleaner, met, swept>>

NoFile == [there |-> FALSE, mtime |-> 0, atime |-> 0]

Init ==
  /\ now = 0 /\ dir = FALSE /\ file = NoFile
  /\ pc = [p \in Procs |-> "mkdir"] /\ sb = [p \in Procs |-> 0] /\ at = [p \in Procs |-> 0]
  /\ verdict = [p \in Procs |-> "none"] /\ cpc = "off" /\ cnow = 0 /\ sweeps = 0
  /\ met = {} /\ swept = {}

Go(p, to) == pc' = [pc EXCEPT ![p] = to]
Active == {p \in Procs : pc[p] \notin {"mkdir", "grey", "okay", "died"}}

-----------------------------------------------------------------------------
(* A wrong version: a directory that is there ends the program. *)
MkdirStrict(p) ==
  /\ pc[p] = "mkdir" /\ dir' = TRUE /\ Go(p, IF dir THEN "died" ELSE "stat")
  /\ UNCHANGED <<now, file, sb, at, verdict, cleaner, met, swept>>

(* mkdir() of the directories; that one is there already is no error.        *)
Mkdir(p) ==
  /\ pc[p] = "mkdir" /\ dir' = TRUE /\ Go(p, "stat")
  /\ UNCHANGED <<now, file, sb, at, verdict, cleaner, met, swept>>

Stat(p) ==
  /\ pc[p] = "stat"
  /\ IF file.there THEN sb' = [sb EXCEPT ![p] = file.mtime] /\ Go(p, "time")
                   ELSE UNCHANGED sb /\ Go(p, "create")
  /\ UNCHANGED <<now, dir, file, at, verdict, cleaner, met, swept>>

(* file_create(): creat() sets the times of a file that is there, too.       *)
Create(p) ==
  /\ pc[p] = "create"
  /\ IF dir THEN /\ file' = [there |-> TRUE, mtime |-> now, atime |-> now]
                 /\ met' = met \cup {now} /\ Go(p, "grey")
            ELSE UNCHANGED <<file, met>> /\ Go(p, "died")
  /\ UNCHANGED <<now, dir, sb, at, verdict, cleaner, swept>>

(* A wrong version: one second early. *)
TimeEarly(p) ==
  /\ pc[p] = "time" /\ at' = [at EXCEPT ![p] = now]
  /\ verdict' = [verdict EXCEPT ![p] = IF sb[p] + Hold > now + 1 THEN "grey" ELSE "okay"]
  /\ Go(p, "tstat")
  /\ UNCHANGED <<now, dir, file, sb, cleaner, met, swept>>

Time(p) ==
  /\ pc[p] = "time" /\ at' = [at EXCEPT ![p] = now]
  /\ verdict' = [verdict EXCEPT ![p] = IF sb[p] + Hold > now THEN "grey" ELSE "okay"]
  /\ Go(p, "tstat")
  /\ UNCHANGED <<now, dir, file, sb, cleaner, met, swept>>

(* file_touch(): stat() once more, then utime().                             *)
TouchStat(p) ==
  /\ pc[p] = "tstat"
  /\ IF file.there THEN sb' = [sb EXCEPT ![p] = file.mtime] /\ Go(p, "utime")
                   ELSE UNCHANGED sb /\ Go(p, "died")
  /\ UNCHANGED <<now, dir, file, at, verdict, cleaner, met, swept>>

(* A wrong version: both times are set. *)
TouchBoth(p) ==
  /\ pc[p] = "utime"
  /\ IF file.there THEN /\ file' = [file EXCEPT !.mtime = at[p], !.atime = at[p]]
                        /\ Go(p, verdict[p])
                   ELSE UNCHANGED file /\ Go(p, "died")
  /\ UNCHANGED <<now, dir, sb, at, verdict, cleaner, met, swept>>

Touch(p) ==
  /\ pc[p] = "utime"
  /\ IF file.there THEN /\ file' = [file EXCEPT !.mtime = sb[p], !.atime = at[p]]
                        /\ Go(p, verdict[p])
                   ELSE UNCHANGED file /\ Go(p, "died")
  /\ UNCHANGED <<now, dir, sb, at, verdict, cleaner, met, swept>>

-----------------------------------------------------------------------------
(* jgreylist-clean: it reads the clock once, looks at the file, removes it,  *)
(* and removes the directory unless it counted something that stays.         *)
Sweep ==
  /\ cpc = "off" /\ sweeps < Sweeps /\ dir /\ sweeps' = sweeps + 1 /\ cnow' = now
  /\ cpc' = (IF file.there THEN "stat" ELSE "rmdir")
  /\ UNCHANGED <<now, dir, file, client, met, swept>>

Old ==
  \/ cnow - file.atime > MaxAge
  \/ OneAge > 0 /\ file.atime = file.mtime /\ cnow - file.atime > OneAge

Look ==
  /\ cpc = "stat" /\ cpc' = (IF file.there /\ Old THEN "unlink" ELSE "off")
  /\ UNCHANGED <<now, dir, file, client, cnow, sweeps, met, swept>>

Unlink ==
  /\ cpc = "unlink" /\ cpc' = "rmdir" /\ file' = NoFile /\ swept' = swept \cup Active
  /\ UNCHANGED <<now, dir, client, cnow, sweeps, met>>

Rmdir ==
  /\ cpc = "rmdir" /\ cpc' = "off" /\ dir' = file.there
  /\ swept' = IF file.there THEN swept ELSE swept \cup Active
  /\ UNCHANGED <<now, file, client, cnow, sweeps, met>>

Tick == now < MaxTime /\ now' = now + 1 /\ UNCHANGED <<dir, file, client, cleaner, met, swept>>

Next ==
  \/ Tick \/ Sweep \/ Look \/ Unlink \/ Rmdir
  \/ \E p \in Procs : Mkdir(p) \/ Stat(p) \/ Create(p) \/ Time(p) \/ TouchStat(p) \/ Touch(p)
Spec == Init /\ [][Next]_vars

-----------------------------------------------------------------------------
(* A connection is let in only if another was refused at least Hold seconds  *)
(* before, however the calls on the file and the cleaner fall.               *)
HeldBack == \A p \in Procs : pc[p] = "okay" => \E t \in met : t + Hold <= at[p]

(* A connection that finds an entry is refused only if less than Hold has    *)
(* passed since an entry was made: refused retries do not start it again.    *)
GreyForCause ==
  \A p \in Procs : pc[p] = "grey" /\ verdict[p] = "grey" => \E t \in met : at[p] < t + Hold

(* A connection is dropped without an answer only if jgreylist-clean removed *)
(* the entry or the directory while it ran.                                  *)
DiesOnlyBySweep == \A p \in Procs : pc[p] = "died" => p \in swept

(* The hold counts from the first connection: one that comes Hold seconds    *)
(* after an entry was made is not refused.                                   *)
HoldFromTheFirst ==
  \A p \in Procs : pc[p] = "grey" /\ verdict[p] = "grey" => \A t \in met : at[p] < t + Hold

(* Only the entry of a client that has not connected for OneAge is removed.  *)
InUseKept ==
  [][file.there /\ ~file'.there => file.atime + OneAge < now]_vars
=============================================================================
