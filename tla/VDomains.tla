-------------------------------- MODULE VDomains --------------------------------
(***************************************************************************)
(* The domains of vpopmail in qmail's files: users/assign and its users/cdb, *)
(* rcpthosts, morercpthosts and its cdb, virtualdomains and locals, and the  *)
(* domains' directories.  vadddomain(), vaddaliasdomain() and vdeldomain()   *)
(* change the files one after the other, each under a lock of its own; the   *)
(* cdb files are compiled without a lock.  A program may find a lock busy    *)
(* for too long, or be killed.                                               *)
(***************************************************************************)
EXTENDS Integers, FiniteSets

CONSTANTS
  Procs, Domains,
  Aliases,              \* the domains that are only added as aliases
  Full,                 \* the lines of rcpthosts that make it full: 50
  Killed,               \* bound: programs killed
  Impatient,            \* may a program give up on a lock
  Together              \* may programs compile at the same time

VDomainsAssumption ==
  /\ Aliases \subseteq Domains /\ Full \in Nat \ {0} /\ Killed \in Nat /\ {Impatient, Together} \subseteq BOOLEAN

VARIABLES
  file,                 \* per text file: its lines [dom, real, by]
  cdb,                  \* per compiled file: the lines that were compiled
  dirs,                 \* domains with a directory
  pc, job,              \* per program; job: [op, dom, real, doms, snap]
  kills,
  said,                 \* ghost: per domain, what the last program that worked on it said
  hurt                  \* ghost: domains that a program left half done without saying so

vars == <<file, cdb, dirs, pc, job, kills, said, hurt>>

Texts == {"assign", "rcpthosts", "morercpthosts", "virtualdomains", "locals"}
Compiled == {"assign", "morercpthosts"}
NoJob == [op |-> "none", dom |-> "none", real |-> "none", doms |-> {}, snap |-> {}]
Line(d, r, p) == [dom |-> d, real |-> r, by |-> p]

Init ==
  /\ \E here \in SUBSET Domains :
       file = [f \in Texts |-> IF f = "locals" THEN {Line(d, d, "admin") : d \in here} ELSE {}]
  /\ cdb = [f \in Compiled |-> {}] /\ dirs = {}
  /\ pc = [p \in Procs |-> "idle"] /\ job = [p \in Procs |-> NoJob] /\ kills = 0
  /\ said = [d \in Domains |-> "gone"] /\ hurt = {}

Go(p, to) == pc' = [pc EXCEPT ![p] = to]
Active == {p \in Procs : pc[p] \notin {"idle", "end"}}
Touched(p) == job[p].doms \cup {job[p].dom, job[p].real}
End(p, what) ==
  /\ Go(p, "end")
  /\ said' = [d \in Domains |-> IF d \in job[p].doms THEN what ELSE said[d]]

-----------------------------------------------------------------------------
(* vget_assign(): users/cdb, and the real name of an alias.  Nobody works on   *)
(* a domain, or on one it is an alias of, while another does.                *)
Real(d) == {l.real : l \in {x \in cdb["assign"] : x.dom = d}}

Start(p, op, d, r, doms, to) ==
  /\ pc[p] = "idle"
  /\ \A q \in Active : Touched(q) \cap (doms \cup {d, r}) = {}
  /\ job' = [job EXCEPT ![p] = [op |-> op, dom |-> d, real |-> r, doms |-> doms, snap |-> {}]]
  /\ Go(p, to)
  /\ said' = [e \in Domains |-> IF e \in doms THEN "unknown" ELSE said[e]]
  /\ UNCHANGED <<file, cdb, dirs, kills, hurt>>

AddDomain(p) == \E d \in Domains \ Aliases : Real(d) = {} /\ Start(p, "add", d, d, {d}, "mkdir")
AddAlias(p) == \E d \in Aliases, r \in Domains \ Aliases :
                 Real(d) = {} /\ Real(r) # {} /\ Start(p, "alias", d, r, {d}, "assign")

(* vdeldomain(): an alias by itself, a real domain with all its aliases, as   *)
(* get_domain_entries() finds them in users/assign.                          *)
DelAlias(p) == \E d \in Domains : \E r \in Real(d) \ {d} : Start(p, "del", d, r, {d}, "no_rcpthosts")
DelDomain(p) ==
  \E d \in Domains :
    d \in Real(d) /\ Start(p, "del", d, d, {l.dom : l \in {x \in file["assign"] : x.real = d}}, "rmdir")
DelUnknown(p) == \E d \in Domains : Real(d) = {} /\ Start(p, "del", d, d, {}, "end")

-----------------------------------------------------------------------------
MakeDir(p) ==
  /\ pc[p] = "mkdir" /\ dirs' = dirs \cup {job[p].dom} /\ Go(p, "assign")
  /\ UNCHANGED <<file, cdb, job, kills, said, hurt>>

RemoveDir(p) ==
  /\ pc[p] = "rmdir" /\ dirs' = dirs \ {job[p].dom} /\ Go(p, "no_rcpthosts")
  /\ UNCHANGED <<file, cdb, job, kills, said, hurt>>

(* update_file(), remove_lines(): the lock, the new file, rename().          *)
Update(p, f, to) ==
  /\ file' = [file EXCEPT ![f] = @ \cup {Line(job[p].dom, job[p].real, p)}]
  /\ Go(p, to)
  /\ UNCHANGED <<cdb, dirs, job, kills, said, hurt>>

Matching(p, f) == {l \in file[f] : l.dom \in job[p].doms /\ (f = "assign" => l.real = job[p].real)}

(* add_domain_assign()                                                       *)
AddAssign(p) == pc[p] = "assign" /\ Update(p, "assign", "compile_assign")
Count(p) ==
  /\ pc[p] = "count" /\ Go(p, IF Cardinality(file["rcpthosts"]) >= Full THEN "morercpthosts" ELSE "rcpthosts")
  /\ UNCHANGED <<file, cdb, dirs, job, kills, said, hurt>>
AddRcpthosts(p) == pc[p] = "rcpthosts" /\ Update(p, "rcpthosts", "virtualdomains")
AddMore(p) == pc[p] = "morercpthosts" /\ Update(p, "morercpthosts", "compile_morercpthosts")
AddVirtual(p) == pc[p] = "virtualdomains" /\ Update(p, "virtualdomains", "no_locals")
(* A wrong version: the domain stays in locals. *)
KeepLocals(p) ==
  /\ pc[p] = "no_locals" /\ file' = file
  /\ End(p, "there")
  /\ UNCHANGED <<cdb, dirs, job, kills, hurt>>

NoLocals(p) ==
  /\ pc[p] = "no_locals" /\ file' = [file EXCEPT !["locals"] = @ \ Matching(p, "locals")]
  /\ End(p, "there")
  /\ UNCHANGED <<cdb, dirs, job, kills, hurt>>

(* A lock is busy for too long: vadddomain() removes the directory and fails, *)
(* vaddaliasdomain() does not look at the result.                            *)
AddBusy(p) ==
  /\ Impatient /\ Active # {p}
  /\ pc[p] \in {"assign", "rcpthosts", "morercpthosts", "virtualdomains", "no_locals"}
  /\ IF job[p].op = "add"
     THEN dirs' = dirs \ {job[p].dom} /\ End(p, "unknown") /\ UNCHANGED hurt
     ELSE End(p, "there") /\ hurt' = hurt \cup job[p].doms /\ UNCHANGED dirs
  /\ UNCHANGED <<file, cdb, job, kills>>

-----------------------------------------------------------------------------
(* A wrong version: morercpthosts is never looked at. *)
DelRcpthostsOnly(p) ==
  /\ pc[p] = "no_rcpthosts"
  /\ file' = [file EXCEPT !["rcpthosts"] = @ \ Matching(p, "rcpthosts")]
  /\ Go(p, "no_virtualdomains")
  /\ UNCHANGED <<cdb, dirs, job, kills, said, hurt>>

(* del_control(): morercpthosts only if nothing was found in rcpthosts, and   *)
(* compiled only if exactly one line was removed from it.                    *)
DelRcpthosts(p) ==
  /\ pc[p] = "no_rcpthosts"
  /\ file' = [file EXCEPT !["rcpthosts"] = @ \ Matching(p, "rcpthosts")]
  /\ IF Matching(p, "rcpthosts") = {}
     THEN Go(p, "no_morercpthosts") /\ UNCHANGED hurt
     ELSE Go(p, "no_virtualdomains") /\ hurt' = hurt \cup {l.dom : l \in Matching(p, "morercpthosts")}
  /\ UNCHANGED <<cdb, dirs, job, kills, said>>

(* A wrong version: the cdb is left as it is. *)
DelMoreText(p) ==
  /\ pc[p] = "no_morercpthosts"
  /\ file' = [file EXCEPT !["morercpthosts"] = @ \ Matching(p, "morercpthosts")]
  /\ Go(p, "no_virtualdomains")
  /\ UNCHANGED <<cdb, dirs, job, kills, said, hurt>>

DelMore(p) ==
  /\ pc[p] = "no_morercpthosts"
  /\ LET left == file["morercpthosts"] \ Matching(p, "morercpthosts")
         one == Cardinality(Matching(p, "morercpthosts")) = 1
     IN /\ file' = [file EXCEPT !["morercpthosts"] = left]
        /\ one /\ left = {} => Together \/ \A q \in Procs : pc[q] # "rename_morercpthosts"
        /\ cdb' = (IF one /\ left = {} THEN [cdb EXCEPT !["morercpthosts"] = {}] ELSE cdb)
        /\ Go(p, IF one /\ left # {} THEN "compile_morercpthosts" ELSE "no_virtualdomains")
        /\ hurt' = (IF one THEN hurt ELSE hurt \cup {l.dom : l \in Matching(p, "morercpthosts")})
  /\ UNCHANGED <<dirs, job, kills, said>>

DelVirtual(p) ==
  /\ pc[p] = "no_virtualdomains"
  /\ file' = [file EXCEPT !["virtualdomains"] = @ \ Matching(p, "virtualdomains")]
  /\ Go(p, "no_assign")
  /\ UNCHANGED <<cdb, dirs, job, kills, said, hurt>>

(* del_domain_assign()                                                       *)
DelAssign(p) ==
  /\ pc[p] = "no_assign"
  /\ file' = [file EXCEPT !["assign"] = @ \ Matching(p, "assign")]
  /\ Go(p, "compile_assign")
  /\ UNCHANGED <<cdb, dirs, job, kills, said, hurt>>

(* vdeldomain() warns and goes on with the next file.                        *)
Following(p) == CASE pc[p] = "no_rcpthosts" -> "no_virtualdomains"
              [] pc[p] = "no_morercpthosts" -> "no_virtualdomains"
              [] pc[p] = "no_virtualdomains" -> "no_assign"
DelBusy(p) ==
  /\ Impatient /\ Active # {p}
  /\ pc[p] \in {"no_rcpthosts", "no_morercpthosts", "no_virtualdomains", "no_assign"}
  /\ IF pc[p] = "no_assign" THEN End(p, "unknown") ELSE Go(p, Following(p)) /\ UNCHANGED said
  /\ hurt' = (IF pc[p] \in {"no_rcpthosts", "no_morercpthosts"} THEN hurt \cup job[p].doms ELSE hurt)
  /\ job' = [job EXCEPT ![p].op = "warned"]
  /\ UNCHANGED <<file, cdb, dirs, kills>>

-----------------------------------------------------------------------------
(* qmail-newu, qmail-newmrh: the text is read into a cdb.tmp that all share,  *)
(* then it is renamed: what is compiled is what one of those running read.    *)
CompileAt == [assign |-> "compile_assign", morercpthosts |-> "compile_morercpthosts"]
RenameAt == [assign |-> "rename_assign", morercpthosts |-> "rename_morercpthosts"]
CompileRead(p, f) ==
  /\ pc[p] = CompileAt[f] /\ Go(p, RenameAt[f])
  /\ Together \/ \A q \in Procs : pc[q] # RenameAt[f]
  /\ job' = [job EXCEPT ![p].snap = file[f]]
  /\ UNCHANGED <<file, cdb, dirs, kills, said, hurt>>

Deleting(p) == job[p].op \in {"del", "warned"}
After(p, f) ==
  CASE Deleting(p) /\ f = "assign" -> "end"
    [] Deleting(p) /\ f # "assign" -> "no_virtualdomains"
    [] ~Deleting(p) /\ f = "assign" -> "count"
    [] OTHER -> "virtualdomains"

CompileEnd(p, f) ==
  /\ pc[p] = RenameAt[f]
  /\ \E q \in {x \in Procs : pc[x] = RenameAt[f]} : cdb' = [cdb EXCEPT ![f] = job[q].snap]
  /\ IF After(p, f) = "end"
     THEN End(p, IF job[p].op = "del" THEN "gone" ELSE "unknown")
     ELSE Go(p, After(p, f)) /\ UNCHANGED said
  /\ UNCHANGED <<file, dirs, job, kills, hurt>>

Kill(p) ==
  /\ p \in Active /\ kills < Killed /\ kills' = kills + 1 /\ Go(p, "end")
  /\ hurt' = (IF \E f \in Compiled : pc[p] \in {CompileAt[f], RenameAt[f]} THEN hurt \cup job[p].doms ELSE hurt)
  /\ UNCHANGED <<file, cdb, dirs, job, said>>

Next ==
  \E p \in Procs :
    \/ AddDomain(p) \/ AddAlias(p) \/ DelAlias(p) \/ DelDomain(p) \/ DelUnknown(p)
    \/ MakeDir(p) \/ RemoveDir(p) \/ AddAssign(p) \/ Count(p) \/ AddRcpthosts(p) \/ AddMore(p)
    \/ AddVirtual(p) \/ NoLocals(p) \/ AddBusy(p) \/ DelRcpthosts(p) \/ DelMore(p) \/ DelVirtual(p)
    \/ DelAssign(p) \/ DelBusy(p) \/ Kill(p)
    \/ \E f \in Compiled : CompileRead(p, f) \/ CompileEnd(p, f)
Spec == Init /\ [][Next]_vars

-----------------------------------------------------------------------------
In(d, lines) == \E l \in lines : l.dom = d
Accepted(d) == In(d, file["rcpthosts"]) \/ In(d, cdb["morercpthosts"])

Served(d) ==
  /\ Accepted(d) /\ In(d, cdb["assign"]) /\ In(d, file["virtualdomains"]) /\ ~In(d, file["locals"])
  /\ d \notin Aliases => d \in dirs
Gone(d) ==
  d \notin dirs /\ ~\E f \in Texts \ {"locals"} : In(d, file[f]) \/ (f \in Compiled /\ In(d, cdb[f]))

(* A domain whose mail is accepted is in users/assign: it is put there first  *)
(* and taken away last, ...                                                  *)
AcceptedIsAssigned(S) == \A d \in S : Accepted(d) => In(d, file["assign"])

(* ... one that a program said was added, and nobody has worked on since, is  *)
(* in every file that leads mail to it, ...                                  *)
AddedIsServed(S) == \A d \in S : said[d] = "there" => Served(d)

(* ... and one that a program said was deleted has left no trace.            *)
DeletedIsGone(S) == \A d \in S : said[d] = "gone" => Gone(d)

(* All this of the domains that are not hurt; and none is without a kill, a   *)
(* lock that was busy for too long, or an alias.                             *)
Sound == Domains \ hurt
HurtForCause == hurt # {} => kills > 0 \/ Impatient \/ Aliases # {}

(* A vdeldomain() that ends by itself has removed what there was of the       *)
(* domain, if no other has worked on it meanwhile.                           *)
PartialRemoved ==
  [][\A p \in Procs : pc[p] = "idle" /\ pc'[p] = "end" /\ job'[p].op = "del" =>
       ~In(job'[p].dom, file["assign"])]_vars
=============================================================================
