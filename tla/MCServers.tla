------------------------------ MODULE MCServers ------------------------------
(* Instances of the programs that keep services running, take connections and *)
(* talk to clients. They share no state: a behaviour is one of the part that  *)
(* runs. A component with proofs is taken with them.                          *)
EXTENDS Naturals, FiniteSets, Sequences

CONSTANTS
  None,
  SvcLetters,                      \* of the commands to supervise
  Listings, Folders, LoggedFolders, TableSize, Renames, SuperviseDeaths, ScanFails,   \* of svscan
  LogSize, LineEndRoom, LogFiles, LogLines, LogKills, PowerFailures,  \* of multilog
  Tcpservers,                      \* records of a part and the constants of TcpServer
  Senders, BarredSenders, Rcpts, BarredRcpts, OurRcpts, RcptMax, Letters,       \* of qmail-smtpd
  ByteLimit, AuthByteLimit, SpfBytes, LetterSizes, IntWidth,                    \* its databytes
  Connections, HoldTime, GoneAge, OnceAge, ClockEnd, Cleanings,   \* of the entry of jgreylist
  TalkRcpts, TalkLines             \* of its conversation

VARIABLES
  part,        \* the part that runs
  sv_pc, want, wantup, flagexit, paused, up, sv_child, term, sigchld, pipe, fifo, sv_sent,
  status,
  scan_pc, unread, names, x, procs, dead, changes, deaths, fails,
  processor, log_pc, fin, written, got, buf, exitasap, log_file, linked, old, dropped, logged,
  kills, crashes,
  tcp_pc, t, numchildren, tcp_child, pending, waiting, rules, seen, tcp_verdict, faults,
  hash, records, head, cdb_pc, tables, key, loop, found,
  smtp_pc, ssl, authd, relayclient, databytes, seenmail, mailfrom, rcptto, rcptcounter,
  rcptcount, flagbarfbmf, flagbarfbrt, flagbarfbhelo, bytestooverflow, queue, told, granted,
  unfair, oversize, begun,
  now, dir, grey_file, grey_pc, sb, at, grey_verdict, cpc, cnow, sweeps, met, swept,
  talk_pc, cmd, timer, alarm_received, rcpt_count, input, open, talk_sent, rcpts, last, late

svVars == <<sv_pc, want, wantup, flagexit, paused, up, sv_child, term, sigchld, pipe, fifo,
    sv_sent, status>>
scanVars == <<scan_pc, unread, names, x, procs, dead, changes, deaths, fails>>
logVars == <<processor, log_pc, fin, written, got, buf, exitasap, log_file, linked, old, dropped,
    logged, kills, crashes>>
tcpVars == <<tcp_pc, t, numchildren, tcp_child, pending, waiting, rules, seen, tcp_verdict,
    faults>>
cdbVars == <<hash, records, head, cdb_pc, tables, key, loop, found>>
smtpVars == <<smtp_pc, ssl, authd, relayclient, databytes, seenmail, mailfrom, rcptto,
    rcptcounter, rcptcount, flagbarfbmf, flagbarfbrt, flagbarfbhelo, bytestooverflow, queue,
    told, granted, unfair, oversize, begun>>
greyVars == <<now, dir, grey_file, grey_pc, sb, at, grey_verdict, cpc, cnow, sweeps, met,
    swept>>
talkVars == <<talk_pc, cmd, timer, alarm_received, rcpt_count, input, open, talk_sent, rcpts,
    last, late>>
vars == <<part, svVars, scanVars, logVars, tcpVars, cdbVars, smtpVars, greyVars, talkVars>>

Service == INSTANCE Supervise WITH Commands <- {"d", "u", "o", "t", "k", "p", "c", "x"},
    MaxSvc <- SvcLetters, ForkFails <- FALSE, pc <- sv_pc, child <- sv_child, sent <- sv_sent
NoFork == INSTANCE Supervise WITH Commands <- {"d", "u", "o", "t", "k", "p", "c", "x"},
    MaxSvc <- SvcLetters, ForkFails <- TRUE, pc <- sv_pc, child <- sv_child, sent <- sv_sent

Scan == INSTANCE SvScan WITH Names <- Listings, Inodes <- Folders, Logged <- LoggedFolders,
    SERVICES <- TableSize, Changes <- Renames, Deaths <- SuperviseDeaths, Fails <- ScanFails,
    pc <- scan_pc

Log == INSTANCE MultilogSafety WITH Size <- LogSize, Slack <- LineEndRoom, Num <- LogFiles,
    Lines <- LogLines, Kills <- LogKills, Crashes <- PowerFailures, pc <- log_pc, file <- log_file

MCTcpservers ==
  {[part |-> "tcpserver", limit |-> 2, clients |-> {"c1", "c2", "c3"}, unreadable |-> FALSE, faults |-> 1],
   [part |-> "full tcpserver", limit |-> 1, clients |-> {"c1", "c2", "c3"}, unreadable |-> TRUE, faults |-> 1]}

Tcp(k) == INSTANCE TcpServer WITH limit <- k.limit, Clients <- k.clients, Unreadable <- k.unreadable,
    Faults <- k.faults, pc <- tcp_pc, child <- tcp_child, verdict <- tcp_verdict

File == INSTANCE Cdb WITH Keys <- {"k1", "k2", "k3"}, Records <- 3, HPLIST <- 2, Tables <- 2,
    Hashes <- 2, pc <- cdb_pc

Smtp == INSTANCE SmtpSession WITH BadFrom <- BarredSenders, BadRcpt <- BarredRcpts,
    Locals <- OurRcpts, NoRelayFile <- FALSE, RelayClient <- FALSE, ForceTls <- FALSE,
    RequireAuth <- FALSE, MaxRcpt <- RcptMax, Databytes <- ByteLimit, AuthBytes <- AuthByteLimit,
    SpfHeader <- SpfBytes, Sizes <- LetterSizes, Width <- IntWidth, Messages <- Letters,
    pc <- smtp_pc
Strict == INSTANCE SmtpSession WITH BadFrom <- BarredSenders, BadRcpt <- BarredRcpts,
    Locals <- OurRcpts, NoRelayFile <- FALSE, RelayClient <- FALSE, ForceTls <- TRUE,
    RequireAuth <- TRUE, MaxRcpt <- RcptMax, Databytes <- ByteLimit, AuthBytes <- AuthByteLimit,
    SpfHeader <- SpfBytes, Sizes <- LetterSizes, Width <- IntWidth, Messages <- Letters,
    pc <- smtp_pc

Grey == INSTANCE Greylist WITH Procs <- Connections, Hold <- HoldTime, MaxAge <- GoneAge,
    OneAge <- OnceAge, MaxTime <- ClockEnd, Sweeps <- Cleanings, file <- grey_file,
    pc <- grey_pc, verdict <- grey_verdict

Talk == INSTANCE GreylistTalk WITH Limit <- TalkRcpts, Lines <- TalkLines, pc <- talk_pc,
    sent <- talk_sent

ASSUME InstancesAssumption ==
  /\ Service!SuperviseAssumption /\ NoFork!SuperviseAssumption /\ Scan!SvScanAssumption
  /\ Log!MultilogAssumption
  /\ \A k \in Tcpservers : Tcp(k)!TcpServerAssumption /\ \A j \in Tcpservers : j.part = k.part => j = k
  /\ Tcpservers # {} /\ File!CdbAssumption /\ Smtp!SmtpSessionAssumption
  /\ Strict!SmtpSessionAssumption /\ Grey!GreylistAssumption /\ Talk!GreylistTalkAssumption

TcpParts == {k.part : k \in Tcpservers}
(* The instance of a part that runs, or any one.                              *)
MayBeTcp(k) == k.part = part \/ (part \notin TcpParts /\ k = CHOOSE j \in Tcpservers : TRUE)

Init ==
  /\ part \in {"supervise", "supervise without fork", "svscan", "multilog",
        "cdb", "smtp", "smtp on terms", "greylist", "greylist talk"} \cup TcpParts
  /\ IF part = "supervise without fork" THEN NoFork!Init ELSE Service!Init
  /\ part \in {"supervise", "supervise without fork"} \/ (want /\ wantup)
  /\ Scan!Init
  /\ part = "svscan" \/ names = [n \in Listings |-> None]
  /\ Log!Init
  /\ part = "multilog" \/ ~processor
  /\ \E k \in Tcpservers : MayBeTcp(k) /\ Tcp(k)!Init
  /\ part \in TcpParts \/ rules = "allow"
  /\ File!Init
  /\ part = "cdb" \/ <<hash, key>> = <<[k \in {"k1", "k2", "k3"} |-> [table |-> 0, high |-> 0]], "k1">>
  /\ Smtp!Init
  /\ Grey!Init
  /\ Talk!Init

Supervises ==
  /\ \/ part = "supervise" /\ Service!Next
     \/ part = "supervise without fork" /\ NoFork!Next
  /\ UNCHANGED <<part, scanVars, logVars, tcpVars, cdbVars, smtpVars, greyVars, talkVars>>

Scans ==
  /\ part = "svscan" /\ Scan!Next
  /\ UNCHANGED <<part, svVars, logVars, tcpVars, cdbVars, smtpVars, greyVars, talkVars>>

Logs ==
  /\ part = "multilog" /\ Log!Next
  /\ UNCHANGED <<part, svVars, scanVars, tcpVars, cdbVars, smtpVars, greyVars, talkVars>>

TakesConnections ==
  /\ \E k \in Tcpservers : part = k.part /\ Tcp(k)!Next
  /\ UNCHANGED <<part, svVars, scanVars, logVars, cdbVars, smtpVars, greyVars, talkVars>>

LooksUp ==
  /\ part = "cdb" /\ File!Next
  /\ UNCHANGED <<part, svVars, scanVars, logVars, tcpVars, smtpVars, greyVars, talkVars>>

TalksSmtp ==
  /\ \/ part = "smtp" /\ Smtp!Next
     \/ part = "smtp on terms" /\ Strict!Next
  /\ UNCHANGED <<part, svVars, scanVars, logVars, tcpVars, cdbVars, greyVars, talkVars>>

Greylists ==
  /\ part = "greylist" /\ Grey!Next
  /\ UNCHANGED <<part, svVars, scanVars, logVars, tcpVars, cdbVars, smtpVars, talkVars>>

TalksBack ==
  /\ part = "greylist talk" /\ Talk!Next
  /\ UNCHANGED <<part, svVars, scanVars, logVars, tcpVars, cdbVars, smtpVars, greyVars>>

Next == Supervises \/ Scans \/ Logs \/ TakesConnections \/ LooksUp \/ TalksSmtp \/ Greylists \/
        TalksBack

Spec == Init /\ [][Next]_vars

-----------------------------------------------------------------------------
(* What svstat reads is so, unless the child has just died, and supervise     *)
(* goes away only without its service, and only when told to; however names   *)
(* and processes come and go, a service and its log never have two supervise  *)
(* processes, none is lost sight of, and the two are at the ends of one pipe. *)
ServicesKept ==
  /\ part = "supervise" => Service!TypeOK /\ Service!StatusTells /\ Service!GoneIsAlone
  /\ part = "supervise without fork" => NoFork!TypeOK /\ NoFork!StatusTells /\ NoFork!GoneIsAlone
  /\ part = "svscan" => Scan!TypeOK /\ Scan!OneSupervise /\ Scan!NoneForgotten /\ Scan!SamePipe

(* Wherever multilog is killed, what was written is kept once and in order    *)
(* until its file is removed; an old file marked as safe survives a crash;    *)
(* what multilog read is written, and it ends between two lines; and the      *)
(* number of old files stays bounded.                                         *)
LogKept ==
  part = "multilog" =>
    /\ Log!TypeOK /\ Log!KeptOnce /\ Log!SafeIsWhole /\ Log!EndsBetweenLines
    /\ Log!NothingLost /\ Log!RoomIsMade

(* However signals and accept() interleave, tcpserver's count is that of its  *)
(* children and the limit holds; a client is served only under rules in force *)
(* that allow it.                                                             *)
ConnectionsCounted ==
  \A k \in Tcpservers : part = k.part =>
    Tcp(k)!TypeOK /\ Tcp(k)!CountExact /\ Tcp(k)!LimitKept /\ Tcp(k)!JudgedByTheRules

(* cdb_findnext() returns the records of a key in the order they were added,  *)
(* and every table has free slots, so that a search ends.                     *)
CdbFinds == part = "cdb" => File!TypeOK /\ File!FindsAll /\ File!HalfEmpty

(* Whatever commands came before, a message that is queued has the sender and *)
(* the recipients that were answered 250 since the last MAIL, on the terms    *)
(* that hold for them and no longer than the limit in force; nobody is        *)
(* refused for the size or the recipients of another message.                 *)
SmtpAsAnswered ==
  /\ part = "smtp" =>
       Smtp!TypeOK /\ Smtp!EnvelopeGranted /\ Smtp!OnTerms /\ Smtp!CountForPlugins /\
       Smtp!SizeKept /\ Smtp!NotOversize /\ Smtp!BarredForCause
  /\ part = "smtp on terms" => Strict!TypeOK /\ Strict!EnvelopeGranted /\ Strict!OnTerms

(* A connection is let in only if another was refused the hold time before,   *)
(* is refused only within the hold of one, and is dropped only by the         *)
(* cleaner; a client gets no more than the limit of recipients, and no answer *)
(* after the last.                                                            *)
GreylistHolds ==
  /\ part = "greylist" => Grey!HeldBack /\ Grey!GreyForCause /\ Grey!DiesOnlyBySweep
  /\ part = "greylist talk" => Talk!LimitKept

(* A service that is wanted runs, one that is not stops, and supervise ends   *)
(* when told to; what is listed for svscan runs in the end; a connection in   *)
(* the backlog is taken; and a greylisted conversation with a client that     *)
(* goes ends.                                                                 *)
ServersFollow ==
  /\ (part = "supervise" /\ Service!Fairness => Service!WantedRuns)
  /\ (part = "supervise without fork" /\ NoFork!Fairness =>
       NoFork!UnwantedStops /\ NoFork!ExitEnds)
  /\ (part = "svscan" /\ Scan!Fairness => Scan!ListedRuns)
  /\ \A k \in Tcpservers : part = k.part /\ Tcp(k)!Fairness => Tcp(k)!Taken
  /\ (part = "greylist talk" /\ Talk!Fairness => Talk!Ends)

=============================================================================
