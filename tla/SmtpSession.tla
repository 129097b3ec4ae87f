------------------------------- MODULE SmtpSession -------------------------------
(***************************************************************************)
(* One connection to qmail-smtpd: a client that sends commands in any order, *)
(* the state they leave behind, and what of it ends up in the queue.  HELO   *)
(* and RSET drop a message halfway, AUTH and STARTTLS change what is         *)
(* allowed, a plugin or the queue may refuse, and the client may go at any   *)
(* point, also in the middle of a message or before it reads the answer.     *)
(***************************************************************************)
EXTENDS Naturals, SequencesExt

CONSTANTS
  Senders, Rcpts,
  BadFrom,               \* senders listed in badmailfrom
  BadRcpt,               \* recipients listed in the file of bad recipients
  Locals,                \* recipients that rcpthosts allows
  NoRelayFile,           \* that file is badrcpttonorelay, and badrcptto is missing
  RelayClient,           \* RELAYCLIENT is set
  ForceTls, RequireAuth,
  MaxRcpt,               \* maxrcpt; 0 for none
  Databytes, AuthBytes,  \* databytes, and what AUTH makes of it; 0 for none
  SpfHeader,             \* length of the Received-SPF line; 0 without SPF
  Sizes,                 \* sizes of messages that clients send
  Width,                 \* of an unsigned int: 2^32 in the source
  Messages               \* bound on messages that are begun

SmtpSessionAssumption ==
  /\ BadFrom \subseteq Senders /\ BadRcpt \cup Locals \subseteq Rcpts
  /\ {NoRelayFile, RelayClient, ForceTls, RequireAuth} \subseteq BOOLEAN
  /\ {MaxRcpt, Databytes, AuthBytes, SpfHeader, Messages} \cup Sizes \subseteq Nat /\ Width \in Nat \ {0}
  /\ \A n \in Sizes \cup {Databytes + 1, AuthBytes + 1, SpfHeader} : n < Width

VARIABLES
  pc,            \* "command", "body" after 354, "reply", "gone"
  ssl, authd, relayclient, databytes,
  seenmail, mailfrom, rcptto, rcptcounter,
  rcptcount,     \* of qmail-spp.c
  flagbarfbmf, flagbarfbrt, flagbarfbhelo,
  bytestooverflow,
  queue,         \* what qmail-queue has taken: [from, to, size, ssl, authd, limit]
  told,          \* ghost: number of messages the client was told are taken
  granted,       \* ghost: what the answers say the message at hand is: [from, to, ssl, authd, bad]
  unfair,        \* ghost: somebody was refused for a list that names nobody of this message
  oversize,      \* ghost: a message within the limit was refused for its size
  begun

conn == <<ssl, authd, relayclient, databytes>>
txn == <<seenmail, mailfrom, rcptto, rcptcounter, rcptcount, flagbarfbmf, flagbarfbrt>>
ghosts == <<told, unfair, oversize, begun>>
vars == <<pc, conn, txn, flagbarfbhelo, bytestooverflow, queue, granted, ghosts>>

NoFrom == CHOOSE s \in Senders : TRUE
Nothing == [open |-> FALSE, from |-> NoFrom, to |-> <<>>, ssl |-> FALSE, authd |-> FALSE, bad |-> FALSE]

Init ==
  /\ pc = "command" /\ ssl = FALSE /\ authd = FALSE /\ relayclient = RelayClient /\ databytes = Databytes
  /\ seenmail = FALSE /\ mailfrom = NoFrom /\ rcptto = <<>> /\ rcptcounter = 0 /\ rcptcount = 0
  /\ flagbarfbmf = FALSE /\ flagbarfbrt = FALSE /\ flagbarfbhelo = FALSE /\ bytestooverflow = 0
  /\ queue = <<>> /\ told = 0 /\ granted = Nothing /\ unfair = FALSE /\ oversize = FALSE /\ begun = 0

-----------------------------------------------------------------------------
Reset == seenmail' = FALSE /\ UNCHANGED <<mailfrom, rcptto, rcptcounter, flagbarfbmf, flagbarfbrt>>

(* HELO and EHLO; a plugin may refuse the name.                              *)
Helo ==
  /\ pc = "command"
  /\ \E bad \in BOOLEAN : flagbarfbhelo' = bad
  /\ Reset /\ granted' = Nothing
  /\ UNCHANGED <<pc, conn, rcptcount, bytestooverflow, queue, ghosts>>

Rset ==
  /\ pc = "command" /\ Reset /\ rcptcount' = 0 /\ granted' = Nothing
  /\ UNCHANGED <<pc, conn, flagbarfbhelo, bytestooverflow, queue, ghosts>>

(* smtp_auth(): a login that is right makes a relay client, and the          *)
(* environment is read again.                                                *)
Auth ==
  /\ pc = "command" /\ ~authd /\ ~seenmail
  /\ authd' = TRUE /\ relayclient' = TRUE /\ databytes' = AuthBytes
  /\ UNCHANGED <<pc, ssl, txn, flagbarfbhelo, bytestooverflow, queue, granted, ghosts>>

Starttls ==
  /\ pc = "command" /\ ~ssl /\ ssl' = TRUE
  /\ UNCHANGED <<pc, authd, relayclient, databytes, txn, flagbarfbhelo, bytestooverflow, queue, granted, ghosts>>

(* smtp_mail(): the checks of the sender's domain, SPF and the plugins may   *)
(* refuse after the flags have been set.                                     *)
MayMail == pc = "command" /\ ~seenmail /\ (ForceTls => ssl) /\ (RequireAuth => authd)
(* A wrong version: the recipients of the message before are kept. *)
MailAppends ==
  /\ MayMail /\ begun < Messages
  /\ \E s \in Senders :
       /\ flagbarfbmf' = (s \in BadFrom) /\ rcptcount' = 0
       /\ \/ UNCHANGED <<seenmail, mailfrom, rcptto, rcptcounter, granted, begun>>      \* refused
          \/ /\ seenmail' = TRUE /\ rcptto' = rcptto /\ mailfrom' = s /\ rcptcounter' = 0
             /\ granted' = [Nothing EXCEPT !.open = TRUE, !.from = s, !.ssl = ssl, !.authd = authd]
             /\ begun' = begun + 1
  /\ UNCHANGED <<pc, conn, flagbarfbrt, flagbarfbhelo, bytestooverflow, queue, told, unfair, oversize>>

(* A wrong version: qmail-spp.c is not told of a new message. *)
MailSameCount ==
  /\ MayMail /\ begun < Messages
  /\ \E s \in Senders :
       /\ flagbarfbmf' = (s \in BadFrom) /\ rcptcount' = rcptcount
       /\ \/ UNCHANGED <<seenmail, mailfrom, rcptto, rcptcounter, granted, begun>>      \* refused
          \/ /\ seenmail' = TRUE /\ rcptto' = <<>> /\ mailfrom' = s /\ rcptcounter' = 0
             /\ granted' = [Nothing EXCEPT !.open = TRUE, !.from = s, !.ssl = ssl, !.authd = authd]
             /\ begun' = begun + 1
  /\ UNCHANGED <<pc, conn, flagbarfbrt, flagbarfbhelo, bytestooverflow, queue, told, unfair, oversize>>

Mail ==
  /\ MayMail /\ begun < Messages
  /\ \E s \in Senders :
       /\ flagbarfbmf' = (s \in BadFrom) /\ rcptcount' = 0
       /\ \/ UNCHANGED <<seenmail, mailfrom, rcptto, rcptcounter, granted, begun>>      \* refused
          \/ /\ seenmail' = TRUE /\ rcptto' = <<>> /\ mailfrom' = s /\ rcptcounter' = 0
             /\ granted' = [Nothing EXCEPT !.open = TRUE, !.from = s, !.ssl = ssl, !.authd = authd]
             /\ begun' = begun + 1
  /\ UNCHANGED <<pc, conn, flagbarfbrt, flagbarfbhelo, bytestooverflow, queue, told, unfair, oversize>>

(* A wrong version: one bad recipient spoils the session. *)
BarfRcptSticks(r) ==
  IF ~NoRelayFile THEN flagbarfbrt \/ r \in BadRcpt
  ELSE IF ~flagbarfbrt /\ ~relayclient /\ ~authd THEN r \in BadRcpt ELSE flagbarfbrt

(* flagbarfbrt is assigned where the file is there and the client no relay.  *)
BarfRcpt(r) ==
  IF ~NoRelayFile THEN r \in BadRcpt
  ELSE IF ~flagbarfbrt /\ ~relayclient /\ ~authd THEN r \in BadRcpt ELSE flagbarfbrt

(* A wrong version: any recipient is taken. *)
RcptOpen ==
  /\ pc = "command" /\ rcptcounter <= MaxRcpt + 1
  /\ rcptcounter' = rcptcounter + 1
  /\ \E r \in Rcpts :
       IF ~seenmail \/ (MaxRcpt > 0 /\ rcptcounter' > MaxRcpt) \/ flagbarfbhelo \/ flagbarfbmf
       THEN UNCHANGED <<rcptto, rcptcount, flagbarfbrt, granted, unfair>>
       ELSE LET named == granted.bad \/ r \in BadRcpt
            IN /\ flagbarfbrt' = BarfRcpt(r)
               /\ unfair' = (unfair \/ (BarfRcpt(r) /\ ~named))
               /\ \/ /\ ~BarfRcpt(r)
                     /\ rcptto' = Append(rcptto, r) /\ rcptcount' = rcptcount + 1
                     /\ granted' = [granted EXCEPT !.to = Append(@, r), !.bad = named]
                  \/ /\ granted' = [granted EXCEPT !.bad = named]        \* refused, by whatever check
                     /\ UNCHANGED <<rcptto, rcptcount>>
  /\ UNCHANGED <<pc, conn, seenmail, mailfrom, flagbarfbmf, flagbarfbhelo, bytestooverflow, queue, told, oversize, begun>>

Rcpt ==
  /\ pc = "command" /\ rcptcounter <= MaxRcpt + 1
  /\ rcptcounter' = rcptcounter + 1
  /\ \E r \in Rcpts :
       IF ~seenmail \/ (MaxRcpt > 0 /\ rcptcounter' > MaxRcpt) \/ flagbarfbhelo \/ flagbarfbmf
       THEN UNCHANGED <<rcptto, rcptcount, flagbarfbrt, granted, unfair>>
       ELSE LET named == granted.bad \/ r \in BadRcpt
            IN /\ flagbarfbrt' = BarfRcpt(r)
               /\ unfair' = (unfair \/ (BarfRcpt(r) /\ ~named))
               /\ \/ /\ ~BarfRcpt(r) /\ (relayclient \/ r \in Locals)
                     /\ rcptto' = Append(rcptto, r) /\ rcptcount' = rcptcount + 1
                     /\ granted' = [granted EXCEPT !.to = Append(@, r), !.bad = named]
                  \/ /\ granted' = [granted EXCEPT !.bad = named]        \* refused, by whatever check
                     /\ UNCHANGED <<rcptto, rcptcount>>
  /\ UNCHANGED <<pc, conn, seenmail, mailfrom, flagbarfbmf, flagbarfbhelo, bytestooverflow, queue, told, oversize, begun>>

-----------------------------------------------------------------------------
(* smtp_data(): refused by a plugin; or qmail-queue cannot be started        *)
(* although the message is over; or 354.                                     *)

(* Received-SPF is counted in unsigned arithmetic.                           *)
Spf(b) == IF b = 0 \/ SpfHeader = 0 \/ relayclient THEN b ELSE (b + Width - SpfHeader) % Width

(* A wrong version: one byte less is allowed. *)
DataExact ==
  /\ pc = "command" /\ seenmail /\ rcptto # <<>>
  /\ \/ /\ seenmail' = FALSE
        /\ bytestooverflow' = (IF databytes > 0 THEN databytes ELSE bytestooverflow)
        /\ granted' = Nothing /\ UNCHANGED <<pc, rcptcount>>
     \/ /\ seenmail' = FALSE
        /\ bytestooverflow' = Spf(IF databytes > 0 THEN databytes ELSE bytestooverflow)
        /\ rcptcount' = 0 /\ pc' = "body" /\ UNCHANGED granted
  /\ UNCHANGED <<conn, mailfrom, rcptto, rcptcounter, flagbarfbmf, flagbarfbrt, flagbarfbhelo, queue, ghosts>>

Data ==
  /\ pc = "command" /\ seenmail /\ rcptto # <<>>
  /\ \/ /\ seenmail' = FALSE
        /\ bytestooverflow' = (IF databytes > 0 THEN databytes + 1 ELSE bytestooverflow)
        /\ granted' = Nothing /\ UNCHANGED <<pc, rcptcount>>
     \/ /\ seenmail' = FALSE
        /\ bytestooverflow' = Spf(IF databytes > 0 THEN databytes + 1 ELSE bytestooverflow)
        /\ rcptcount' = 0 /\ pc' = "body" /\ UNCHANGED granted
  /\ UNCHANGED <<conn, mailfrom, rcptto, rcptcounter, flagbarfbmf, flagbarfbrt, flagbarfbhelo, queue, ghosts>>

(* blast() to the dot; put() fails the message when the count reaches zero,  *)
(* spfreceived() when it has.  The queue may refuse, or be out of space.     *)
Left(n) == IF bytestooverflow > n THEN bytestooverflow - n ELSE 0
SpfFails == databytes > 0 /\ bytestooverflow = 0
(* A wrong version: only the Received-SPF line is counted. *)
OverflowsSpf(n) == SpfFails

Overflows(n) == SpfFails \/ (bytestooverflow > 0 /\ Left(n) = 0)

Body ==
  /\ pc = "body"
  /\ \E n \in Sizes :
       /\ bytestooverflow' = Left(n)
       /\ oversize' = (oversize \/ (Overflows(n) /\ (databytes = 0 \/ n + SpfHeader <= databytes)))
       /\ \/ /\ ~Overflows(n) /\ pc' = "reply"
             /\ queue' = Append(queue, [from |-> mailfrom, to |-> rcptto, size |-> n, ssl |-> ssl, authd |-> authd,
                                        limit |-> databytes, granted |-> granted])
             /\ UNCHANGED granted
          \/ pc' = "command" /\ granted' = Nothing /\ UNCHANGED queue
  /\ UNCHANGED <<conn, txn, flagbarfbhelo, told, unfair, begun>>

Reply ==
  /\ pc = "reply" /\ pc' = "command" /\ told' = told + 1 /\ granted' = Nothing
  /\ UNCHANGED <<conn, txn, flagbarfbhelo, bytestooverflow, queue, unfair, oversize, begun>>

(* QUIT, a timeout, a bare LF, or the client goes: qmail-queue gets no       *)
(* envelope.                                                                 *)
Gone ==
  /\ pc # "gone" /\ pc' = "gone"
  /\ UNCHANGED <<conn, txn, flagbarfbhelo, bytestooverflow, queue, granted, ghosts>>

Next == Helo \/ Rset \/ Auth \/ Starttls \/ Mail \/ Rcpt \/ Data \/ Body \/ Reply \/ Gone
Spec == Init /\ [][Next]_vars

-----------------------------------------------------------------------------
TypeOK ==
  /\ pc \in {"command", "body", "reply", "gone"} /\ {ssl, authd, relayclient, seenmail} \subseteq BOOLEAN
  /\ bytestooverflow \in 0 .. Width - 1 /\ rcptcount \in 0 .. Len(rcptto)
  /\ Len(queue) - told \in (IF pc \in {"reply", "gone"} THEN 0 .. 1 ELSE {0})

(* Whatever came before it, a message that is queued has the sender and the  *)
(* recipients that were answered 250 since the last MAIL, and no others.     *)
EnvelopeGranted ==
  \A i \in DOMAIN queue :
    LET q == queue[i] IN q.granted.open /\ q.from = q.granted.from /\ q.to = q.granted.to /\ q.to # <<>>

(* MAIL was given under the terms that hold: over TLS and after AUTH if they *)
(* are required; a recipient elsewhere only from a relay client.             *)
OnTerms ==
  \A i \in DOMAIN queue :
    LET q == queue[i]
    IN /\ ForceTls => q.granted.ssl
       /\ RequireAuth => q.granted.authd
       /\ q.from \notin BadFrom
       /\ MaxRcpt > 0 => Len(q.to) <= MaxRcpt
       /\ ToSet(q.to) \subseteq Locals \/ RelayClient \/ q.granted.authd

(* rcptcount, which plugins see, is the number of recipients taken so far.   *)
CountForPlugins == seenmail => rcptcount = Len(rcptto)

(* A message that is queued is no longer than the limit that was in force.   *)
SizeKept == \A i \in DOMAIN queue : queue[i].limit > 0 => queue[i].size <= queue[i].limit

(* A message within the limit in force is not refused for its size.          *)
NotOversize == ~oversize

(* A recipient is refused as bad only if one of this message is listed.      *)
BarredForCause == ~unfair
=============================================================================
