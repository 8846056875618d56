------------------------------ MODULE Receive ------------------------------
(* One inbound SMTP session: smtp_receive and its command handlers
   (receive.c), from the connection to the exit of the receiving process.

   A message is a number, given out by env_create.  Of a message's text only
   what f_data tells apart is kept: whether it was read whole, was too large,
   had been seen before, or met a system error.  The clock is abstracted: a
   timer may run out whenever the code waits with it.  A reply of the class
   421 or 221 ends the session, any other goes on unless it cannot be written.

   Steps of f_data are separate because the process may be killed between
   them; every other handler is one step.  env_*, bounce() and q_runner are used
   through the files they leave; QueueRunner models what q_runner does next. *)
EXTENDS Integers, FiniteSets

CONSTANTS
    MaxMail,          \* bound: envelopes created in the session
    MaxFailedRcpts,   \* simta_max_failed_rcpts, 0 for no limit
    MaxFaults,        \* bound: disk, memory and clock errors in the session
    Confs,            \* the configurations looked at
    FilterResults,    \* exit codes of the content filter, as sets of bits
    Killable          \* may the receiver be killed

Modes == {"NORMAL", "OFF", "REFUSE", "GLOBAL_RELAY", "TEMPFAIL", "TARPIT", "NOAUTH"}
Bits  == {"TEMPFAIL", "REJECT", "DELETE", "DISCONNECT", "TARPIT", "JAIL", "BOUNCE"}

(* default, punish: SMTP modes of the configuration; sasl, tls: offered;
   size: MAX_MESSAGE_SIZE is set; filter: a content filter is configured, with
   its checksum; jail: a jail host is; accepted: the accepted message timer. *)
ConfType ==
    [default: Modes \ {"NOAUTH"}, punish: {"TEMPFAIL", "TARPIT", "OFF"},
     sasl: BOOLEAN, tls: BOOLEAN, size: BOOLEAN, filter: BOOLEAN,
     jail: BOOLEAN, accepted: BOOLEAN]

ASSUME ReceiveAssumption ==
    /\ MaxMail \in Nat \ {0} /\ MaxFailedRcpts \in Nat /\ MaxFaults \in Nat
    /\ Confs \subseteq ConfType /\ FilterResults \subseteq SUBSET Bits
    /\ Killable \in BOOLEAN

VARIABLES
    conf,      \* the configuration
    pc,        \* where the process is
    mode,      \* r_smtp_mode
    auth,      \* r_auth
    tls,       \* r_tls
    ext,       \* simta_smtp_extension
    failed,    \* r_failed_rcpts
    timer,     \* r_tv_accepted is set
    env,       \* r_env
    data,      \* the locals of f_data
    md,        \* r_mdctx_status and, as a set of messages, what was digested
    fast,      \* fast[m]: the names of m in the fast directory
    created,   \* number of envelopes created
    queued,    \* mail and bounces in the in-memory queue
    run,       \* mail and bounces q_runner was given
    answer,    \* answer[m]: the reply to m's data
    verdict,   \* verdict[m]: what the content filter returned for m
    seen,      \* messages with a Seen-Before header of this domain
    faults     \* errors so far

session == <<conf, mode, auth, tls, ext, failed, timer>>
history == <<answer, verdict, seen>>
spool   == <<fast, queued, run>>
vars == <<conf, pc, mode, auth, tls, ext, failed, timer, env, data, md, fast,
          created, queued, run, answer, verdict, seen, faults>>

Mail == 1 .. MaxMail
NoEnv == [id |-> 0, rcpt |-> FALSE, flags |-> {}, tls |-> FALSE]
NoData == [banner |-> "TEMPFAIL", err |-> "NO", open |-> FALSE, bits |-> {},
           ret |-> "SYSERROR", gave |-> FALSE]
MailItem(m)   == <<m, "mail">>
BounceItem(m) == <<m, "bounce">>

(* An error of the disk, the clock or memory. *)
Fault == faults < MaxFaults /\ faults' = faults + 1
NoFault == UNCHANGED faults

----------------------------------------------------------------------------
(* The frame of a command *)

(* The commands a mode knows, of the tables of commands. *)
Commands(m) ==
    CASE m = "OFF" -> {"MAIL", "RCPT", "DATA", "QUIT"}
      [] OTHER -> {"HELO", "EHLO", "MAIL", "RCPT", "DATA", "RSET", "NOOP",
                   "QUIT", "HELP", "VRFY", "EXPN", "STARTTLS", "AUTH"}

(* What a handler may return when it answers with this code. *)
smtp_write_banner(code) ==
    IF code \in {221, 421} THEN {"CLOSE"} ELSE {"OK", "CLOSE"}

(* Mutant of Punish: one recipient too late. *)
PunishLate(m, f) ==
    IF m = "NORMAL" /\ MaxFailedRcpts > 0 /\ f > MaxFailedRcpts
    THEN conf.punish ELSE m

(* How the modes that take no mail answer MAIL, RCPT and DATA. *)
ModeRefuses == [TEMPFAIL |-> 451, NOAUTH |-> 530, REFUSE |-> 503]
Refusing == mode \in DOMAIN ModeRefuses

(* After a handler: the loop goes on, or the connection is closed (after a
   system error with one more reply, 421).  Too many failed recipients switch
   a normal session to its punishment. *)
Punish(m, f) ==
    IF m = "NORMAL" /\ MaxFailedRcpts > 0 /\ f >= MaxFailedRcpts
    THEN conf.punish ELSE m

Return(rc, m, f) ==
    /\ pc' = IF rc = "OK" THEN "command" ELSE "close"
    /\ mode' = IF rc = "OK" THEN Punish(m, f) ELSE m
    /\ failed' = f

Answer(code) == \E rc \in smtp_write_banner(code) : Return(rc, mode, failed)

(* deliver_accepted: an envelope with an E file is queued, then q_runner runs
   whatever is queued.  It reports files it had to leave in fast. *)
Accepted == "E" \in env.flags
Runnable == queued \cup (IF Accepted THEN {MailItem(env.id)} ELSE {})
DeliverAccepted ==
    /\ run' = run \cup Runnable
    /\ queued' = {}
    /\ fast' = [m \in Mail |-> IF MailItem(m) \in Runnable THEN {} ELSE fast[m]]

(* reset: deliver, and forget an envelope that was not accepted; if q_runner
   fails the envelope stays. *)
Reset(rc) ==
    /\ DeliverAccepted
    /\ \/ rc = "OK" /\ env' = NoEnv /\ NoFault
       \/ rc = "SYSERROR" /\ env' = (IF Accepted THEN NoEnv ELSE env) /\ Fault

(* deliver_accepted alone, as NOOP and its like call it. *)
DeliverOnly(rc) ==
    /\ DeliverAccepted
    /\ env' = IF Accepted THEN NoEnv ELSE env
    /\ \/ rc = "OK" /\ NoFault
       \/ rc = "SYSERROR" /\ Fault

(* The handler of a command runs: the mode's table names it, and a refusing
   session has handlers for what every table has. *)
Handles(c) ==
    /\ pc = "command" /\ c \in Commands(mode)
    /\ mode = "REFUSE" => c \in Commands("OFF")

Keep == UNCHANGED <<conf, auth, tls, ext, timer, data, md, created, history>>
KeepEnv == UNCHANGED <<env, spool>> /\ NoFault

(* f_bad_sequence, f_not_implemented's kin in a refusing session, and the answer
   500 to a word that is no command; off, it is 421. *)
f_bad_sequence ==
    /\ pc = "command" /\ mode = "REFUSE"
    /\ Answer(503) /\ Keep /\ KeepEnv

CommandUnrecognized ==
    /\ pc = "command"
    /\ Answer(IF mode = "OFF" THEN 421 ELSE 500) /\ Keep /\ KeepEnv

----------------------------------------------------------------------------
(* Connection *)

(* Mutant of StartTls: the extension is still counted. *)
StartTlsUncounted(done) == tls' = (tls \/ done) /\ UNCHANGED ext

(* _start_tls: done; or it is not, and 501 is written to the client, after
   which the callers go on as long as the reply could be written. *)
StartTls(done) ==
    /\ tls' = (tls \/ done)
    /\ ext' = IF done THEN ext - 1 ELSE ext

(* Mutant of auth_init: the mode is left as it is. *)
auth_init_open(m) == m

(* auth_init: a session that must authenticate starts in the mode NOAUTH. *)
auth_init(m) == IF conf.sasl THEN "NOAUTH" ELSE m

(* smtp_receive up to the first command: limits, reverse lookup, TCP wrappers
   and lists may turn the client away at once or, block listed, switch the
   session off. *)
ConnectRefused ==
    /\ pc = "connect" /\ conf.default = "REFUSE"
    /\ \E rc \in smtp_write_banner(554) : Return(rc, "REFUSE", failed)
    /\ Keep /\ KeepEnv

Connect ==
    /\ pc = "connect" /\ conf.default # "REFUSE"
    /\ \E blocked \in BOOLEAN, done \in BOOLEAN, rc \in {"OK", "CLOSE"} :
        /\ Return(rc, IF blocked THEN "OFF" ELSE auth_init(conf.default), failed)
        /\ done => conf.tls
        /\ StartTls(done)
    /\ UNCHANGED <<conf, auth, timer, data, md, created, history>> /\ KeepEnv

ConnectLimit ==
    /\ pc = "connect"
    /\ pc' = "close"
    /\ UNCHANGED <<mode, failed>> /\ Keep /\ KeepEnv

----------------------------------------------------------------------------
(* Commands *)

f_helo == Handles("HELO") /\ (Answer(250) \/ Answer(501)) /\ Keep /\ KeepEnv

(* f_ehlo resets the session, then lists the extensions: all lines but the
   last have a dash, which the code gets from counting extensions down. *)
EhloLines ==
    1 + Cardinality({x \in {"size", "sasl"} : conf[x]})
      + (IF conf.tls /\ ~tls THEN 1 ELSE 0)
EhloReply == [i \in 1 .. EhloLines |-> IF ext - (i - 1) # 0 THEN "-" ELSE " "]

f_ehlo ==
    /\ Handles("EHLO") /\ Keep
    /\ \/ Answer(501) /\ KeepEnv
       \/ \E rc \in {"OK", "SYSERROR"} :
            /\ Reset(rc)
            /\ IF rc = "OK" THEN Answer(250) ELSE Return(rc, mode, failed)

f_quit == Handles("QUIT") /\ Answer(221) /\ Keep /\ KeepEnv

f_rset ==
    /\ Handles("RSET") /\ Keep
    /\ \E rc \in {"OK", "SYSERROR"} :
        /\ Reset(rc)
        /\ IF rc = "OK" THEN Answer(250) ELSE Return(rc, mode, failed)

(* f_noop, f_help and f_not_implemented deliver what was accepted. *)
f_noop ==
    /\ Keep
    /\ \E reply \in {<<"NOOP", 250>>, <<"HELP", 211>>, <<"VRFY", 502>>, <<"EXPN", 502>>},
          rc \in {"OK", "SYSERROR"} :
        /\ Handles(reply[1]) /\ DeliverOnly(rc)
        /\ IF rc = "OK" THEN Answer(reply[2]) ELSE Return(rc, mode, failed)

(* Mutant of f_starttls: no reset after the handshake. *)
f_starttls_carries_on ==
    /\ Handles("STARTTLS") /\ conf.tls /\ ~tls /\ KeepEnv
    /\ UNCHANGED <<conf, auth, timer, data, md, created, history>>
    /\ \E done \in BOOLEAN : StartTls(done) /\ Return("OK", mode, failed)

(* f_starttls: after the handshake, done or answered with 501, the session is
   reset; a reply that could not be written just ends the command. *)
f_starttls ==
    /\ Handles("STARTTLS")
    /\ UNCHANGED <<conf, auth, timer, data, md, created, history>>
    /\ \/ ~conf.tls /\ Answer(502) /\ UNCHANGED <<tls, ext>> /\ KeepEnv
       \/ conf.tls /\ tls /\ Return("SYSERROR", mode, failed)
            /\ UNCHANGED <<tls, ext>> /\ KeepEnv
       \/ conf.tls /\ ~tls /\ Answer(501) /\ UNCHANGED <<tls, ext>> /\ KeepEnv
       \/ conf.tls /\ ~tls /\ \E done \in BOOLEAN, rc \in {"OK", "SYSERROR"} :
            StartTls(done) /\ Reset(rc) /\ Return(rc, mode, failed)

(* f_auth: not twice, not within a transaction.  An exchange that fails is
   answered, one that cannot go on ends the session. *)
f_auth ==
    /\ Handles("AUTH")
    /\ UNCHANGED <<conf, tls, ext, timer, data, md, created, history>>
    /\ KeepEnv
    /\ \/ (auth \/ env # NoEnv) /\ Answer(503) /\ UNCHANGED auth
       \/ ~auth /\ env = NoEnv /\ UNCHANGED auth
            /\ \E rc \in {"OK", "CLOSE", "SYSERROR"} : Return(rc, mode, failed)
       \/ ~auth /\ env = NoEnv /\ conf.sasl /\ auth' = TRUE
            /\ Return("OK", conf.default, failed)

----------------------------------------------------------------------------
(* MAIL and RCPT *)

(* Mutant of DigestInit: a digest in use is not finished. *)
DigestInitOnce ==
    md' = IF conf.filter /\ md.status \in {"UNINITIALIZED", "FINAL"}
          THEN [status |-> "READY", of |-> {}] ELSE md

(* The digest is made ready for a new transaction. *)
DigestInit ==
    md' = IF conf.filter /\ md.status # "READY"
          THEN [status |-> "READY", of |-> {}] ELSE md
DigestUpdate(m) ==
    md' = IF conf.filter THEN [status |-> "IN_USE", of |-> md.of \cup {m}] ELSE md

(* f_mail_usage delivers what was accepted; no other refusal of a sender does. *)
MailUsage ==
    \E rc \in {"OK", "SYSERROR"} :
        DeliverOnly(rc) /\ Return(rc, mode, failed) /\ UNCHANGED <<md, created>>

(* A parameter, the mode or the sender's host is refused. *)
MailRefused ==
    /\ KeepEnv /\ UNCHANGED <<md, created>>
    /\ \/ Answer(501) \/ Answer(552)
       \/ Refusing /\ Answer(ModeRefuses[mode])
       \/ mode \in {"GLOBAL_RELAY", "NORMAL"} /\ Answer(550)

(* A sender that is taken resets the session and gets a new envelope. *)
MailAccepted ==
    /\ mode \in {"TARPIT", "GLOBAL_RELAY", "NORMAL"}
    /\ \/ /\ created < MaxMail /\ DeliverAccepted /\ NoFault
          /\ created' = created + 1
          /\ env' = [NoEnv EXCEPT !.id = created + 1, !.tls = tls]
          /\ DigestInit /\ Answer(250)
       \/ /\ Reset("SYSERROR") /\ Return("SYSERROR", mode, failed)
          /\ UNCHANGED <<md, created>>

f_mail ==
    /\ Handles("MAIL")
    /\ UNCHANGED <<conf, auth, tls, ext, timer, data, history>>
    /\ \/ mode = "OFF" /\ Answer(421) /\ KeepEnv /\ UNCHANGED <<md, created>>
       \/ mode # "OFF" /\ (MailUsage \/ MailRefused \/ MailAccepted)

(* local_address: the lookups of the domain, in order.  The first that decides
   does: a sufficient one that finds the user, a required one that does not, a
   directory that fails or refers to the user's block lists.  If none does, the
   user is local when some (required) lookup found it.  A secondary MX asks
   nobody. *)
Lookups == [required: BOOLEAN, result: {"found", "absent", "unreadable", "error", "rbl"}]
Decides(l) ==
    \/ l.result \in {"error", "rbl"}
    \/ l.result = "found" /\ ~l.required
    \/ l.result = "absent" /\ l.required
local_address(mx, lookups) ==
    LET deciding == {i \in DOMAIN lookups : Decides(lookups[i])}
        first == lookups[CHOOSE i \in deciding : \A j \in deciding : i <= j]
    IN  IF mx THEN "MX_ADDRESS"
        ELSE IF deciding = {}
        THEN IF \E i \in DOMAIN lookups : lookups[i].result = "found"
             THEN "LOCAL_ADDRESS" ELSE "NOT_LOCAL"
        ELSE CASE first.result = "error" -> "LOCAL_ERROR"
               [] first.result = "rbl"   -> "LOCAL_ADDRESS_RBL"
               [] first.result = "found" -> "LOCAL_ADDRESS"
               [] OTHER -> "NOT_LOCAL"

(* What a normal session finds out about a recipient. *)
RcptChecks ==
    {"unknown", "hosterror", "notlocal"}
      \cup {local_address(mx, l) : mx \in BOOLEAN, l \in [1 .. 2 -> Lookups]}

(* Recipients a normal session fails; without a limit nobody counts them. *)
Count(f) == IF MaxFailedRcpts = 0 THEN f ELSE f + 1

RcptAccept ==
    /\ env' = [env EXCEPT !.rcpt = TRUE]
    /\ DigestUpdate(env.id)
    /\ Answer(250)

(* A recipient of a normal session, by what was found out about it.  A soft
   failure is digested as an accepted one is; a list that blocks the client
   fails the recipient, a list that cannot be asked may end the session. *)
RcptNormal(check) ==
    \/ /\ check \in {"unknown", "notlocal", "NOT_LOCAL", "LOCAL_ADDRESS_RBL"}
       /\ \E rc \in smtp_write_banner(550) : Return(rc, mode, Count(failed))
       /\ UNCHANGED <<env, md>>
    \/ /\ check = "hosterror"
       /\ \E rc \in smtp_write_banner(451) : Return(rc, mode, Count(failed))
       /\ DigestUpdate(env.id) /\ UNCHANGED env
    \/ /\ check = "LOCAL_ERROR"
       /\ Answer(451) /\ DigestUpdate(env.id) /\ UNCHANGED env
    \/ /\ check = "LOCAL_ADDRESS_RBL"
       /\ Return("CLOSE", mode, failed) /\ UNCHANGED <<env, md>>
    \/ /\ check \in {"LOCAL_ADDRESS", "MX_ADDRESS", "LOCAL_ADDRESS_RBL"}
       /\ RcptAccept

f_rcpt ==
    /\ Handles("RCPT")
    /\ UNCHANGED <<conf, auth, tls, ext, timer, data, created, history, spool>> /\ NoFault
    /\ \/ mode = "OFF" /\ Answer(421) /\ UNCHANGED <<env, md>>
       \/ mode # "OFF" /\ (env = NoEnv \/ Accepted) /\ Answer(503) /\ UNCHANGED <<env, md>>
       \/ mode # "OFF" /\ env # NoEnv /\ ~Accepted
            /\ \/ Answer(501) /\ UNCHANGED <<env, md>>
               \/ Refusing /\ Answer(ModeRefuses[mode]) /\ UNCHANGED <<env, md>>
               \/ mode \in {"TARPIT", "GLOBAL_RELAY"} /\ RcptAccept
               \/ mode = "NORMAL" /\ \E check \in RcptChecks : RcptNormal(check)

----------------------------------------------------------------------------
(* DATA *)

(* The handler goes to its label error, with the return code it has then. *)
DataError(ret) == pc' = "error" /\ data' = [data EXCEPT !.ret = ret]

KeepSession == UNCHANGED <<session, created>>

(* f_data until 354 is sent.  Only a tarpit writes no D file. *)
DataRefused ==
    /\ Handles("DATA") /\ Keep /\ KeepEnv
    /\ \/ mode = "OFF" /\ Answer(421)
       \/ mode # "OFF" /\ Answer(501)
       \/ mode # "OFF" /\ (env = NoEnv \/ Accepted) /\ Answer(503)
       \/ mode # "OFF" /\ env # NoEnv /\ ~Accepted /\ ~env.rcpt /\ Answer(554)
       \/ Refusing /\ env # NoEnv /\ ~Accepted /\ env.rcpt
            /\ Answer(ModeRefuses[mode])

MayOpenData ==
    /\ Handles("DATA") /\ env # NoEnv /\ ~Accepted /\ env.rcpt
    /\ mode \in {"TARPIT", "GLOBAL_RELAY", "NORMAL"}

DataOpen ==
    /\ MayOpenData
    /\ KeepSession /\ UNCHANGED <<md, queued, run, history>>
    /\ LET open == mode # "TARPIT"
       IN /\ env' = IF open THEN [env EXCEPT !.flags = {"D"}] ELSE env
          /\ fast' = IF open THEN [fast EXCEPT ![env.id] = {"D"}] ELSE fast
          /\ \/ pc' = "read" /\ data' = [NoData EXCEPT !.open = open] /\ NoFault
             \/ pc' = "error" /\ data' = [NoData EXCEPT !.open = open, !.ret = "CLOSE"]
                  /\ NoFault
             \/ pc' = "error" /\ data' = [NoData EXCEPT !.open = open] /\ Fault

(* env_dfile_open fails: the handler returns at once. *)
DataOpenFails ==
    /\ MayOpenData /\ mode # "TARPIT"
    /\ Return("SYSERROR", mode, failed) /\ Fault
    /\ Keep /\ UNCHANGED <<env, spool>>

(* The D file is closed and removed after an error; what is left to read is
   read and forgotten. *)
DropDfile ==
    \/ /\ data.open /\ NoFault
       /\ env' = [env EXCEPT !.flags = @ \ {"D"}]
       /\ fast' = [fast EXCEPT ![env.id] = @ \ {"D"}]
    \/ data.open /\ Fault /\ UNCHANGED <<env, fast>>
    \/ ~data.open /\ NoFault /\ UNCHANGED <<env, fast>>

(* A line of data that ends the message's prospects: too large or too often
   received, seen before, or a system error. *)
DataLine ==
    /\ pc = "read" /\ data.err = "NO"
    /\ KeepSession /\ UNCHANGED <<pc, md, queued, run, answer, verdict>>
    /\ DropDfile
    /\ \E line \in {"toolarge", "seen", "syserror"} :
        /\ data' = [data EXCEPT
             !.open = FALSE,
             !.err = IF line = "syserror" \/ faults' # faults THEN "SYSTEM" ELSE "PROTOCOL",
             !.banner = CASE line = "toolarge" -> "REJECT"
                          [] line = "seen" -> "DELETE"
                          [] OTHER -> @]
        /\ seen' = IF line = "seen" THEN seen \cup {env.id} ELSE seen

(* The client stalls or goes away, or the session has lasted too long. *)
DataTimeout ==
    /\ pc = "read" /\ KeepSession /\ KeepEnv /\ UNCHANGED <<md, history>>
    /\ \E ret \in {"CLOSE", "SYSERROR"} : DataError(ret)

(* The line with the dot.  A D file that could not be removed has been closed,
   so its status cannot be read; the clock may fail on this line or, after a
   protocol error, on an earlier one, which makes a system error of it. *)
DataEnd ==
    /\ pc = "read" /\ KeepSession /\ UNCHANGED <<env, spool, md, history>>
    /\ \/ "D" \in env.flags /\ ~data.open /\ DataError("SYSERROR") /\ NoFault
       \/ "D" \in env.flags /\ data.open /\ DataError("SYSERROR") /\ Fault
       \/ /\ "D" \in env.flags => data.open
          /\ pc' = "filter"
          /\ \/ NoFault /\ data' = [data EXCEPT !.open = FALSE,
                    !.banner = IF "D" \in env.flags THEN "ACCEPT" ELSE @]
             \/ Fault /\ data' = [data EXCEPT !.open = FALSE, !.err = "SYSTEM",
                    !.banner = IF "D" \in env.flags THEN "ACCEPT" ELSE @]

(* content_filter: its exit code, or TEMPFAIL if it cannot be run. *)
content_filter == FilterResults \cup {{"TEMPFAIL"}}

(* The filter is run on a D file and its t file, never in a tarpit.  With a
   filter configured and no D file filter_result is never assigned. *)
DataFilter ==
    /\ pc = "filter" /\ KeepSession /\ UNCHANGED <<queued, run, answer, seen>>
    /\ \/ /\ ~conf.filter \/ mode = "TARPIT"
          /\ pc' = "bounce" /\ UNCHANGED <<data, env, fast, md, verdict>> /\ NoFault
       \/ /\ conf.filter /\ mode # "TARPIT" /\ "D" \in env.flags
          /\ md' = [md EXCEPT !.status = "FINAL"]
          /\ \/ DataError("SYSERROR") /\ Fault /\ UNCHANGED <<env, fast, verdict>>
             \/ \E bits \in content_filter :
                  /\ pc' = "bounce" /\ NoFault
                  /\ env' = [env EXCEPT !.flags = @ \cup {"t"}]
                  /\ fast' = [fast EXCEPT ![env.id] = @ \cup {"t"}]
                  /\ verdict' = [verdict EXCEPT ![env.id] = bits]
                  /\ data' = [data EXCEPT !.bits = bits,
                       !.banner = CASE "TEMPFAIL" \in bits -> "TEMPFAIL"
                                    [] "REJECT" \in bits -> "REJECT"
                                    [] OTHER -> @]
       \/ /\ conf.filter /\ mode # "TARPIT" /\ "D" \notin env.flags
          /\ pc' = "bounce" /\ UNCHANGED <<env, fast, md, verdict>> /\ NoFault
          /\ \E bits \in FilterResults : data' = [data EXCEPT !.bits = bits]

(* A bounce is written and queued before the message is disposed of. *)
DataBounce ==
    /\ pc = "bounce"
    /\ UNCHANGED <<conf, mode, auth, tls, ext, failed, created, env, md, fast, run,
                   answer, verdict, seen>>
    /\ \/ Fault /\ DataError("SYSERROR") /\ UNCHANGED <<queued, timer>>
       \/ NoFault /\ pc' = "dispose" /\ UNCHANGED data
            /\ IF "BOUNCE" \in data.bits
               THEN /\ queued' = queued \cup {BounceItem(env.id)}
                    /\ timer' = (timer \/ conf.accepted)
               ELSE UNCHANGED <<queued, timer>>

(* Mutant of Discarded: a rejected message is kept. *)
DiscardedOnTempfail ==
    data.banner = "TEMPFAIL" \/ {"DELETE", "BOUNCE"} \cap data.bits # {}

(* A message for the jail host is kept whatever the answer; any other that is
   not accepted, or that the filter deletes or bounces, loses its D file. *)
Discarded ==
    \/ data.banner \in {"TEMPFAIL", "REJECT"}
    \/ {"DELETE", "BOUNCE"} \cap data.bits # {}
Without(name) ==
    /\ env' = [env EXCEPT !.flags = @ \ {name}]
    /\ fast' = [fast EXCEPT ![env.id] = @ \ {name}]

DataDispose ==
    /\ pc = "dispose" /\ KeepSession /\ UNCHANGED <<md, queued, run, history>>
    /\ \/ /\ \/ "JAIL" \in data.bits /\ ("D" \notin env.flags \/ ~conf.jail)
             \/ "JAIL" \notin data.bits /\ ~Discarded
          /\ pc' = "commit" /\ UNCHANGED <<data, env, fast>> /\ NoFault
       \/ /\ "JAIL" \in data.bits /\ "D" \in env.flags /\ conf.jail
          /\ pc' = "commit" /\ UNCHANGED data /\ Without("t") /\ NoFault
       \/ /\ "JAIL" \notin data.bits /\ Discarded
          /\ pc' = "commit" /\ UNCHANGED data /\ Without("D") /\ NoFault
       \/ /\ ("JAIL" \in data.bits /\ conf.jail) \/ Discarded
          /\ "D" \in env.flags
          /\ DataError("SYSERROR") /\ UNCHANGED <<env, fast>> /\ Fault

(* Mutant of DataCommit: a failure of env_outfile is not noticed. *)
DataCommitUnchecked ==
    /\ pc = "commit" /\ pc' = "answer"
    /\ UNCHANGED <<session, data, created, md, queued, run, history>>
    /\ \/ "D" \notin env.flags /\ UNCHANGED <<env, fast>> /\ NoFault
       \/ "D" \in env.flags /\ UNCHANGED <<env, fast>> /\ Fault

(* env_outfile, for a message that still has its D file.  It fails without an
   E file, or with one, when the clock or the lists fail after the rename. *)
DataCommit ==
    /\ pc = "commit"
    /\ UNCHANGED <<conf, mode, auth, tls, ext, failed, created, md, queued, run, history>>
    /\ LET committed == /\ env' = [env EXCEPT !.flags = {"D", "E"}]
                        /\ fast' = [fast EXCEPT ![env.id] = {"D", "E"}]
       IN \/ /\ "D" \notin env.flags
             /\ pc' = "answer" /\ UNCHANGED <<data, env, fast, timer>> /\ NoFault
          \/ /\ "D" \in env.flags /\ committed
             /\ pc' = "answer" /\ timer' = (timer \/ conf.accepted)
             /\ UNCHANGED data /\ NoFault
          \/ /\ "D" \in env.flags /\ DataError("SYSERROR") /\ Fault
             /\ UNCHANGED <<env, timer>>
             /\ fast' = [fast EXCEPT ![env.id] = @ \ {"t"}]
          \/ /\ "D" \in env.flags /\ DataError("SYSERROR") /\ Fault
             /\ committed /\ UNCHANGED timer

(* The answer to the data.  After it a system error waits for the next command:
   the session is switched off. *)
DataAnswer ==
    /\ pc = "answer" /\ pc' = "error"
    /\ UNCHANGED <<conf, auth, tls, ext, failed, timer, created, env, spool, md,
                   verdict, seen>> /\ NoFault
    /\ mode' = CASE "DISCONNECT" \in data.bits -> "OFF"
                 [] "TARPIT" \in data.bits -> "TARPIT"
                 [] OTHER -> mode
    /\ \E written \in BOOLEAN :
        /\ data' = [data EXCEPT !.gave = TRUE,
             !.ret = IF ~written THEN "CLOSE"
                     ELSE IF data.err = "SYSTEM" THEN "SYSERROR" ELSE "OK"]
        /\ answer' = IF ~written THEN answer ELSE [answer EXCEPT ![env.id] =
             CASE data.banner = "TEMPFAIL" -> "451"
               [] data.banner = "REJECT" -> "554"
               [] OTHER -> "250"]

(* The label error, reached on success too: without an E file whatever names
   the message has are removed and the envelope is dropped. *)
DataCleanup ==
    /\ pc = "error" /\ data' = NoData
    /\ UNCHANGED <<conf, auth, tls, ext, timer, created, md, queued, run, history>>
    /\ env' = IF Accepted THEN env ELSE NoEnv
    /\ \E left \in SUBSET (IF Accepted THEN {} ELSE fast[env.id]) :
         LET ret == IF left # {} /\ data.ret = "OK" THEN "SYSERROR" ELSE data.ret
         IN /\ IF left = {} THEN NoFault ELSE Fault
            /\ fast' = IF Accepted THEN fast ELSE [fast EXCEPT ![env.id] = left]
            /\ IF data.gave /\ ret = "SYSERROR"
               THEN Return("OK", "OFF", failed)
               ELSE Return(ret, mode, failed)

----------------------------------------------------------------------------
(* The end of the session *)

(* The accepted message timer: the message is delivered while the client
   waits.  If that fails the process exits without a reply. *)
AcceptedTimer ==
    /\ pc = "command" /\ timer /\ timer' = FALSE
    /\ UNCHANGED <<conf, mode, auth, tls, ext, failed, data, md, created, history>>
    /\ \E rc \in {"OK", "SYSERROR"} :
        DeliverOnly(rc) /\ pc' = IF rc = "OK" THEN "command" ELSE "done"

(* The command, inactivity or session timer runs out, or the client is gone. *)
CommandTimeout ==
    /\ pc = "command" /\ pc' = "close"
    /\ UNCHANGED <<mode, failed>> /\ Keep /\ KeepEnv

(* Mutant of Close: no reset at the end. *)
CloseAtOnce ==
    /\ pc = "close" /\ pc' = "done"
    /\ UNCHANGED <<session, data, md, created, history, env, spool>> /\ NoFault

Close ==
    /\ pc = "close" /\ pc' = "done"
    /\ UNCHANGED <<session, data, md, created, history>>
    /\ \E rc \in {"OK", "SYSERROR"} : Reset(rc)

(* The receiver is killed: files stay, memory is gone. *)
Kill ==
    /\ Killable /\ pc \notin {"done", "killed"} /\ pc' = "killed"
    /\ env' = NoEnv /\ data' = NoData /\ queued' = {}
    /\ UNCHANGED <<session, md, created, fast, run, history>> /\ NoFault

----------------------------------------------------------------------------
Init ==
    /\ conf \in Confs /\ pc = "connect" /\ mode = conf.default
    /\ auth = FALSE /\ tls = FALSE /\ failed = 0 /\ timer = FALSE
    /\ ext = Cardinality({x \in {"size", "sasl", "tls"} : conf[x]})
    /\ env = NoEnv /\ data = NoData
    /\ md = [status |-> "UNINITIALIZED", of |-> {}]
    /\ fast = [m \in Mail |-> {}] /\ created = 0
    /\ queued = {} /\ run = {}
    /\ answer = [m \in Mail |-> "none"]
    /\ verdict = [m \in Mail |-> {}]
    /\ seen = {} /\ faults = 0

Command ==
    \/ f_bad_sequence \/ CommandUnrecognized \/ f_helo \/ f_ehlo \/ f_quit
    \/ f_rset \/ f_noop \/ f_starttls \/ f_auth \/ f_mail \/ f_rcpt
    \/ DataRefused \/ DataOpen \/ DataOpenFails

DataStep ==
    \/ DataFilter \/ DataBounce \/ DataDispose \/ DataCommit \/ DataAnswer
    \/ DataCleanup

Ended == pc \in {"done", "killed"} /\ UNCHANGED vars

Next ==
    \/ Connect \/ ConnectRefused \/ ConnectLimit
    \/ Command \/ DataLine \/ DataEnd \/ DataTimeout \/ DataStep
    \/ AcceptedTimer \/ CommandTimeout \/ Close \/ Kill \/ Ended

(* The process goes on by itself, reading data ends by a line timer at the
   latest, and while something waits to be delivered no command can make
   progress without delivering it, so a timer ends the wait for commands. *)
Fairness ==
    /\ WF_vars(DataStep) /\ WF_vars(Close) /\ WF_vars(DataTimeout)
    /\ WF_vars((Accepted \/ queued # {}) /\ CommandTimeout)

Spec == Init /\ [][Next]_vars /\ Fairness

----------------------------------------------------------------------------
(* Properties *)

TypeOK ==
    /\ conf \in Confs /\ mode \in Modes /\ auth \in BOOLEAN /\ tls \in BOOLEAN
    /\ pc \in {"connect", "command", "read", "filter", "bounce", "dispose", "commit",
               "answer", "error", "close", "done", "killed"}
    /\ ext \in Int /\ failed \in Nat /\ timer \in BOOLEAN
    /\ env \in [id: 0 .. MaxMail, rcpt: BOOLEAN, flags: SUBSET {"D", "t", "E"}, tls: BOOLEAN]
    /\ data \in [banner: {"TEMPFAIL", "REJECT", "ACCEPT", "DELETE"},
                 err: {"NO", "PROTOCOL", "SYSTEM"}, open: BOOLEAN, bits: SUBSET Bits,
                 ret: {"OK", "CLOSE", "SYSERROR"}, gave: BOOLEAN]
    /\ md \in [status: {"UNINITIALIZED", "READY", "IN_USE", "FINAL"}, of: SUBSET Mail]
    /\ fast \in [Mail -> SUBSET {"D", "t", "E"}] /\ created \in 0 .. MaxMail
    /\ queued \subseteq Mail \X {"mail", "bounce"}
    /\ run \subseteq Mail \X {"mail", "bounce"}
    /\ answer \in [Mail -> {"none", "250", "451", "554"}]
    /\ verdict \in [Mail -> SUBSET Bits]
    /\ seen \subseteq Mail /\ faults \in 0 .. MaxFaults

(* A message whose data was answered with 250 is whole in fast or was given to
   q_runner, in every later state and if the receiver is killed, unless the
   content filter had it deleted or bounced or it is one seen before. *)
AnsweredIsKept ==
    \A m \in Mail : answer[m] = "250" =>
        \/ {"D", "E"} \subseteq fast[m] \/ MailItem(m) \in run
        \/ {"DELETE", "BOUNCE"} \cap verdict[m] # {}
        \/ m \in seen

(* A message that was answered with a failure is not delivered as well: it has
   no E file and never was given to q_runner, unless the filter sent it to
   jail. *)
RefusedIsGone ==
    \A m \in Mail :
        (answer[m] \in {"451", "554"} /\ "JAIL" \notin verdict[m]) =>
            "E" \notin fast[m] /\ MailItem(m) \notin run

(* Where authentication is asked for, no message gets into the queue of a
   session that has not authenticated. *)
AuthBeforeAccept ==
    (conf.sasl /\ ~auth) => \A m \in Mail : "E" \notin fast[m] /\ MailItem(m) \notin run

(* A transaction begun in the clear is not carried on over TLS: reset discards
   the envelope when the handshake is done. *)
TlsStartsAfresh == (env # NoEnv /\ pc \notin {"close", "done"}) => env.tls = tls

(* The reply to EHLO ends with its last line and not before: the count of
   extensions follows what the session still offers. *)
EhloWellFormed ==
    \A i \in 1 .. EhloLines : EhloReply[i] = (IF i = EhloLines THEN " " ELSE "-")

(* The checksum handed to the content filter is of this message alone, whatever
   transactions were abandoned before it. *)
DigestOwn == pc \in {"filter", "bounce"} => md.of \subseteq {env.id}

(* Once a client has failed too many recipients no message of its session is
   accepted any more, however it goes on. *)
PunishedForGood ==
    [][(MaxFailedRcpts > 0 /\ failed >= MaxFailedRcpts) =>
        \A m \in Mail : "E" \in fast'[m] => "E" \in fast[m]]_vars

(* What was accepted, and what was bounced, is given to q_runner before the
   process ends, however the session ends, unless it is killed. *)
AllRun ==
    \A m \in Mail :
        /\ (MailItem(m) \notin run /\ "E" \in fast[m]) ~> (MailItem(m) \in run \/ pc = "killed")
        /\ BounceItem(m) \in queued ~> (BounceItem(m) \in run \/ pc = "killed")

=============================================================================
