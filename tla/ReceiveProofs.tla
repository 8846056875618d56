--------------------------- MODULE ReceiveProofs ---------------------------
(***************************************************************************)
(* The receiver of module Receive keeps its word, for every configuration, *)
(* every content filter and any number of messages, recipients and faults: *)
(* what was answered with 250 is kept, what was refused is gone, nobody    *)
(* who has to authenticate gets mail in without, a handshake discards the  *)
(* transaction before it, EHLO ends with its last line, the filter gets    *)
(* the digest of this message alone, and too many failed recipients are    *)
(* punished for good.                                                      *)
(*                                                                         *)
(* The invariant ties r_env to the files of its message (Files), follows   *)
(* the verdict and the banner of f_data to the answer (Verdicts,           *)
(* Disposal), and says what the modes of a session still allow (Auth,      *)
(* Punished).                                                              *)
(***************************************************************************)
EXTENDS Receive, FiniteSetTheorems, TLAPS

\* f_data is under way.
DataPc == {"read", "filter", "bounce", "dispose", "commit", "answer", "error"}

\* There is an envelope.
Opened == env.id # 0

\* The count of extensions is one less than the lines EHLO has to write.
Handshake ==
    /\ pc = "connect" => ~Opened /\ ~tls
    /\ ext = EhloLines - 1

\* The envelope is the last that was created, and the ones to come have left
\* nothing behind.
Numbering ==
    /\ ~Opened => env = NoEnv
    /\ Opened => env.id = created /\ pc # "killed"
    /\ pc \in DataPc => Opened
    /\ \A m \in Mail : m > created =>
         fast[m] = {} /\ answer[m] = "none" /\ verdict[m] = {}
    /\ \A m \in Mail : m > created => MailItem(m) \notin run

\* The flags of the envelope name its files, and it was not run; between
\* commands it has no file, or it was accepted.
Files ==
    Opened =>
        /\ MailItem(env.id) \notin run
        /\ fast[env.id] = env.flags \/ (pc = "error" /\ fast[env.id] = env.flags \ {"t"})
        /\ Accepted => env.flags = {"D", "E"}
        /\ pc \notin DataPc => env.flags \in {{}, {"D", "E"}}
        /\ pc \in DataPc \ {"answer", "error"} => ~Accepted

\* Only bounces wait in the in-memory queue.
NoMailQueued == \A m \in Mail : MailItem(m) \notin queued

\* The data of an envelope is answered once, and filtered once.
Unanswered ==
    /\ Opened /\ answer[env.id] # "none" => pc = "error" \/ Accepted
    /\ pc = "answer" => answer[env.id] = "none"
    /\ pc \in {"read", "filter"} => data.bits = {} /\ verdict[env.id] = {}
    /\ pc = "command" /\ Opened /\ ~Accepted => verdict[env.id] = {}

\* As long as there is a D file, filter_result is what the filter returned.
Verdicts ==
    pc \in {"bounce", "dispose", "commit", "answer"} /\ "D" \in env.flags
      => data.bits = verdict[env.id]

\* What the banner says about the D file, on the way to the answer.
Disposal ==
    /\ pc \in {"read", "filter", "bounce", "dispose", "commit", "answer"}
         /\ data.banner = "DELETE" => env.id \in seen
    /\ pc = "read" => data.banner # "ACCEPT"
    /\ pc \in {"filter", "bounce", "dispose"} /\ data.banner = "ACCEPT"
         => "D" \in env.flags
    /\ pc \in {"commit", "answer"} /\ data.banner = "ACCEPT" =>
         "D" \in env.flags \/ {"DELETE", "BOUNCE"} \cap verdict[env.id] # {}
    /\ pc \in {"commit", "answer"} /\ data.banner \in {"TEMPFAIL", "REJECT"}
         /\ "D" \in env.flags => "JAIL" \in verdict[env.id]
    /\ pc = "answer" /\ "D" \in env.flags => Accepted

\* A digest that is ready is empty, one in use is of the open transaction.
Digest ==
    /\ md.status \in {"UNINITIALIZED", "READY"} \/ ~conf.filter => md.of = {}
    /\ Opened => md.of \subseteq {env.id}

\* A session that still has to authenticate has no transaction.
Auth ==
    conf.sasl /\ ~auth =>
        /\ ~Opened
        /\ pc = "command" => mode \in {"NOAUTH", "OFF", "REFUSE"}

\* Recipients are counted in normal sessions only, and a session that has
\* failed too many writes no D file any more.
Punished ==
    /\ mode \in {"NORMAL", "GLOBAL_RELAY"} => mode = conf.default
    /\ failed > 0 => conf.default = "NORMAL"
    /\ MaxFailedRcpts > 0 /\ failed >= MaxFailedRcpts =>
        /\ pc = "command" => mode # "NORMAL"
        /\ pc \in DataPc => "D" \notin env.flags

IInv ==
    /\ TypeOK /\ Handshake /\ Numbering /\ Files /\ NoMailQueued /\ Unanswered
    /\ Verdicts /\ Disposal /\ Digest /\ Auth /\ Punished
    /\ AnsweredIsKept /\ RefusedIsGone /\ AuthBeforeAccept /\ TlsStartsAfresh

---------------------------------------------------------------------------
(* The steps between two messages, by what they do to the envelope.        *)

\* What every such step does to the mode of the session,
ModeStep ==
    /\ mode' \in Modes /\ failed' \in Nat
    /\ failed' # failed => mode = "NORMAL" /\ Opened
    /\ mode' \in {"NORMAL", "GLOBAL_RELAY"} => mode' \in {mode, conf.default}
    /\ pc' = "command" /\ mode' = "NORMAL" /\ MaxFailedRcpts > 0
         => failed' < MaxFailedRcpts
    /\ pc' = "command" /\ conf.sasl /\ ~auth' => mode' \in {"NOAUTH", "OFF", "REFUSE"}

\* and to the rest of it.
SessionStep ==
    /\ ModeStep
    /\ auth' \in BOOLEAN /\ timer' \in BOOLEAN /\ faults' \in 0 .. MaxFaults
    /\ auth => auth'
    /\ UNCHANGED <<conf, data, history>>
    /\ \/ UNCHANGED <<tls, ext>>
       \/ /\ conf.tls /\ ~tls /\ tls' = TRUE /\ ext' = ext - 1
          /\ env' = NoEnv \/ pc' = "close"

\* A reply, and nothing else.
IdleStep ==
    /\ pc \in {"connect", "command"} /\ pc' \in {"command", "close"}
    /\ UNCHANGED <<env, md, created, spool>>

\* What was accepted is given to q_runner; the transaction is kept or dropped.
DeliverStep ==
    /\ pc \in {"command", "close"} /\ pc' \in {"command", "close", "done"}
    /\ pc = "close" => pc' = "done"
    /\ DeliverAccepted
    /\ env' = NoEnv \/ (~Accepted /\ env' = env)
    /\ UNCHANGED <<md, created>>

\* MAIL begins a transaction.
BeginStep ==
    /\ pc = "command" /\ pc' \in {"command", "close"}
    /\ mode \in {"TARPIT", "GLOBAL_RELAY", "NORMAL"}
    /\ DeliverAccepted
    /\ created < MaxMail /\ created' = created + 1
    /\ env' = [NoEnv EXCEPT !.id = created + 1, !.tls = tls]
    /\ DigestInit /\ UNCHANGED tls

\* RCPT adds to one.
RcptStep ==
    /\ pc = "command" /\ pc' \in {"command", "close"}
    /\ Opened /\ ~Accepted
    /\ env' = env \/ env' = [env EXCEPT !.rcpt = TRUE]
    /\ md' = md \/ DigestUpdate(env.id)
    /\ UNCHANGED <<created, spool>>

BetweenStep == SessionStep /\ (IdleStep \/ DeliverStep \/ BeginStep \/ RcptStep)

\* The loop after a handler that returned rc.
LEMMA ReturnStep ==
    ASSUME TypeOK, NEW m \in Modes, NEW f \in Nat, NEW rc, Return(rc, m, f)
    PROVE  /\ pc' \in {"command", "close"} /\ mode' \in Modes /\ failed' = f
           /\ mode' \in {"NORMAL", "GLOBAL_RELAY", "NOAUTH", "REFUSE"} => mode' = m
           /\ pc' = "command" /\ mode' = "NORMAL" /\ MaxFailedRcpts > 0
                => failed' < MaxFailedRcpts
           /\ mode' = m \/ m = "NORMAL"
BY ReceiveAssumption DEF TypeOK, Return, Punish, ConfType, Modes

\* A command whose handler leaves the mode alone.
LEMMA CommandReturn ==
    ASSUME IInv, pc = "command", NEW f \in Nat, NEW rc, Return(rc, mode, f),
           f # failed => mode = "NORMAL" /\ Opened, auth' = auth
    PROVE  ModeStep /\ pc' \in {"command", "close"}
<1>1. mode \in Modes /\ TypeOK
  BY DEF IInv, TypeOK
<1> QED  BY <1>1, ReturnStep DEF IInv, ModeStep, Auth

\* A command that answers and returns goes on, or ends the session.
LEMMA CommandAnswer ==
    ASSUME IInv, pc = "command", NEW code, Answer(code), auth' = auth
    PROVE  ModeStep /\ pc' \in {"command", "close"}
<1>1. failed \in Nat
  BY DEF IInv, TypeOK
<1>2. PICK rc : Return(rc, mode, failed)
  BY DEF Answer
<1> QED  BY <1>1, <1>2, CommandReturn

\* reset and deliver_accepted, whatever they return.
LEMMA ResetStep ==
    ASSUME IInv, NEW rc, Reset(rc) \/ DeliverOnly(rc)
    PROVE  /\ DeliverAccepted /\ faults' \in 0 .. MaxFaults
           /\ env' = NoEnv \/ (~Accepted /\ env' = env)
           /\ Reset(rc) /\ rc = "OK" => env' = NoEnv
BY ReceiveAssumption DEF IInv, TypeOK, Reset, DeliverOnly, Fault, NoFault

\* Every handler but f_data's is such a step, and so are the timers, the start
\* and the end of the session.
LEMMA BetweenShape ==
    ASSUME IInv,
           \/ Connect \/ ConnectRefused \/ ConnectLimit \/ f_bad_sequence
           \/ CommandUnrecognized \/ f_helo \/ f_ehlo \/ f_quit \/ f_rset
           \/ f_noop \/ f_starttls \/ f_auth \/ f_mail \/ f_rcpt
           \/ DataRefused \/ DataOpenFails \/ AcceptedTimer
           \/ CommandTimeout \/ Close
    PROVE  BetweenStep
<1> USE ReceiveAssumption DEF IInv, TypeOK, history
<1>1. CASE Connect
  <2>1. PICK blocked \in BOOLEAN, done \in BOOLEAN, rc \in {"OK", "CLOSE"} :
          /\ Return(rc, IF blocked THEN "OFF" ELSE auth_init(conf.default), failed)
          /\ done => conf.tls
          /\ StartTls(done)
    BY <1>1 DEF Connect
  <2> DEFINE m == IF blocked THEN "OFF" ELSE auth_init(conf.default)
  <2>2. m \in Modes /\ (m \in {"NORMAL", "GLOBAL_RELAY"} => m = conf.default)
        /\ (conf.sasl => m \in {"NOAUTH", "OFF"})
    BY DEF auth_init, ConfType, Modes
  <2>3. UNCHANGED <<tls, ext>> \/ (conf.tls /\ ~tls /\ tls' = TRUE /\ ext' = ext - 1)
    BY <1>1, <2>1 DEF StartTls, Connect, Handshake
  <2>4. IdleStep /\ env' = NoEnv
    BY <1>1, <2>1 DEF Connect, IdleStep, Return, KeepEnv, spool, Handshake, Numbering
  <2> HIDE DEF m
  <2>5. /\ mode' \in Modes /\ failed' = failed
        /\ mode' \in {"NORMAL", "GLOBAL_RELAY", "NOAUTH", "REFUSE"} => mode' = m
        /\ pc' = "command" /\ mode' = "NORMAL" /\ MaxFailedRcpts > 0
             => failed' < MaxFailedRcpts
        /\ mode' = m \/ m = "NORMAL"
    BY <2>1, <2>2, ReturnStep DEF m
  <2>6. SessionStep
    BY <1>1, <2>2, <2>3, <2>4, <2>5 DEF SessionStep, ModeStep, Connect, KeepEnv, NoFault
  <2> QED  BY <2>4, <2>6 DEF BetweenStep
<1>2. CASE ConnectRefused
  <2>1. PICK rc : Return(rc, "REFUSE", failed)
    BY <1>2 DEF ConnectRefused
  <2>2. "REFUSE" \in Modes
    BY DEF Modes
  <2>3. pc' \in {"command", "close"} /\ mode' = "REFUSE" /\ failed' = failed
    BY <2>1, <2>2, ReturnStep
  <2> QED
    BY <1>2, <2>2, <2>3
       DEF ConnectRefused, Keep, KeepEnv, NoFault, BetweenStep, SessionStep,
           ModeStep, IdleStep, spool
<1>3. CASE ConnectLimit \/ CommandTimeout
  BY <1>3 DEF ConnectLimit, CommandTimeout, Keep, KeepEnv, NoFault, BetweenStep,
              SessionStep, ModeStep, IdleStep, spool
<1>4. CASE f_bad_sequence \/ CommandUnrecognized \/ f_helo \/ f_quit \/ DataRefused
  <2>1. PICK code : Answer(code)
    BY <1>4 DEF f_bad_sequence, CommandUnrecognized, f_helo, f_quit, DataRefused
  <2>2. pc = "command" /\ Keep /\ KeepEnv
    BY <1>4 DEF f_bad_sequence, CommandUnrecognized, f_helo, f_quit, DataRefused, Handles
  <2> QED
    BY <2>1, <2>2, CommandAnswer
       DEF Keep, KeepEnv, NoFault, BetweenStep, SessionStep, IdleStep, spool
<1>5. CASE f_ehlo \/ f_rset \/ f_noop
  <2>1. CASE f_ehlo /\ Answer(501) /\ KeepEnv
    BY <2>1, CommandAnswer
       DEF f_ehlo, Handles, Keep, KeepEnv, NoFault, BetweenStep, SessionStep, IdleStep,
           spool
  <2>2. CASE ~(f_ehlo /\ Answer(501) /\ KeepEnv)
    <3>1. PICK rc, code : /\ Reset(rc) \/ DeliverOnly(rc)
                          /\ Answer(code) \/ Return(rc, mode, failed)
      BY <1>5, <2>2 DEF f_ehlo, f_rset, f_noop
    <3>2. pc = "command" /\ Keep
      BY <1>5 DEF f_ehlo, f_rset, f_noop, Handles
    <3> QED
      BY <3>1, <3>2, CommandAnswer, CommandReturn, ResetStep
         DEF Keep, BetweenStep, SessionStep, DeliverStep
  <2> QED  BY <2>1, <2>2
<1>6. CASE f_starttls
  <2>1. pc = "command" /\ UNCHANGED <<conf, auth, timer, data, md, created, history>>
    BY <1>6 DEF f_starttls, Handles
  <2>2. CASE UNCHANGED <<tls, ext>> /\ KeepEnv /\ \E code : Answer(code)
    BY <2>1, <2>2, CommandAnswer
       DEF KeepEnv, NoFault, BetweenStep, SessionStep, IdleStep, spool
  <2>3. CASE UNCHANGED <<tls, ext>> /\ KeepEnv /\ Return("SYSERROR", mode, failed)
    BY <2>1, <2>3, CommandReturn
       DEF KeepEnv, NoFault, BetweenStep, SessionStep, IdleStep, spool
  <2>4. ASSUME NEW done \in BOOLEAN, NEW rc \in {"OK", "SYSERROR"},
               StartTls(done), Reset(rc), Return(rc, mode, failed), conf.tls, ~tls
        PROVE  BetweenStep
    <3>1. rc = "OK" \/ pc' = "close"
      BY <2>4 DEF Return
    <3>2. UNCHANGED <<tls, ext>> \/ (conf.tls /\ ~tls /\ tls' = TRUE /\ ext' = ext - 1)
      BY <2>4 DEF StartTls
    <3> QED
      BY <2>1, <2>4, <3>1, <3>2, CommandReturn, ResetStep
         DEF BetweenStep, SessionStep, DeliverStep
  <2> QED  BY <1>6, <2>2, <2>3, <2>4 DEF f_starttls
<1>7. CASE f_auth
  <2>1. pc = "command" /\ KeepEnv
        /\ UNCHANGED <<conf, tls, ext, timer, data, md, created, history>>
    BY <1>7 DEF f_auth, Handles
  <2>2. CASE UNCHANGED auth /\ \E code : Answer(code)
    BY <2>1, <2>2, CommandAnswer
       DEF KeepEnv, NoFault, BetweenStep, SessionStep, IdleStep, spool
  <2>3. CASE UNCHANGED auth /\ \E rc : Return(rc, mode, failed)
    BY <2>1, <2>3, CommandReturn
       DEF KeepEnv, NoFault, BetweenStep, SessionStep, IdleStep, spool
  <2>4. CASE auth' = TRUE /\ Return("OK", conf.default, failed)
    <3>1. conf.default \in Modes
      BY DEF ConfType
    <3> QED
      BY <2>1, <2>4, <3>1, ReturnStep
         DEF KeepEnv, NoFault, BetweenStep, ModeStep, SessionStep, IdleStep, spool
  <2> QED  BY <1>7, <2>2, <2>3, <2>4 DEF f_auth
<1>8. CASE f_mail
  <2>1. pc = "command" /\ UNCHANGED <<conf, auth, tls, ext, timer, data, history>>
    BY <1>8 DEF f_mail, Handles
  <2>2. CASE KeepEnv /\ UNCHANGED <<md, created>> /\ \E code : Answer(code)
    BY <2>1, <2>2, CommandAnswer
       DEF KeepEnv, NoFault, BetweenStep, SessionStep, IdleStep, spool
  <2>3. CASE /\ \E rc : (Reset(rc) \/ DeliverOnly(rc)) /\ Return(rc, mode, failed)
             /\ UNCHANGED <<md, created>>
    BY <2>1, <2>3, CommandReturn, ResetStep DEF BetweenStep, SessionStep, DeliverStep
  <2>4. CASE /\ mode \in {"TARPIT", "GLOBAL_RELAY", "NORMAL"}
             /\ created < MaxMail /\ DeliverAccepted /\ NoFault
             /\ created' = created + 1
             /\ env' = [NoEnv EXCEPT !.id = created + 1, !.tls = tls]
             /\ DigestInit /\ Answer(250)
    BY <2>1, <2>4, CommandAnswer DEF NoFault, BetweenStep, SessionStep, BeginStep
  <2> QED  BY <1>8, <2>2, <2>3, <2>4 DEF f_mail, MailUsage, MailRefused, MailAccepted
<1>9. CASE f_rcpt
  <2>1. /\ pc = "command" /\ NoFault
        /\ UNCHANGED <<conf, auth, tls, ext, timer, data, created, history, spool>>
    BY <1>9 DEF f_rcpt, Handles
  <2>2. CASE UNCHANGED <<env, md>> /\ \E code : Answer(code)
    BY <2>1, <2>2, CommandAnswer DEF NoFault, BetweenStep, SessionStep, IdleStep
  <2>3. CASE Opened /\ ~Accepted /\ RcptAccept
    BY <2>1, <2>3, CommandAnswer DEF RcptAccept, NoFault, BetweenStep, SessionStep, RcptStep
  <2>4. ASSUME Opened, ~Accepted, mode = "NORMAL", NEW check, RcptNormal(check)
        PROVE  BetweenStep
    <3>1. CASE RcptAccept
      BY <2>3, <2>4, <3>1
    <3>2. CASE ~RcptAccept
      <4>1. Count(failed) \in Nat
        BY DEF Count
      <4>2. PICK f \in {failed, Count(failed)} : \E rc : Return(rc, mode, f)
        BY <2>4, <3>2, <4>1 DEF RcptNormal, Answer
      <4>3. env' = env /\ (md' = md \/ DigestUpdate(env.id))
        BY <2>4, <3>2 DEF RcptNormal
      <4> QED
        BY <2>1, <2>4, <4>1, <4>2, <4>3, CommandReturn
           DEF NoFault, BetweenStep, SessionStep, RcptStep
    <3> QED  BY <3>1, <3>2
  <2>5. env # NoEnv => Opened
    BY DEF Numbering
  <2> QED  BY <1>9, <2>2, <2>3, <2>4, <2>5 DEF f_rcpt
<1>10. CASE DataOpenFails
  BY <1>10, CommandReturn
     DEF DataOpenFails, MayOpenData, Handles, Keep, Fault, BetweenStep, SessionStep,
         IdleStep
<1>11. CASE AcceptedTimer
  <2>1. PICK rc \in {"OK", "SYSERROR"} :
          DeliverOnly(rc) /\ pc' = IF rc = "OK" THEN "command" ELSE "done"
    BY <1>11 DEF AcceptedTimer
  <2>2. mode = "NORMAL" /\ MaxFailedRcpts > 0 => failed < MaxFailedRcpts
    BY <1>11 DEF AcceptedTimer, Punished
  <2> QED
    BY <1>11, <2>1, <2>2, ResetStep DEF AcceptedTimer, BetweenStep, SessionStep, ModeStep, Auth, DeliverStep
<1>12. CASE Close
  BY <1>12, ResetStep DEF Close, session, BetweenStep, SessionStep, ModeStep, DeliverStep
<1> QED
  BY <1>1, <1>2, <1>3, <1>4, <1>5, <1>6, <1>7, <1>8, <1>9, <1>10, <1>11, <1>12

---------------------------------------------------------------------------
(* Steps between two messages keep the invariant.                          *)

\* deliver_accepted takes the envelope's mail, and no other, out of fast.
LEMMA DeliverFiles ==
    ASSUME IInv, DeliverAccepted
    PROVE  /\ fast' \in [Mail -> SUBSET {"D", "t", "E"}]
           /\ run' \subseteq Mail \X {"mail", "bounce"} /\ queued' = {}
           /\ \A m \in Mail : fast'[m] = IF Accepted /\ m = env.id THEN {} ELSE fast[m]
           /\ \A m \in Mail : MailItem(m) \in run' <=>
                    MailItem(m) \in run \/ (Accepted /\ m = env.id)
<1> USE DEF IInv, TypeOK
<1>1. Accepted => env.id \in Mail
  BY DEF Accepted, Numbering, Opened, NoEnv, Mail
<1>2. \A m \in Mail : MailItem(m) \in Runnable <=> Accepted /\ m = env.id
  BY DEF Runnable, NoMailQueued, MailItem
<1>3. Runnable \subseteq Mail \X {"mail", "bounce"}
  BY <1>1 DEF Runnable, MailItem
<1> QED  BY <1>2, <1>3 DEF DeliverAccepted

EnvType == [id: 0 .. MaxMail, rcpt: BOOLEAN, flags: SUBSET {"D", "t", "E"}, tls: BOOLEAN]

\* The empty envelope has the type of one.
LEMMA NoEnvelope == NoEnv \in EnvType
<1>1. 0 \in 0 .. MaxMail
  BY ReceiveAssumption
<1> QED  BY <1>1 DEF NoEnv, EnvType

\* So has a new one.
LEMMA NewEnvelope ==
    ASSUME NEW i \in 0 .. MaxMail, NEW t \in BOOLEAN
    PROVE  [NoEnv EXCEPT !.id = i, !.tls = t] \in EnvType
BY NoEnvelope, Zenon DEF EnvType

\* What a step between two messages leaves of the type invariant to show.
SpoolType ==
    /\ env \in EnvType
    /\ md \in [status: {"UNINITIALIZED", "READY", "IN_USE", "FINAL"}, of: SUBSET Mail]
    /\ fast \in [Mail -> SUBSET {"D", "t", "E"}] /\ created \in 0 .. MaxMail
    /\ queued \subseteq Mail \X {"mail", "bounce"}
    /\ run \subseteq Mail \X {"mail", "bounce"}

\* Between two messages the types are kept.
LEMMA BetweenType ==
    ASSUME IInv, BetweenStep
    PROVE  TypeOK'
<1>1. TypeOK
  BY DEF IInv
<1>2. SpoolType
  BY <1>1 DEF TypeOK, SpoolType, EnvType
<1>3. SpoolType' => TypeOK'
  <2>1. /\ conf' \in Confs /\ mode' \in Modes /\ auth' \in BOOLEAN
        /\ failed' \in Nat /\ timer' \in BOOLEAN /\ faults' \in 0 .. MaxFaults
    BY <1>1 DEF TypeOK, BetweenStep, SessionStep, ModeStep
  <2>4. tls' \in BOOLEAN
    BY <1>1 DEF TypeOK, BetweenStep, SessionStep
  <2>5. ext' \in Int
    BY <1>1 DEF TypeOK, BetweenStep, SessionStep
  <2>2. UNCHANGED <<data, answer, verdict, seen>>
    BY DEF BetweenStep, SessionStep, history
  <2>3. pc' \in {"command", "close", "done"}
    BY DEF BetweenStep, IdleStep, DeliverStep, BeginStep, RcptStep
  <2> QED  BY <1>1, <2>1, <2>2, <2>3, <2>4, <2>5 DEF TypeOK, SpoolType, EnvType
<1>4. CASE IdleStep
  BY <1>2, <1>3, <1>4 DEF IdleStep, SpoolType, spool
<1>5. CASE DeliverStep
  <2>1. env' \in EnvType
    BY <1>2, <1>5, NoEnvelope DEF DeliverStep, SpoolType
  <2> QED  BY <1>2, <1>3, <1>5, <2>1, DeliverFiles DEF DeliverStep, SpoolType
<1>6. CASE BeginStep
  <2>1. md' \in [status: {"UNINITIALIZED", "READY", "IN_USE", "FINAL"}, of: SUBSET Mail]
    BY <1>2, <1>6 DEF BeginStep, DigestInit, SpoolType
  <2>2. created + 1 \in 0 .. MaxMail /\ tls \in BOOLEAN
    BY <1>1, <1>6, ReceiveAssumption DEF TypeOK, BeginStep
  <2>3. env' \in EnvType
    BY <1>6, <2>2, NewEnvelope DEF BeginStep
  <2> QED  BY <1>3, <1>6, <2>1, <2>2, <2>3, DeliverFiles DEF BeginStep, SpoolType
<1>7. CASE RcptStep
  <2>1. env.id \in Mail
    BY <1>2, <1>7 DEF RcptStep, Opened, Mail, SpoolType, EnvType
  <2>2. md' \in [status: {"UNINITIALIZED", "READY", "IN_USE", "FINAL"}, of: SUBSET Mail]
    BY <1>2, <1>7, <2>1 DEF RcptStep, DigestUpdate, SpoolType
  <2> QED  BY <1>2, <1>3, <1>7, <2>2 DEF RcptStep, SpoolType, EnvType, spool
<1> QED  BY <1>4, <1>5, <1>6, <1>7 DEF BetweenStep

\* What such a step does to the envelope: it is dropped, kept or a new one, and
\* one that was accepted is not kept when it is delivered.
EnvStep ==
    \/ env' = NoEnv
    \/ /\ env'.id = env.id /\ env'.flags = env.flags /\ env'.tls = env.tls
       /\ Opened /\ created' = created
    \/ /\ env' = [NoEnv EXCEPT !.id = created + 1, !.tls = tls]
       /\ created' = created + 1 /\ UNCHANGED tls
       /\ mode \in {"TARPIT", "GLOBAL_RELAY", "NORMAL"} /\ pc = "command"

\* Between two messages the envelope is kept, dropped or made anew.
LEMMA BetweenEnv ==
    ASSUME IInv, BetweenStep
    PROVE  /\ EnvStep
           /\ created' \in {created, created + 1}
           /\ pc \in {"connect", "command", "close"} /\ pc' \in {"command", "close", "done"}
           /\ pc = "close" => pc' = "done"
<1> USE DEF IInv, TypeOK, NoEnv, Opened, Numbering
<1>1. CASE IdleStep
  BY <1>1 DEF IdleStep, EnvStep
<1>2. CASE DeliverStep
  BY <1>2 DEF DeliverStep, EnvStep
<1>3. CASE BeginStep
  BY <1>3 DEF BeginStep, EnvStep, BetweenStep, SessionStep
<1>4. CASE RcptStep
  BY <1>4 DEF RcptStep, EnvStep
<1> QED  BY <1>1, <1>2, <1>3, <1>4 DEF BetweenStep

\* Extensions other than TLS.
Others == Cardinality({x \in {"size", "sasl"} : conf[x]})

\* They can be counted.
LEMMA OthersNat ==
    Others \in Nat /\ IsFiniteSet({x \in {"size", "sasl"} : conf[x]})
<1> DEFINE S == {x \in {"size", "sasl"} : conf[x]}
<1>1. IsFiniteSet({"size"} \cup {"sasl"})
  BY FS_Singleton, FS_Union
<1>2. S \in SUBSET ({"size"} \cup {"sasl"})
  OBVIOUS
<1> HIDE DEF S
<1>3. IsFiniteSet(S)
  BY <1>1, <1>2, FS_Subset
<1>4. Cardinality(S) \in Nat
  BY <1>3, FS_CardinalityType
<1> QED  BY <1>3, <1>4 DEF Others, S

\* TLS is one extension more.
LEMMA EhloInit ==
    Cardinality({x \in {"size", "sasl", "tls"} : conf[x]})
      = Others + (IF conf.tls THEN 1 ELSE 0)
<1> DEFINE S == {x \in {"size", "sasl"} : conf[x]}
           T == {x \in {"size", "sasl", "tls"} : conf[x]}
<1>1. IsFiniteSet(S)
  BY OthersNat
<1>2. CASE conf.tls
  <2>1. T = S \cup {"tls"} /\ "tls" \notin S
    BY <1>2
  <2> HIDE DEF S, T
  <2> QED  BY <1>1, <1>2, <2>1, FS_AddElement DEF Others, S
<1>3. CASE ~conf.tls
  <2>1. Cardinality(T) = Cardinality(S)
    <3>1. T = S
      BY <1>3
    <3> QED  BY <3>1
  <2>2. Others = Cardinality(S) /\ Others \in Nat
    BY OthersNat DEF Others
  <2> HIDE DEF S, T
  <2> QED  BY <1>3, <2>1, <2>2 DEF T
<1> QED  BY <1>2, <1>3

\* Between two messages TLS, authentication and punishment are respected.
LEMMA BetweenSession ==
    ASSUME IInv, BetweenStep
    PROVE  Handshake' /\ Auth' /\ Punished' /\ TlsStartsAfresh'
<1>1. SessionStep /\ TypeOK
  BY DEF BetweenStep, IInv
<1>2. /\ EnvStep /\ created' \in {created, created + 1}
      /\ pc \in {"connect", "command", "close"} /\ pc' \in {"command", "close", "done"}
      /\ pc = "close" => pc' = "done"
  BY BetweenEnv
<1>3. Handshake'
  <2>1. Others' = Others /\ conf' = conf
    BY <1>1 DEF SessionStep, Others
  <2>2. EhloLines = 1 + Others + (IF conf.tls /\ ~tls THEN 1 ELSE 0)
    BY DEF EhloLines, Others
  <2>3. EhloLines' = 1 + Others + (IF conf.tls /\ ~tls' THEN 1 ELSE 0)
    BY <2>1 DEF EhloLines, Others
  <2>4. ext = EhloLines - 1
    BY DEF IInv, Handshake
  <2>5. CASE UNCHANGED <<tls, ext>>
    BY <1>2, <2>2, <2>3, <2>4, <2>5, OthersNat DEF Handshake
  <2>6. CASE conf.tls /\ ~tls /\ tls' = TRUE /\ ext' = ext - 1
    BY <1>2, <2>2, <2>3, <2>4, <2>6, OthersNat DEF Handshake
  <2> QED  BY <1>1, <2>5, <2>6 DEF SessionStep
<1>4. Auth'
  <2>1. SUFFICES ASSUME conf.sasl, ~auth' PROVE ~Opened' /\ (pc' = "command" => mode' \in {"NOAUTH", "OFF", "REFUSE"})
    BY <1>1 DEF SessionStep, Auth
  <2>2. ~auth
    BY <1>1, <2>1 DEF SessionStep
  <2>3. ~Opened /\ (pc = "command" => mode \in {"NOAUTH", "OFF", "REFUSE"})
    BY <2>1, <2>2 DEF IInv, Auth
  <2>4. ~Opened'
    BY <1>2, <2>3 DEF EnvStep, Opened, NoEnv
  <2> QED  BY <1>1, <2>1, <2>4 DEF SessionStep, ModeStep
<1>5. Punished'
  <2>1. Punished /\ conf' = conf
    BY <1>1 DEF IInv, SessionStep
  <2>2. mode' \in {"NORMAL", "GLOBAL_RELAY"} => mode' = conf.default
    BY <1>1, <2>1 DEF Punished, SessionStep, ModeStep
  <2>3. failed' > 0 => conf.default = "NORMAL"
    BY <1>1, <2>1 DEF Punished, SessionStep, ModeStep, TypeOK
  <2>4. MaxFailedRcpts > 0 /\ failed' >= MaxFailedRcpts /\ pc' = "command"
          => mode' # "NORMAL"
    BY <1>1, ReceiveAssumption DEF SessionStep, ModeStep
  <2> QED  BY <1>2, <2>1, <2>2, <2>3, <2>4 DEF Punished, DataPc
<1>6. TlsStartsAfresh'
  <2>1. SUFFICES ASSUME env' # NoEnv, pc' = "command" PROVE env'.tls = tls'
    BY <1>2 DEF TlsStartsAfresh, NoEnv
  <2>2. tls' = tls
    BY <1>1, <2>1 DEF SessionStep
  <2>3. CASE env'.tls = env.tls /\ Opened
    <3>1. pc \in {"connect", "command"}
      BY <2>1, <1>2
    <3>2. env # NoEnv
      BY <2>3 DEF Opened, NoEnv
    <3> QED  BY <2>2, <2>3, <3>1, <3>2 DEF IInv, TlsStartsAfresh
  <2>4. CASE env' = [NoEnv EXCEPT !.id = created + 1, !.tls = tls]
    BY <2>2, <2>4 DEF NoEnv
  <2> QED BY <1>2, <2>1, <2>3, <2>4 DEF EnvStep
<1> QED  BY <1>3, <1>4, <1>5, <1>6

\* A message stays where it is, or it was accepted and is run now.
SpoolStep ==
    \A m \in Mail :
        /\ \/ /\ fast'[m] = fast[m]
              /\ MailItem(m) \in run' <=> MailItem(m) \in run
           \/ /\ m = env.id /\ Accepted /\ env'.id # m
              /\ fast'[m] = {} /\ MailItem(m) \in run'
        /\ MailItem(m) \notin queued'

\* Between two messages only deliver_accepted takes files out of fast.
LEMMA BetweenSpool ==
    ASSUME IInv, BetweenStep
    PROVE  SpoolStep
<1> SUFFICES ASSUME NEW m \in Mail
             PROVE  /\ \/ /\ fast'[m] = fast[m]
                          /\ MailItem(m) \in run' <=> MailItem(m) \in run
                       \/ /\ m = env.id /\ Accepted /\ env'.id # m
                          /\ fast'[m] = {} /\ MailItem(m) \in run'
                    /\ MailItem(m) \notin queued'
  BY DEF SpoolStep
<1>2. MailItem(m) \notin queued
  BY DEF IInv, NoMailQueued
<1>3. CASE IdleStep \/ RcptStep
  BY <1>2, <1>3 DEF IdleStep, RcptStep, spool
<1>4. CASE DeliverStep
  BY <1>4, DeliverFiles DEF DeliverStep, NoEnv, Mail
<1>5. CASE BeginStep
  <2>1. env'.id = created + 1
    BY <1>5 DEF BeginStep, NoEnv
  <2>2. Accepted => env.id = created
    BY DEF IInv, Numbering, Accepted, NoEnv
  <2>3. created \in Nat
    BY DEF IInv, TypeOK
  <2> QED  BY <1>5, <2>1, <2>2, <2>3, DeliverFiles DEF BeginStep
<1> QED  BY <1>3, <1>4, <1>5 DEF BetweenStep

\* Between two messages no number is reused and no verdict given.
LEMMA BetweenNumbers ==
    ASSUME IInv, BetweenStep
    PROVE  Numbering' /\ NoMailQueued' /\ Unanswered' /\ Verdicts' /\ Disposal'
<1>1. /\ EnvStep /\ created' \in {created, created + 1}
      /\ pc \in {"connect", "command", "close"} /\ pc' \in {"command", "close", "done"}
      /\ pc = "close" => pc' = "done"
  BY BetweenEnv
<1>2. /\ SpoolStep /\ answer' = answer /\ verdict' = verdict
      /\ TypeOK' /\ Numbering /\ Unanswered /\ Handshake
  BY BetweenSpool, BetweenType DEF IInv, BetweenStep, SessionStep, history
<1>3. created \in Nat /\ env.id \in Nat
  BY DEF IInv, TypeOK
<1>4. Numbering'
  <2>1. ~Opened' => env' = NoEnv
    <3>1. CASE env' = [NoEnv EXCEPT !.id = created + 1, !.tls = tls]
      <4>1. env'.id = created + 1
        BY <3>1 DEF NoEnv
      <4> QED  BY <1>3, <4>1 DEF Opened
    <3> QED  BY <1>1, <3>1 DEF EnvStep, Opened
  <2>2. Opened' => env'.id = created' /\ pc' # "killed"
    <3>1. CASE env' = [NoEnv EXCEPT !.id = created + 1, !.tls = tls] /\ created' = created + 1
      BY <1>1, <3>1 DEF NoEnv
    <3>2. CASE env' = NoEnv
      BY <3>2 DEF NoEnv, Opened
    <3> QED  BY <1>1, <1>2, <3>1, <3>2 DEF EnvStep, Numbering
  <2>3. pc' \notin DataPc
    BY <1>1 DEF DataPc
  <2>4. ASSUME NEW m \in Mail, m > created'
        PROVE  /\ fast'[m] = {} /\ answer'[m] = "none" /\ verdict'[m] = {}
               /\ MailItem(m) \notin run'
    <3>1. m > created /\ m # env.id
      BY <1>1, <1>2, <1>3, <2>4 DEF Mail, Numbering, Opened
    <3> QED  BY <1>2, <3>1 DEF SpoolStep, Numbering
  <2> QED  BY <2>1, <2>2, <2>3, <2>4 DEF Numbering, MailItem
<1>5. NoMailQueued'
  BY <1>2 DEF SpoolStep, NoMailQueued, MailItem
<1>6. Unanswered'
  <2>1. \/ ~Opened' \/ Accepted'
        \/ answer'[env'.id] = "none" /\ (pc' = "command" => verdict'[env'.id] = {})
    <3>1. CASE env' = NoEnv
      BY <3>1 DEF Opened, NoEnv
    <3>2. CASE env'.id = env.id /\ env'.flags = env.flags /\ Opened
      BY <1>1, <1>2, <3>2 DEF Unanswered, Accepted, Handshake
    <3>3. CASE env' = [NoEnv EXCEPT !.id = created + 1, !.tls = tls] /\ created' = created + 1
      <4>1. env'.id = created + 1 /\ created + 1 > created /\ created + 1 \in Mail
        BY <1>2, <1>3, <3>3 DEF TypeOK, NoEnv, Mail
      <4> QED  BY <1>2, <4>1 DEF Numbering
    <3> QED  BY <1>1, <3>1, <3>2, <3>3 DEF EnvStep
  <2> QED  BY <1>1, <2>1 DEF Unanswered
<1>7. Verdicts' /\ Disposal'
  BY <1>1 DEF Verdicts, Disposal
<1> QED  BY <1>4, <1>5, <1>6, <1>7

\* Between two messages the flags of the envelope agree with the files.
LEMMA BetweenFiles ==
    ASSUME IInv, BetweenStep
    PROVE  Files'
<1>1. /\ EnvStep /\ created' \in {created, created + 1}
      /\ pc \in {"connect", "command", "close"} /\ pc' \in {"command", "close", "done"}
      /\ pc = "close" => pc' = "done"
  BY BetweenEnv
<1>2. SpoolStep /\ TypeOK /\ TypeOK' /\ Numbering /\ Files
  BY BetweenSpool, BetweenType DEF IInv
<1>3. CASE env' = NoEnv
  BY <1>3 DEF Files, Opened, NoEnv
<1>4. CASE env'.id = env.id /\ env'.flags = env.flags /\ Opened
  <2>1. env.id \in Mail
    BY <1>2, <1>4 DEF Opened, TypeOK, Mail
  <2>2. fast'[env.id] = fast[env.id] /\ (MailItem(env.id) \in run' <=> MailItem(env.id) \in run)
    BY <1>2, <1>4, <2>1 DEF SpoolStep
  <2> QED  BY <1>1, <1>2, <1>4, <2>2 DEF Files, Accepted, MailItem, DataPc
<1>5. CASE env' = [NoEnv EXCEPT !.id = created + 1, !.tls = tls] /\ created' = created + 1
  <2>1. env'.id = created + 1 /\ created + 1 > created /\ created + 1 \in Mail
        /\ env'.flags = {}
    BY <1>2, <1>5 DEF TypeOK, NoEnv, Mail
  <2>2. env.id # created + 1
    BY <1>2, <2>1 DEF TypeOK, Numbering, Opened
  <2>3. fast'[created + 1] = {} /\ MailItem(created + 1) \notin run'
    BY <1>2, <2>1, <2>2 DEF SpoolStep, Numbering
  <2> QED  BY <1>1, <2>1, <2>3 DEF Files, Accepted, MailItem, DataPc
<1> QED  BY <1>1, <1>3, <1>4, <1>5 DEF EnvStep

\* Between two messages an answer stays true.
LEMMA BetweenKept ==
    ASSUME IInv, BetweenStep
    PROVE  AnsweredIsKept' /\ RefusedIsGone' /\ AuthBeforeAccept'
<1>1. /\ answer' = answer /\ verdict' = verdict /\ seen' = seen
      /\ conf' = conf /\ (auth => auth')
  BY DEF BetweenStep, SessionStep, history
<1>2. SpoolStep /\ TypeOK /\ Files /\ Auth
  BY BetweenSpool DEF IInv
<1>3. AnsweredIsKept /\ RefusedIsGone /\ AuthBeforeAccept
  BY DEF IInv
<1>4. AnsweredIsKept'
  BY <1>1, <1>2, <1>3 DEF AnsweredIsKept, SpoolStep, MailItem
<1>5. RefusedIsGone'
  <2> SUFFICES ASSUME NEW m \in Mail, answer[m] \in {"451", "554"}, "JAIL" \notin verdict[m]
               PROVE  "E" \notin fast'[m] /\ MailItem(m) \notin run'
    BY <1>1 DEF RefusedIsGone, MailItem
  <2>1. "E" \notin fast[m] /\ MailItem(m) \notin run
    BY <1>3 DEF RefusedIsGone
  <2>2. ~(m = env.id /\ Accepted)
    BY <1>2, <2>1 DEF Files, Accepted, Opened, Mail
  <2> QED  BY <1>2, <2>1, <2>2 DEF SpoolStep
<1>6. AuthBeforeAccept'
  <2> SUFFICES ASSUME conf.sasl, ~auth', NEW m \in Mail
               PROVE  "E" \notin fast'[m] /\ MailItem(m) \notin run'
    BY <1>1 DEF AuthBeforeAccept, MailItem
  <2>1. ~Opened /\ "E" \notin fast[m] /\ MailItem(m) \notin run
    BY <1>1, <1>2, <1>3 DEF Auth, AuthBeforeAccept
  <2>2. m # env.id
    BY <2>1 DEF Opened, Mail
  <2> QED  BY <1>2, <2>1, <2>2 DEF SpoolStep
<1> QED  BY <1>4, <1>5, <1>6

\* Between two messages the digest starts over.
LEMMA BetweenDigest ==
    ASSUME IInv, BetweenStep
    PROVE  Digest'
<1> USE DEF Digest, Opened
<1>1. conf' = conf /\ Digest
  BY DEF BetweenStep, SessionStep, IInv
<1>2. CASE IdleStep
  BY <1>1, <1>2 DEF IdleStep
<1>3. CASE DeliverStep
  BY <1>1, <1>3 DEF DeliverStep, NoEnv
<1>4. CASE BeginStep
  <2>1. md'.of = {}
    BY <1>1, <1>4 DEF BeginStep, DigestInit
  <2> QED  BY <2>1
<1>5. CASE RcptStep
  <2>1. md' = md \/ (conf.filter /\ md' = [status |-> "IN_USE", of |-> md.of \cup {env.id}])
    BY <1>5 DEF RcptStep, DigestUpdate
  <2>2. env'.id = env.id
    BY <1>5 DEF RcptStep, IInv, TypeOK
  <2> QED  BY <1>1, <1>5, <2>1, <2>2 DEF RcptStep
<1> QED  BY <1>2, <1>3, <1>4, <1>5 DEF BetweenStep

---------------------------------------------------------------------------
(* The steps of f_data, from 354 to the answer.                            *)

Answering ==
    \/ DataOpen \/ DataLine \/ DataEnd \/ DataTimeout \/ DataFilter
    \/ DataBounce \/ DataDispose \/ DataCommit \/ DataAnswer

\* They keep the session and touch no file but those of their message.
DataFrame ==
    /\ Opened /\ env.id \in Mail
    /\ ~Accepted \/ pc = "answer"
    /\ pc \in (DataPc \cup {"command"}) \ {"error"} /\ pc' \in DataPc
    /\ UNCHANGED <<conf, auth, tls, ext, failed, created, run>>
    /\ env'.id = env.id /\ env'.tls = env.tls
    /\ \A m \in Mail \ {env.id} :
        fast'[m] = fast[m] /\ answer'[m] = answer[m] /\ verdict'[m] = verdict[m]
    /\ seen \subseteq seen'
    /\ \A m \in Mail : MailItem(m) \notin queued'
    /\ md'.of = md.of /\ (md'.status = md.status \/ md'.status = "FINAL")
    /\ "D" \in env'.flags => "D" \in env.flags \/ (pc = "command" /\ mode # "TARPIT")
    /\ mode' \in {mode, "OFF", "TARPIT"}

\* The steps of f_data stay within its frame.
LEMMA DataShape ==
    ASSUME IInv, Answering
    PROVE  DataFrame
<1>1. TypeOK /\ Numbering /\ Files /\ NoMailQueued
  BY DEF IInv
<1>2. CASE DataOpen
  <2>1. pc = "command" /\ env # NoEnv /\ ~Accepted
    BY <1>2 DEF DataOpen, MayOpenData, Handles
  <2>2. Opened /\ env.id \in Mail
    BY <1>1, <2>1 DEF Numbering, Opened, TypeOK, Mail
  <2> QED
    BY <1>1, <1>2, <2>1, <2>2
       DEF DataOpen, DataFrame, KeepSession, session, history, TypeOK, DataPc, NoMailQueued
<1>3. pc \in DataPc => Opened /\ env.id \in Mail
  BY <1>1 DEF Numbering, Opened, TypeOK, Mail
<1>4. CASE DataLine
  BY <1>1, <1>3, <1>4
     DEF DataLine, DropDfile, DataFrame, KeepSession, session, TypeOK, DataPc, NoMailQueued, Files
<1>5. CASE DataEnd \/ DataTimeout
  BY <1>1, <1>3, <1>5
     DEF DataEnd, DataTimeout, DataFrame, KeepSession, KeepEnv, session, spool, history, TypeOK,
         DataPc, NoMailQueued, Files, DataError
<1>6. CASE DataFilter
  <2>1. /\ pc = "filter" /\ pc' \in {"bounce", "error"}
        /\ UNCHANGED <<conf, mode, auth, tls, ext, failed, created, run, queued, answer, seen>>
    BY <1>6 DEF DataFilter, KeepSession, session, DataError
  <2>2. env'.id = env.id /\ env'.tls = env.tls /\ ("D" \in env'.flags => "D" \in env.flags)
    BY <1>1, <1>6 DEF DataFilter, TypeOK
  <2>3. \A m \in Mail \ {env.id} : fast'[m] = fast[m] /\ verdict'[m] = verdict[m]
    BY <1>1, <1>6 DEF DataFilter, TypeOK
  <2>4. md'.of = md.of /\ (md'.status = md.status \/ md'.status = "FINAL")
    BY <1>1, <1>6 DEF DataFilter, TypeOK
  <2> QED
    BY <1>1, <1>3, <2>1, <2>2, <2>3, <2>4 DEF DataFrame, DataPc, NoMailQueued, Files
<1>7. CASE DataBounce
  <2>1. \A m \in Mail : MailItem(m) # BounceItem(env.id)
    BY DEF MailItem, BounceItem
  <2> QED
    BY <1>1, <1>3, <1>7, <2>1 
     DEF DataBounce, DataFrame, TypeOK, DataPc, NoMailQueued, Files, DataError
<1>8. CASE DataDispose
  BY <1>1, <1>3, <1>8
     DEF DataDispose, Without, DataFrame, KeepSession, session, history, TypeOK,
         DataPc, NoMailQueued, Files, DataError
<1>9. CASE DataCommit
  BY <1>1, <1>3, <1>9
     DEF DataCommit, DataFrame, history, TypeOK, DataPc, NoMailQueued, Files, DataError
<1>10. CASE DataAnswer
  BY <1>1, <1>3, <1>10
     DEF DataAnswer, DataFrame, spool, TypeOK, DataPc, NoMailQueued, Files
<1> QED
  BY <1>2, <1>4, <1>5, <1>6, <1>7, <1>8, <1>9, <1>10 DEF Answering

\* What the frame alone keeps.
LEMMA DataKeeps ==
    ASSUME IInv, Answering, TypeOK'
    PROVE  /\ Handshake' /\ Numbering' /\ NoMailQueued' /\ Digest' /\ Auth'
           /\ TlsStartsAfresh' /\ AuthBeforeAccept' /\ Punished'
<1>1. DataFrame
  BY DataShape
<1>2. TypeOK /\ Handshake /\ Numbering /\ Digest /\ Auth /\ TlsStartsAfresh /\ Punished
  BY DEF IInv
<1>3. Handshake'
  <2>1. EhloLines' = EhloLines
    BY <1>1 DEF DataFrame, EhloLines
  <2> QED  BY <1>1, <1>2, <2>1 DEF DataFrame, Handshake, DataPc
<1>4. Numbering'
  <2>1. ASSUME NEW m \in Mail, m > created
        PROVE  /\ fast'[m] = {} /\ answer'[m] = "none" /\ verdict'[m] = {}
               /\ MailItem(m) \notin run'
    <3>1. m # env.id
      BY <1>1, <1>2, <2>1 DEF DataFrame, Numbering, TypeOK, Mail
    <3> QED  BY <1>1, <1>2, <2>1, <3>1 DEF DataFrame, Numbering
  <2>2. Opened' /\ env'.id = created' /\ pc' # "killed" /\ created' = created
    BY <1>1, <1>2 DEF DataFrame, Numbering, Opened, DataPc
  <2> QED  BY <2>1, <2>2 DEF Numbering, MailItem
<1>5. NoMailQueued'
  BY <1>1 DEF DataFrame, NoMailQueued, MailItem
<1>6. Digest'
  <2>1. ~conf.filter => md.of = {}
    BY <1>2 DEF Digest
  <2> QED  BY <1>1, <1>2, <2>1 DEF DataFrame, Digest, Opened
<1>7. Auth' /\ AuthBeforeAccept'
  BY <1>1, <1>2 DEF DataFrame, Auth, AuthBeforeAccept
<1>8. TlsStartsAfresh'
  <2>1. env # NoEnv /\ pc \notin {"close", "done"}
    BY <1>1 DEF DataFrame, Opened, NoEnv, DataPc
  <2> QED  BY <1>1, <1>2, <2>1 DEF DataFrame, TlsStartsAfresh
<1>9. Punished'
  <2>1. MaxFailedRcpts > 0 /\ failed >= MaxFailedRcpts => "D" \notin env'.flags
    <3> SUFFICES ASSUME MaxFailedRcpts > 0, failed >= MaxFailedRcpts, "D" \in env'.flags
                 PROVE  FALSE
      OBVIOUS
    <3>1. CASE pc = "command" /\ mode # "TARPIT"
      <4>1. DataOpen
        BY <3>1 DEF Answering, DataLine, DataEnd, DataTimeout, DataFilter, DataBounce,
                    DataDispose, DataCommit, DataAnswer
      <4>2. mode \in {"GLOBAL_RELAY", "NORMAL"}
        BY <3>1, <4>1 DEF DataOpen, MayOpenData
      <4> QED  BY <1>2, <3>1, <4>2, ReceiveAssumption DEF Punished, TypeOK
    <3>2. CASE "D" \in env.flags
      <4>1. pc \in DataPc \/ (pc = "command" /\ ~Accepted)
        BY <1>1 DEF DataFrame
      <4>2. pc \in DataPc
        BY <1>1, <3>2, <4>1 DEF IInv, Files, DataFrame, DataPc, Accepted
      <4> QED  BY <1>2, <3>2, <4>2 DEF Punished
    <3> QED  BY <1>1, <3>1, <3>2 DEF DataFrame
  <2> QED  BY <1>1, <1>2, <2>1 DEF DataFrame, Punished, DataPc
<1> QED  BY <1>3, <1>4, <1>5, <1>6, <1>7, <1>8, <1>9

\* A step before the answer leaves the promises about its message alone: there
\* is no answer yet.
LEMMA DataPromises ==
    ASSUME IInv, Answering, UNCHANGED answer
    PROVE  AnsweredIsKept' /\ RefusedIsGone'
<1>1. DataFrame
  BY DataShape
<1>2. answer[env.id] = "none"
  BY <1>1 DEF IInv, DataFrame, Unanswered, DataPc
<1>3. AnsweredIsKept /\ RefusedIsGone
  BY DEF IInv
<1>4. AnsweredIsKept'
  <2> SUFFICES ASSUME NEW m \in Mail, answer[m] = "250"
               PROVE  \/ {"D", "E"} \subseteq fast'[m] \/ MailItem(m) \in run'
                      \/ {"DELETE", "BOUNCE"} \cap verdict'[m] # {} \/ m \in seen'
    BY DEF AnsweredIsKept, MailItem
  <2>1. m # env.id
    BY <1>2
  <2> QED  BY <1>1, <1>3, <2>1 DEF DataFrame, AnsweredIsKept
<1>5. RefusedIsGone'
  <2> SUFFICES ASSUME NEW m \in Mail, answer[m] \in {"451", "554"}, "JAIL" \notin verdict'[m]
               PROVE  "E" \notin fast'[m] /\ MailItem(m) \notin run'
    BY DEF RefusedIsGone, MailItem
  <2>1. m # env.id
    BY <1>2
  <2> QED  BY <1>1, <1>3, <2>1 DEF DataFrame, RefusedIsGone
<1> QED  BY <1>4, <1>5

DataType ==
    [banner: {"TEMPFAIL", "REJECT", "ACCEPT", "DELETE"},
     err: {"NO", "PROTOCOL", "SYSTEM"}, open: BOOLEAN, bits: SUBSET Bits,
     ret: {"OK", "CLOSE", "SYSERROR"}, gave: BOOLEAN]
MdType == [status: {"UNINITIALIZED", "READY", "IN_USE", "FINAL"}, of: SUBSET Mail]

\* What the frame leaves of the type invariant to show.
MessageType ==
    /\ env \in EnvType /\ fast \in [Mail -> SUBSET {"D", "t", "E"}]
    /\ data \in DataType /\ md \in MdType /\ timer \in BOOLEAN
    /\ queued \subseteq Mail \X {"mail", "bounce"}
    /\ answer \in [Mail -> {"none", "250", "451", "554"}]
    /\ verdict \in [Mail -> SUBSET Bits]
    /\ seen \subseteq Mail /\ faults \in 0 .. MaxFaults

\* Only the message can break the types in f_data.
LEMMA MessageTypes ==
    ASSUME IInv, DataFrame
    PROVE  MessageType /\ (MessageType' => TypeOK')
<1>1. TypeOK
  BY DEF IInv
<1>2. MessageType
  BY <1>1 DEF TypeOK, MessageType, EnvType, DataType, MdType
<1>3. mode' \in Modes
  BY <1>1 DEF TypeOK, DataFrame, Modes
<1>4. pc' \in {"connect", "command", "read", "filter", "bounce", "dispose", "commit",
               "answer", "error", "close", "done", "killed"}
  BY DEF DataFrame, DataPc
<1>5. /\ conf' \in Confs /\ auth' \in BOOLEAN /\ tls' \in BOOLEAN /\ ext' \in Int
      /\ failed' \in Nat /\ created' \in 0 .. MaxMail
      /\ run' \subseteq Mail \X {"mail", "bounce"}
  BY <1>1 DEF TypeOK, DataFrame
<1> QED
  BY <1>2, <1>3, <1>4, <1>5 DEF TypeOK, MessageType, EnvType, DataType, MdType

\* f_data starts well typed.
LEMMA NoDataType == NoData \in DataType
BY DEF NoData, DataType

\* Faults stay within their bound.
LEMMA FaultType ==
    ASSUME IInv, Fault \/ NoFault
    PROVE  faults' \in 0 .. MaxFaults
BY ReceiveAssumption DEF IInv, TypeOK, Fault, NoFault

\* The part of the invariant that follows the message through f_data.
DataInv == TypeOK /\ Files /\ Unanswered /\ Verdicts /\ Disposal

\* The D file is created.
LEMMA DataOpenInv ==
    ASSUME IInv, DataOpen
    PROVE  DataInv'
<1>1. DataInv /\ DataFrame
  BY DataShape DEF IInv, DataInv, Answering
<1>2. pc = "command" /\ env.flags = {} /\ fast[env.id] = {}
  BY <1>1 DEF DataOpen, MayOpenData, Handles, DataInv, Files, DataFrame, DataPc, Accepted
<1>3. TypeOK'
  <2>1. MessageType /\ (MessageType' => TypeOK')
    BY <1>1, MessageTypes
  <2>2. env' \in EnvType /\ fast' \in [Mail -> SUBSET {"D", "t", "E"}]
    BY <2>1 DEF DataOpen, MessageType, EnvType
  <2>3. data' \in DataType
    BY NoDataType DEF DataOpen, DataType
  <2> QED
    BY <2>1, <2>2, <2>3, FaultType DEF DataOpen, MessageType, KeepSession, session, history
<1>4. Files'
  BY <1>1, <1>2 DEF DataOpen, DataInv, DataFrame, TypeOK, Files, Accepted, DataPc, Opened, MailItem
<1>5. Unanswered'
  BY <1>1, <1>2 DEF DataOpen, DataInv, DataFrame, TypeOK, Unanswered, Accepted, Opened, history, NoData
<1>6. Verdicts' /\ Disposal'
  BY <1>1, <1>2 DEF DataOpen, DataInv, DataFrame, TypeOK, Verdicts, Disposal, NoData
<1> QED  BY <1>3, <1>4, <1>5, <1>6 DEF DataInv

\* A line is read, or the D file is dropped.
LEMMA DataLineInv ==
    ASSUME IInv, DataLine
    PROVE  DataInv'
<1>1. DataInv /\ DataFrame
  BY DataShape DEF IInv, DataInv, Answering
<1>3. TypeOK'
  <2>1. MessageType /\ (MessageType' => TypeOK')
    BY <1>1, MessageTypes
  <2>2. env' \in EnvType /\ fast' \in [Mail -> SUBSET {"D", "t", "E"}]
    BY <2>1 DEF DataLine, DropDfile, MessageType, EnvType
  <2>3. data' \in DataType
    BY <2>1 DEF DataLine, DataType, MessageType
  <2>4. seen' \subseteq Mail /\ (Fault \/ NoFault)
    BY <1>1, <2>1 DEF DataLine, DropDfile, MessageType, DataFrame
  <2> QED
    BY <2>1, <2>2, <2>3, <2>4, FaultType DEF DataLine, MessageType, KeepSession, session
<1>4. Files'
  <2>1. pc = "read" /\ pc' = "read" /\ run' = run
    BY DEF DataLine
  <2>2. CASE UNCHANGED <<env, fast>>
    BY <1>1, <2>1, <2>2 DEF DataInv, Files, Accepted, DataPc, Opened, MailItem
  <2>3. CASE /\ env' = [env EXCEPT !.flags = @ \ {"D"}]
             /\ fast' = [fast EXCEPT ![env.id] = @ \ {"D"}]
    <3>1. env'.id = env.id /\ env'.flags = env.flags \ {"D"}
          /\ fast'[env.id] = fast[env.id] \ {"D"}
      BY <1>1, <2>3 DEF DataInv, DataFrame, TypeOK
    <3> QED  BY <1>1, <2>1, <3>1 DEF DataInv, Files, Accepted, DataPc, Opened, MailItem
  <2> QED  BY <2>2, <2>3 DEF DataLine, DropDfile
<1>5. Unanswered'
  BY <1>1 DEF DataLine, DropDfile, DataInv, DataFrame, TypeOK, Unanswered, Accepted, Opened, history
<1>6. Verdicts' /\ Disposal'
  BY <1>1 DEF DataLine, DropDfile, DataInv, DataFrame, TypeOK, Verdicts, Disposal
<1> QED  BY <1>3, <1>4, <1>5, <1>6 DEF DataInv

\* The text ends, or the sender is too slow.
LEMMA DataEndInv ==
    ASSUME IInv, DataEnd \/ DataTimeout
    PROVE  DataInv'
<1>1. DataInv /\ DataFrame /\ pc = "read" /\ pc' \in {"filter", "error"}
  BY DataShape DEF IInv, DataInv, Answering, DataEnd, DataTimeout, DataError
<1>2. UNCHANGED <<env, fast, run, queued, md, answer, verdict, seen, timer>>
  BY DEF DataEnd, DataTimeout, KeepSession, KeepEnv, session, spool, history
<1>3. TypeOK'
  <2>1. MessageType /\ (MessageType' => TypeOK')
    BY <1>1, MessageTypes
  <2>2. data' \in DataType
    BY <2>1 DEF DataEnd, DataTimeout, DataError, DataType, MessageType
  <2>3. Fault \/ NoFault
    BY DEF DataEnd, DataTimeout, KeepEnv
  <2> QED  BY <1>2, <2>1, <2>2, <2>3, FaultType DEF MessageType
<1>4. Files'
  BY <1>1, <1>2 DEF DataInv, Files, Accepted, DataPc, Opened, MailItem
<1>5. Unanswered'
  <2>1. data'.bits = data.bits
    BY <1>1 DEF DataEnd, DataTimeout, DataError, DataInv, TypeOK
  <2> QED  BY <1>1, <1>2, <2>1 DEF DataInv, Unanswered, Accepted, Opened, DataFrame
<1>6. Verdicts' /\ Disposal'
  <2>1. pc' = "filter" => data'.banner = IF "D" \in env.flags THEN "ACCEPT" ELSE data.banner
    BY <1>1 DEF DataEnd, DataTimeout, DataError, DataInv, TypeOK
  <2> QED  BY <1>1, <1>2, <2>1 DEF DataInv, Verdicts, Disposal
<1> QED  BY <1>3, <1>4, <1>5, <1>6 DEF DataInv

\* The filter gives its verdict.
LEMMA DataFilterInv ==
    ASSUME IInv, DataFilter
    PROVE  DataInv'
<1>1. DataInv /\ DataFrame /\ pc = "filter" /\ pc' \in {"bounce", "error"}
  BY DataShape DEF IInv, DataInv, Answering, DataFilter, DataError
<1>2. UNCHANGED <<run, queued, answer, seen, timer>>
  BY DEF DataFilter, KeepSession, session
<1>3. MessageType /\ (MessageType' => TypeOK') /\ faults' \in 0 .. MaxFaults
  BY <1>1, MessageTypes, FaultType DEF DataFilter
<1>4. data.bits = {} /\ verdict[env.id] = {} /\ answer[env.id] = "none" /\ ~Accepted
      /\ fast[env.id] = env.flags
  BY <1>1 DEF DataInv, Unanswered, Files, DataFrame, DataPc
<1>5. CASE UNCHANGED <<data, env, fast, md, verdict>> /\ pc' = "bounce"
  <2>1. TypeOK'
    BY <1>2, <1>3, <1>5 DEF MessageType
  <2>2. Files' /\ Unanswered' /\ Verdicts' /\ Disposal'
    BY <1>1, <1>2, <1>4, <1>5
       DEF DataInv, Files, Unanswered, Verdicts, Disposal, Accepted, DataPc, Opened, MailItem
  <2> QED  BY <2>1, <2>2 DEF DataInv
<1>6. CASE DataError("SYSERROR") /\ md' = [md EXCEPT !.status = "FINAL"]
           /\ UNCHANGED <<env, fast, verdict>>
  <2>1. TypeOK'
    BY <1>2, <1>3, <1>6 DEF MessageType, DataError, DataType, MdType
  <2>2. Files' /\ Unanswered' /\ Verdicts' /\ Disposal'
    BY <1>1, <1>2, <1>4, <1>6
       DEF DataError, DataInv, Files, Unanswered, Verdicts, Disposal, Accepted, DataPc,
           Opened, MailItem
  <2> QED  BY <2>1, <2>2 DEF DataInv
<1>7. ASSUME NEW bits \in content_filter, "D" \in env.flags, pc' = "bounce",
             md' = [md EXCEPT !.status = "FINAL"],
             env' = [env EXCEPT !.flags = @ \cup {"t"}],
             fast' = [fast EXCEPT ![env.id] = @ \cup {"t"}],
             verdict' = [verdict EXCEPT ![env.id] = bits],
             data' = [data EXCEPT !.bits = bits,
                       !.banner = CASE "TEMPFAIL" \in bits -> "TEMPFAIL"
                                    [] "REJECT" \in bits -> "REJECT"
                                    [] OTHER -> @]
      PROVE  DataInv'
  <2>1. bits \in SUBSET Bits
    BY <1>7, ReceiveAssumption DEF content_filter, Bits
  <2>2. /\ env' \in EnvType /\ env'.id = env.id /\ env'.flags = env.flags \cup {"t"}
    BY <1>3, <1>7 DEF MessageType, EnvType
  <2>3. /\ fast' \in [Mail -> SUBSET {"D", "t", "E"}]
        /\ fast'[env.id] = env.flags \cup {"t"}
    BY <1>1, <1>3, <1>4, <1>7 DEF MessageType, DataFrame
  <2>4. verdict' \in [Mail -> SUBSET Bits] /\ verdict'[env.id] = bits
    BY <1>1, <1>3, <1>7, <2>1 DEF MessageType, DataFrame
  <2>5. data' \in DataType /\ data'.bits = bits /\ data'.banner \in {"TEMPFAIL", "REJECT", data.banner}
    BY <1>3, <1>7, <2>1 DEF MessageType, DataType
  <2>6. TypeOK'
    BY <1>2, <1>3, <1>7, <2>2, <2>3, <2>4, <2>5 DEF MessageType, MdType
  <2>7. Files'
    BY <1>1, <1>2, <1>4, <1>7, <2>2, <2>3 DEF DataInv, Files, Accepted, DataPc, Opened, MailItem
  <2>8. Unanswered' /\ Verdicts' /\ Disposal'
    BY <1>1, <1>2, <1>4, <1>7, <2>2, <2>4, <2>5
       DEF DataInv, Unanswered, Verdicts, Disposal
  <2> QED  BY <2>6, <2>7, <2>8 DEF DataInv
<1>8. ASSUME NEW bits \in FilterResults, "D" \notin env.flags, pc' = "bounce",
             UNCHANGED <<env, fast, md, verdict>>, data' = [data EXCEPT !.bits = bits]
      PROVE  DataInv'
  <2>1. bits \in SUBSET Bits
    BY <1>8, ReceiveAssumption
  <2>2. data' \in DataType /\ data'.bits = bits /\ data'.banner = data.banner
    BY <1>3, <1>8, <2>1 DEF MessageType, DataType
  <2>3. TypeOK'
    BY <1>2, <1>3, <1>8, <2>2 DEF MessageType
  <2>4. Files' /\ Unanswered' /\ Verdicts' /\ Disposal'
    BY <1>1, <1>2, <1>4, <1>8, <2>2
       DEF DataInv, Files, Unanswered, Verdicts, Disposal, Accepted, DataPc, Opened, MailItem
  <2> QED  BY <2>3, <2>4 DEF DataInv
<1> QED  BY <1>5, <1>6, <1>7, <1>8 DEF DataFilter

\* The bounce the verdict asks for is queued.
LEMMA DataBounceInv ==
    ASSUME IInv, DataBounce
    PROVE  DataInv'
<1>1. DataInv /\ DataFrame /\ pc = "bounce" /\ pc' \in {"dispose", "error"}
  BY DataShape DEF IInv, DataInv, Answering, DataBounce, DataError
<1>2. UNCHANGED <<env, fast, md, run, answer, verdict, seen>>
  BY DEF DataBounce
<1>3. MessageType /\ (MessageType' => TypeOK') /\ faults' \in 0 .. MaxFaults
  BY <1>1, MessageTypes, FaultType DEF DataBounce
<1>4. TypeOK'
  <2>1. data' \in DataType
    BY <1>3 DEF DataBounce, DataError, MessageType, DataType
  <2>2. queued' \subseteq Mail \X {"mail", "bounce"}
    BY <1>1, <1>3 DEF DataBounce, MessageType, BounceItem, DataFrame
  <2>3. timer' \in BOOLEAN
    BY <1>3 DEF DataBounce, MessageType
  <2> QED  BY <1>2, <1>3, <2>1, <2>2, <2>3 DEF MessageType
<1>5. Files' /\ Unanswered'
  BY <1>1, <1>2 DEF DataInv, Files, Unanswered, Accepted, DataPc, Opened, MailItem
<1>6. Verdicts' /\ Disposal'
  <2>1. pc' = "dispose" => data' = data
    BY DEF DataBounce, DataError
  <2> QED  BY <1>1, <1>2, <2>1 DEF DataInv, Verdicts, Disposal
<1> QED  BY <1>4, <1>5, <1>6 DEF DataInv

\* The D file goes where the verdict says.
LEMMA DataDisposeInv ==
    ASSUME IInv, DataDispose
    PROVE  DataInv'
<1>1. DataInv /\ DataFrame /\ pc = "dispose" /\ pc' \in {"commit", "error"}
  BY DataShape DEF IInv, DataInv, Answering, DataDispose, DataError
<1>2. UNCHANGED <<md, queued, run, answer, verdict, seen, timer>>
  BY DEF DataDispose, KeepSession, session, history
<1>3. MessageType /\ (MessageType' => TypeOK') /\ faults' \in 0 .. MaxFaults
  BY <1>1, MessageTypes, FaultType DEF DataDispose
<1>4. fast[env.id] = env.flags /\ ~Accepted
  BY <1>1 DEF DataInv, Files, DataFrame, DataPc
<1>5. /\ env' \in EnvType /\ env'.flags \subseteq env.flags
      /\ fast' \in [Mail -> SUBSET {"D", "t", "E"}] /\ fast'[env.id] = env'.flags
  <2>1. CASE UNCHANGED <<env, fast>>
    BY <1>3, <1>4, <2>1 DEF MessageType
  <2>2. ASSUME NEW name, Without(name)
        PROVE  /\ env' \in EnvType /\ env'.flags \subseteq env.flags
               /\ fast' \in [Mail -> SUBSET {"D", "t", "E"}] /\ fast'[env.id] = env'.flags
    BY <1>1, <1>3, <1>4, <2>2 DEF Without, MessageType, EnvType, DataFrame
  <2> QED  BY <2>1, <2>2 DEF DataDispose
<1>6. TypeOK'
  <2>1. data' \in DataType
    BY <1>3 DEF DataDispose, DataError, MessageType, DataType
  <2> QED  BY <1>2, <1>3, <1>5, <2>1 DEF MessageType
<1>7. Files' /\ Unanswered'
  BY <1>1, <1>2, <1>4, <1>5 DEF DataInv, DataFrame, Files, Unanswered, Accepted, DataPc, Opened, MailItem
<1>8. Verdicts' /\ Disposal'
  <2>1. pc' = "commit" =>
          /\ data' = data
          /\ "D" \in env'.flags => "D" \in env.flags /\ ("JAIL" \in data.bits \/ ~Discarded)
          /\ "D" \notin env'.flags /\ "D" \in env.flags => Discarded
    BY <1>3 DEF DataDispose, DataError, Without, MessageType, EnvType
  <2>2. env'.id = env.id
    BY <1>1 DEF DataFrame
  <2>3. Verdicts'
    BY <1>1, <1>2, <2>1, <2>2 DEF DataInv, Verdicts
  <2>4. Disposal'
    BY <1>1, <1>2, <2>1, <2>2 DEF DataInv, Verdicts, Disposal, Discarded
  <2> QED  BY <2>3, <2>4
<1> QED  BY <1>6, <1>7, <1>8 DEF DataInv

\* The E file makes the message accepted.
LEMMA DataCommitInv ==
    ASSUME IInv, DataCommit
    PROVE  DataInv'
<1>1. DataInv /\ DataFrame /\ pc = "commit" /\ pc' \in {"answer", "error"}
  BY DataShape DEF IInv, DataInv, Answering, DataCommit, DataError
<1>2. UNCHANGED <<md, queued, run, answer, verdict, seen>>
  BY DEF DataCommit, history
<1>3. MessageType /\ (MessageType' => TypeOK') /\ faults' \in 0 .. MaxFaults
  BY <1>1, MessageTypes, FaultType DEF DataCommit
<1>4. fast[env.id] = env.flags /\ ~Accepted /\ answer[env.id] = "none"
  BY <1>1 DEF DataInv, Files, Unanswered, DataFrame, DataPc
<1>5. /\ env' \in EnvType /\ fast' \in [Mail -> SUBSET {"D", "t", "E"}]
      /\ \/ env' = env /\ pc' = "error" /\ fast'[env.id] = env.flags \ {"t"}
         \/ env' = env /\ fast'[env.id] = env.flags /\ "D" \notin env.flags
         \/ env'.flags = {"D", "E"} /\ fast'[env.id] = {"D", "E"} /\ "D" \in env.flags
  <2>1. CASE "D" \notin env.flags
    BY <1>3, <1>4, <2>1 DEF DataCommit, MessageType
  <2>2. CASE /\ "D" \in env.flags
             /\ env' = [env EXCEPT !.flags = {"D", "E"}]
             /\ fast' = [fast EXCEPT ![env.id] = {"D", "E"}]
    BY <1>1, <1>3, <2>2 DEF MessageType, EnvType, DataFrame
  <2>3. CASE /\ pc' = "error" /\ UNCHANGED env
             /\ fast' = [fast EXCEPT ![env.id] = @ \ {"t"}]
    BY <1>1, <1>3, <1>4, <2>3 DEF MessageType, DataFrame
  <2> QED  BY <2>1, <2>2, <2>3 DEF DataCommit, DataError
<1>6. data' \in DataType /\ (pc' = "answer" => data' = data) /\ timer' \in BOOLEAN
  <2>1. data' \in DataType /\ (pc' = "answer" => data' = data)
    BY <1>3 DEF DataCommit, DataError, MessageType, DataType
  <2>2. timer' \in BOOLEAN
    BY <1>3 DEF DataCommit, MessageType
  <2> QED  BY <2>1, <2>2
<1>7. TypeOK'
  BY <1>2, <1>3, <1>5, <1>6 DEF MessageType
<1>8. env'.id = env.id
  BY <1>1 DEF DataFrame
<1>9. Files' /\ Unanswered'
  BY <1>1, <1>2, <1>4, <1>5, <1>8
     DEF DataInv, Files, Unanswered, Accepted, DataPc, Opened, MailItem
<1>10. Verdicts' /\ Disposal'
  BY <1>1, <1>2, <1>4, <1>5, <1>6, <1>8 DEF DataInv, Verdicts, Disposal, Accepted
<1> QED  BY <1>7, <1>9, <1>10 DEF DataInv

\* The answer agrees with what was done.
LEMMA DataAnswerInv ==
    ASSUME IInv, DataAnswer
    PROVE  DataInv' /\ AnsweredIsKept' /\ RefusedIsGone'
<1>1. DataInv /\ DataFrame /\ pc = "answer" /\ pc' = "error"
  BY DataShape DEF IInv, DataInv, Answering, DataAnswer
<1>2. UNCHANGED <<env, fast, md, queued, run, verdict, seen, timer>>
  BY DEF DataAnswer, spool
<1>3. MessageType /\ (MessageType' => TypeOK') /\ faults' \in 0 .. MaxFaults
  BY <1>1, MessageTypes, FaultType DEF DataAnswer
<1>4. data' \in DataType
  BY <1>3 DEF DataAnswer, MessageType, DataType
<1>5. /\ answer' \in [Mail -> {"none", "250", "451", "554"}]
      /\ \A m \in Mail : m # env.id => answer'[m] = answer[m]
      /\ answer'[env.id] = "250" => data.banner \in {"ACCEPT", "DELETE"}
      /\ answer'[env.id] \in {"451", "554"} => data.banner \in {"TEMPFAIL", "REJECT"}
  <2>1. answer[env.id] = "none" /\ env.id \in Mail
    BY <1>1 DEF DataInv, Unanswered, DataFrame
  <2>2. data.banner \in {"TEMPFAIL", "REJECT", "ACCEPT", "DELETE"}
    BY <1>3 DEF MessageType, DataType
  <2> QED  BY <1>3, <2>1, <2>2 DEF DataAnswer, MessageType
<1>6. TypeOK'
  BY <1>2, <1>3, <1>4, <1>5 DEF MessageType
<1>7. Files' /\ Unanswered' /\ Verdicts' /\ Disposal'
  BY <1>1, <1>2 DEF DataInv, Files, Unanswered, Verdicts, Disposal, Accepted, DataPc, Opened,
                    MailItem
<1>8. Opened /\ env.id \in Mail /\ fast[env.id] = env.flags
      /\ MailItem(env.id) \notin run /\ (Accepted => "D" \in env.flags)
  BY <1>1 DEF DataFrame, DataInv, Files
<1>9. AnsweredIsKept'
  <2> SUFFICES ASSUME NEW m \in Mail, answer'[m] = "250"
               PROVE  \/ {"D", "E"} \subseteq fast[m] \/ MailItem(m) \in run
                      \/ {"DELETE", "BOUNCE"} \cap verdict[m] # {} \/ m \in seen
    BY <1>2 DEF AnsweredIsKept, MailItem
  <2>1. CASE m = env.id
    BY <1>1, <1>5, <1>8, <2>1 DEF DataInv, Disposal, Accepted
  <2>2. CASE m # env.id
    BY <1>5, <2>2 DEF IInv, AnsweredIsKept
  <2> QED  BY <2>1, <2>2
<1>10. RefusedIsGone'
  <2> SUFFICES ASSUME NEW m \in Mail, answer'[m] \in {"451", "554"}, "JAIL" \notin verdict[m]
               PROVE  "E" \notin fast[m] /\ MailItem(m) \notin run
    BY <1>2 DEF RefusedIsGone, MailItem
  <2>1. CASE m = env.id
    BY <1>1, <1>5, <1>8, <2>1 DEF DataInv, Disposal, Accepted
  <2>2. CASE m # env.id
    BY <1>5, <2>2 DEF IInv, RefusedIsGone
  <2> QED  BY <2>1, <2>2
<1> QED  BY <1>6, <1>7, <1>9, <1>10 DEF DataInv

\* Every step of f_data up to the answer keeps the invariant.
LEMMA AnsweringInv ==
    ASSUME IInv, Answering
    PROVE  IInv'
<1>1. DataInv'
  BY DataOpenInv, DataLineInv, DataEndInv, DataFilterInv, DataBounceInv, DataDisposeInv,
     DataCommitInv, DataAnswerInv DEF Answering
<1>2. AnsweredIsKept' /\ RefusedIsGone'
  <2>1. CASE DataAnswer
    BY <2>1, DataAnswerInv
  <2>2. CASE ~DataAnswer
    <3>1. UNCHANGED answer
      BY <2>2 DEF Answering, DataOpen, DataLine, DataEnd, DataTimeout, DataFilter, DataBounce,
                  DataDispose, DataCommit, history
    <3> QED  BY <3>1, DataPromises
  <2> QED  BY <2>1, <2>2
<1>3. /\ Handshake' /\ Numbering' /\ NoMailQueued' /\ Digest' /\ Auth'
      /\ TlsStartsAfresh' /\ AuthBeforeAccept' /\ Punished'
  BY <1>1, DataKeeps DEF DataInv
<1> QED  BY <1>1, <1>2, <1>3 DEF IInv, DataInv

---------------------------------------------------------------------------
(* The end of f_data, and of the process.                                  *)

\* What f_data does on its way out keeps the invariant.
LEMMA CleanupInv ==
    ASSUME IInv, DataCleanup
    PROVE  IInv'
<1>1. TypeOK /\ Handshake /\ Numbering /\ Files /\ NoMailQueued /\ Digest /\ Auth /\ Punished
  BY DEF IInv
<1>2. /\ pc = "error" /\ data' = NoData
      /\ UNCHANGED <<conf, auth, tls, ext, timer, created, md, queued, run, answer, verdict, seen>>
      /\ env' = IF Accepted THEN env ELSE NoEnv
  BY DEF DataCleanup, history
<1>3. Opened /\ env.id \in Mail
  BY <1>1, <1>2 DEF Numbering, DataPc, Opened, TypeOK, Mail
<1>4. /\ fast' \in [Mail -> SUBSET {"D", "t", "E"}]
      /\ \A m \in Mail : fast'[m] \subseteq fast[m] /\ (m # env.id \/ Accepted => fast'[m] = fast[m])
  BY <1>1, <1>3 DEF DataCleanup, TypeOK
<1>5. PICK rc, m : Return(rc, m, failed) /\ m \in {mode, "OFF"}
  BY DEF DataCleanup
<1>6. /\ pc' \in {"command", "close"} /\ mode' \in Modes /\ failed' = failed
      /\ mode' \in {"NORMAL", "GLOBAL_RELAY"} => mode' = mode
      /\ pc' = "command" /\ mode' = "NORMAL" /\ MaxFailedRcpts > 0
           => failed' < MaxFailedRcpts
  <2>1. m \in Modes /\ failed \in Nat
    BY <1>1, <1>5 DEF TypeOK, Modes
  <2> QED  BY <1>1, <1>5, <2>1, ReturnStep
<1>7. TypeOK'
  <2>1. env' \in EnvType /\ data' \in DataType
    BY <1>1, <1>2, <1>3, NoEnvelope, NoDataType DEF TypeOK, EnvType
  <2>2. faults' \in 0 .. MaxFaults
    BY FaultType DEF DataCleanup
  <2> QED  BY <1>1, <1>2, <1>4, <1>6, <2>1, <2>2 DEF TypeOK, EnvType, DataType
<1>8. Handshake'
  <2>1. EhloLines' = EhloLines
    BY <1>2 DEF EhloLines
  <2> QED  BY <1>1, <1>2, <1>6, <2>1 DEF Handshake
<1>9. Numbering'
  <2>1. ASSUME NEW n \in Mail, n > created
        PROVE  fast'[n] = {} /\ answer[n] = "none" /\ verdict[n] = {} /\ MailItem(n) \notin run
    BY <1>1, <1>4, <2>1 DEF Numbering
  <2>2. ~Opened' => env' = NoEnv
    BY <1>2, <1>3 DEF Opened
  <2>3. Opened' => env'.id = created
    BY <1>1, <1>2, <1>3 DEF Opened, NoEnv, Numbering
  <2> QED  BY <1>2, <1>6, <2>1, <2>2, <2>3 DEF Numbering, MailItem, DataPc
<1>10. Files'
  <2>1. CASE Accepted
    BY <1>1, <1>2, <1>3, <1>4, <1>6, <2>1 DEF Files, Opened, MailItem, DataPc, Accepted
  <2>2. CASE ~Accepted
    BY <1>2, <2>2 DEF Files, Opened, NoEnv
  <2> QED  BY <2>1, <2>2
<1>11. NoMailQueued' /\ Unanswered' /\ Verdicts' /\ Disposal'
  BY <1>1, <1>2, <1>6
     DEF NoMailQueued, MailItem, Unanswered, Verdicts, Disposal, Opened, NoEnv, Accepted
<1>12. Digest' /\ Auth' /\ Punished'
  <2>1. Digest'
    BY <1>1, <1>2 DEF Digest, Opened, NoEnv
  <2>2. Auth'
    BY <1>1, <1>2, <1>3 DEF Auth
  <2>3. Punished'
    BY <1>1, <1>2, <1>6, ReceiveAssumption DEF Punished, TypeOK, DataPc
  <2> QED  BY <2>1, <2>2, <2>3
<1>13. AnsweredIsKept'
  <2> SUFFICES ASSUME NEW n \in Mail, answer[n] = "250"
               PROVE  \/ {"D", "E"} \subseteq fast'[n] \/ MailItem(n) \in run
                      \/ {"DELETE", "BOUNCE"} \cap verdict[n] # {} \/ n \in seen
    BY <1>2 DEF AnsweredIsKept, MailItem
  <2>1. n = env.id /\ ~Accepted => "E" \notin fast[n] /\ MailItem(n) \notin run
    BY <1>1, <1>3 DEF Files, Accepted
  <2> QED  BY <1>4, <2>1 DEF IInv, AnsweredIsKept
<1>14. RefusedIsGone'
  BY <1>2, <1>4 DEF IInv, RefusedIsGone, MailItem
<1>15. AuthBeforeAccept'
  BY <1>1, <1>2, <1>3 DEF AuthBeforeAccept, Auth
<1>16. TlsStartsAfresh'
  BY <1>2 DEF IInv, TlsStartsAfresh
<1> QED
  BY <1>7, <1>8, <1>9, <1>10, <1>11, <1>12, <1>13, <1>14, <1>15, <1>16 DEF IInv

\* A receiver may be killed at any time.
LEMMA KillInv ==
    ASSUME IInv, Kill
    PROVE  IInv'
<1>1. TypeOK /\ Handshake /\ Numbering /\ Digest /\ Auth /\ Punished
  BY DEF IInv
<1>2. /\ pc' = "killed" /\ env' = NoEnv /\ data' = NoData /\ queued' = {}
      /\ UNCHANGED <<conf, mode, auth, tls, ext, failed, timer, md, created, fast, run,
                     answer, verdict, seen, faults>>
  BY DEF Kill, session, history, NoFault
<1>3. TypeOK'
  <2>1. env' \in EnvType /\ data' \in DataType
    BY <1>1, <1>2, NoEnvelope, NoDataType DEF TypeOK
  <2> QED  BY <1>1, <1>2, <2>1 DEF TypeOK, EnvType, DataType
<1>4. Handshake'
  <2>1. EhloLines' = EhloLines
    BY <1>2 DEF EhloLines
  <2> QED  BY <1>1, <1>2, <2>1 DEF Handshake
<1>5. ~Opened'
  BY <1>2 DEF Opened, NoEnv
<1>6. Numbering' /\ Files' /\ NoMailQueued'
  BY <1>1, <1>2, <1>5 DEF Numbering, Files, NoMailQueued, MailItem, DataPc
<1>7. Unanswered' /\ Verdicts' /\ Disposal' /\ Digest' /\ Auth' /\ Punished'
  BY <1>1, <1>2, <1>5 DEF Unanswered, Verdicts, Disposal, Digest, Auth, Punished, DataPc
<1>8. AnsweredIsKept' /\ RefusedIsGone' /\ AuthBeforeAccept' /\ TlsStartsAfresh'
  BY <1>2 DEF IInv, AnsweredIsKept, RefusedIsGone, AuthBeforeAccept, TlsStartsAfresh, MailItem
<1> QED  BY <1>3, <1>4, <1>6, <1>7, <1>8 DEF IInv

\* Every other step keeps the invariant.
LEMMA BetweenInv ==
    ASSUME IInv, BetweenStep
    PROVE  IInv'
BY BetweenType, BetweenSession, BetweenNumbers, BetweenFiles, BetweenKept, BetweenDigest
   DEF IInv

\* A session starts with nothing in hand.
LEMMA InitInv == Init => IInv
<1> SUFFICES ASSUME Init PROVE IInv
  OBVIOUS
<1>1. TypeOK
  <2>1. env \in EnvType /\ data \in DataType
    BY NoEnvelope, NoDataType DEF Init
  <2>2. ext \in Int
    BY EhloInit, OthersNat DEF Init
  <2>3. conf \in Confs /\ mode \in Modes
    BY ReceiveAssumption DEF Init, ConfType, Modes
  <2>4. md \in MdType /\ created \in 0 .. MaxMail /\ faults \in 0 .. MaxFaults
    BY ReceiveAssumption DEF Init, MdType
  <2>5. /\ fast \in [Mail -> SUBSET {"D", "t", "E"}] /\ verdict \in [Mail -> SUBSET Bits]
        /\ answer \in [Mail -> {"none", "250", "451", "554"}]
    BY DEF Init
  <2> QED
    BY <2>1, <2>2, <2>3, <2>4, <2>5 DEF Init, TypeOK, EnvType, DataType, MdType
<1>2. Handshake
  <2>1. EhloLines = 1 + Others + (IF conf.tls /\ ~tls THEN 1 ELSE 0)
    BY DEF EhloLines, Others
  <2> QED  BY <2>1, EhloInit, OthersNat DEF Init, Handshake, Opened, NoEnv
<1>3. Numbering /\ Files /\ NoMailQueued
  BY DEF Init, Numbering, Files, NoMailQueued, Opened, NoEnv, DataPc, Mail, MailItem
<1>4. Unanswered /\ Verdicts /\ Disposal /\ Digest /\ Auth
  BY DEF Init, Unanswered, Verdicts, Disposal, Digest, Auth, Opened, NoEnv
<1>5. Punished
  BY ReceiveAssumption DEF Init, Punished, DataPc
<1>6. AnsweredIsKept /\ RefusedIsGone /\ AuthBeforeAccept /\ TlsStartsAfresh
  BY DEF Init, AnsweredIsKept, RefusedIsGone, AuthBeforeAccept, TlsStartsAfresh
<1> QED  BY <1>1, <1>2, <1>3, <1>4, <1>5, <1>6 DEF IInv

\* IInv is inductive.
LEMMA NextInv == IInv /\ [Next]_vars => IInv'
<1> SUFFICES ASSUME IInv, [Next]_vars PROVE IInv'
  OBVIOUS
<1>1. CASE UNCHANGED vars
  BY <1>1 DEF vars, IInv, TypeOK, Handshake, EhloLines, Opened, Numbering, MailItem, Files,
     Accepted, NoMailQueued, Unanswered, Verdicts, Disposal, Digest, Auth, Punished,
     AnsweredIsKept, RefusedIsGone, AuthBeforeAccept, TlsStartsAfresh
<1>2. CASE Next /\ ~UNCHANGED vars
  BY <1>2, BetweenShape, BetweenInv, AnsweringInv, CleanupInv, KillInv
     DEF Next, Command, DataStep, Ended, Answering
<1> QED  BY <1>1, <1>2

---------------------------------------------------------------------------
(* The theorems.                                                           *)

\* The invariant holds in every state of every session.
THEOREM ReceiverInvariant == Spec => []IInv
BY InitInv, NextInv, PTL DEF Spec

\* Whatever the client sends, the filter returns and the disk does, a message
\* whose data was answered with 250 is not lost: both its files are in fast or
\* q_runner was given it, unless the filter or the Seen-Before header had it
\* dropped (f_data, deliver_accepted).
THEOREM AnsweredMailIsKept == Spec => []AnsweredIsKept
<1>1. IInv => AnsweredIsKept
  BY DEF IInv
<1> QED  BY <1>1, ReceiverInvariant, PTL

\* A message that f_data answered with 451 or 554 is never queued nor run,
\* unless the filter jailed it.
THEOREM RefusedMailIsGone == Spec => []RefusedIsGone
<1>1. IInv => RefusedIsGone
  BY DEF IInv
<1> QED  BY <1>1, ReceiverInvariant, PTL

\* Where SASL is configured, no envelope is committed before f_auth succeeds.
THEOREM NoMailBeforeAuth == Spec => []AuthBeforeAccept
<1>1. IInv => AuthBeforeAccept
  BY DEF IInv
<1> QED  BY <1>1, ReceiverInvariant, PTL

\* f_starttls never lets a transaction begun in the clear go on over TLS.
THEOREM HandshakeStartsAfresh == Spec => []TlsStartsAfresh
<1>1. IInv => TlsStartsAfresh
  BY DEF IInv
<1> QED  BY <1>1, ReceiverInvariant, PTL

\* f_ehlo counts its extensions down to nought on its last line, and only there.
THEOREM EhloEndsOnce == Spec => []EhloWellFormed
<1>1. IInv => EhloWellFormed
  <2> SUFFICES ASSUME IInv, NEW i \in 1 .. EhloLines
               PROVE  EhloReply[i] = (IF i = EhloLines THEN " " ELSE "-")
    BY DEF EhloWellFormed
  <2>1. EhloLines \in Nat /\ ext = EhloLines - 1
    <3>1. EhloLines = 1 + Others + (IF conf.tls /\ ~tls THEN 1 ELSE 0)
      BY DEF EhloLines, Others
    <3> QED  BY <3>1, OthersNat DEF IInv, Handshake
  <2>2. ext - (i - 1) # 0 <=> i # EhloLines
    BY <2>1
  <2> QED  BY <2>1, <2>2 DEF EhloReply
<1> QED  BY <1>1, ReceiverInvariant, PTL

\* The digest f_data gives to the content filter is of this message only.
THEOREM DigestOfThisMessage == Spec => []DigestOwn
<1>1. IInv => DigestOwn
  BY DEF IInv, DigestOwn, Digest, Numbering, DataPc
<1> QED  BY <1>1, ReceiverInvariant, PTL

\* After too many failed recipients no step of the session puts an E file into
\* fast (the loop of smtp_receive switches the mode, f_data writes no D file).
THEOREM PunishmentLasts == Spec => PunishedForGood
<1> DEFINE P == (MaxFailedRcpts > 0 /\ failed >= MaxFailedRcpts) =>
                    \A m \in Mail : "E" \in fast'[m] => "E" \in fast[m]
<1>1. IInv /\ [Next]_vars => [P]_vars
  <2> SUFFICES ASSUME IInv, Next, ~UNCHANGED vars,
                      MaxFailedRcpts > 0, failed >= MaxFailedRcpts,
                      NEW m \in Mail, "E" \in fast'[m]
               PROVE  "E" \in fast[m]
    OBVIOUS
  <2>1. CASE BetweenStep
    BY <2>1, BetweenSpool DEF SpoolStep
  <2>2. CASE Answering
    <3>1. DataFrame /\ IInv'
      BY <2>2, DataShape, AnsweringInv
    <3>2. CASE m = env.id
      <4>1. "D" \notin env'.flags
        BY <3>1 DEF IInv, Punished, DataFrame
      <4>2. ~Accepted'
        BY <3>1, <4>1 DEF IInv, Files, DataFrame, Opened
      <4> QED  BY <3>1, <3>2, <4>2 DEF IInv, Files, DataFrame, Opened, Accepted
    <3> QED  BY <3>1, <3>2 DEF DataFrame
  <2>3. CASE DataCleanup \/ Kill
    BY <2>3 DEF DataCleanup, Kill, IInv, TypeOK
  <2> QED
    BY <2>1, <2>2, <2>3, BetweenShape DEF Next, Command, DataStep, Ended, Answering
<1> QED  BY <1>1, ReceiverInvariant, PTL DEF Spec, PunishedForGood
=============================================================================
