------------------------------ MODULE Delivery ------------------------------
(* One runner works off the queue of one host: deliver_local, deliver_remote
   and the walk over MX and A records (queue.c), the SMTP client (smtp.c), the
   local delivery program (ml.c) and the lookups (mx.c).

   A message is its number and has NRcpt recipients.  The remote host may
   answer anything at any step: a reply is its class, the text of a 250 counts
   as handed over from the moment the host takes it, and a connection may break
   before a reply (lost) or inside one of several lines (torn).  Running out of
   memory is left out, and so are files that cannot be read.  DNS answers do not
   change while the runner lives; entries come sorted by preference, as the
   resolver library returns them. *)
EXTENDS Integers, Sequences, SequencesExt, FiniteSets, DeliverOutcome

CONSTANTS
    N,              \* messages in the queue
    NRcpt,          \* recipients of each
    Dns,            \* what the resolver may say of the host
    Aggressive,     \* simta_aggressive_delivery
    None            \* NULL

ASSUME DeliveryAssumption == N \in Nat /\ NRcpt \in Nat \ {0} /\ Aggressive \in BOOLEAN

IsSeq(s) == s \in Seq({s[i] : i \in DOMAIN s})

(* What the resolver library gives: MX records sorted by preference, perhaps with
   CNAMEs among them, and an address with an MX where it has glue. *)
AnswersSorted ==
    \A x \in Dns :
        /\ x.a = None \/ IsSeq(x.a)
        /\ x.mx = None \/
            /\ IsSeq(x.mx)
            /\ \A i \in DOMAIN x.mx :
                LET e == x.mx[i]
                IN  /\ e.type \in {"MX", "CNAME"}
                    /\ e.pref \in Int /\ e.pref # None
                    /\ e.addrs = None \/ IsSeq(e.addrs)
                    /\ e.glue => e.addrs # None /\ e.addrs # << >>
            /\ \A i, j \in DOMAIN x.mx :
                i < j /\ x.mx[i].type = "MX" /\ x.mx[j].type = "MX"
                    => x.mx[i].pref <= x.mx[j].pref

ASSUME AnswersAssumption == AnswersSorted

Rcpt == 1..NRcpt
Loopback == "127.0.0.1"

VARIABLES
    dns,        \* the resolver's answers: mx, a (None when the lookup fails)
    queue,      \* what kind of queue it is: LOCAL, MX, PUNT, SUPRESSED or BITBUCKET
    hq_status,
    pc,         \* the function the runner is in, or the reply it waits for
    msg,        \* number of the message it works on
    rcpt,       \* d_rcpt
    d,          \* struct deliver: connection, DNS and retry data; and hq_no_punt
    env,        \* of the message: statuses, flags, counters, d_delivered, env_movement
    copies,     \* copies[m][r]: how often somebody took m for r (2 for more)
    lost,       \* messages that were taken without the runner hearing of it
    cut,        \* messages whose acceptance came in a torn reply
    torn,       \* was the last reply torn?
    tried       \* addresses connected to, or tried to

ghosts == <<copies, lost, cut, tried>>
vars == <<dns, queue, hq_status, pc, msg, rcpt, d, env, ghosts, torn>>

NewEnv ==
    [status |-> [r \in Rcpt |-> "none"], flags |-> {}, delivered |-> FALSE,
     accepted |-> 0, failed |-> 0, tempfailed |-> 0, movement |-> FALSE]

NewDeliver ==
    [snet |-> FALSE, result |-> None, cur |-> 0, ip |-> None, cur_ip |-> 0,
     cutoff |-> None, no_punt |-> FALSE, sin |-> None, retry |-> << >>, retry_cur |-> 0, movement |-> FALSE]

Init ==
    /\ dns \in Dns
    /\ queue \in {"LOCAL", "MX", "PUNT", "SUPRESSED", "BITBUCKET"}
    /\ hq_status = queue /\ pc = "next" /\ msg = 0 /\ rcpt = 1
    /\ d = NewDeliver /\ env = NewEnv
    /\ copies = [m \in 1..N |-> [r \in Rcpt |-> 0]]
    /\ lost = {} /\ cut = {} /\ torn = FALSE /\ tried = {}
-----------------------------------------------------------------------------
(* _q_deliver: the next message, by the status of its host.  A prisoner is passed over. *)
StartMessage ==
    /\ pc = "next" /\ msg < N
    /\ msg' = msg + 1 /\ rcpt' = 1
    /\ \/ /\ hq_status \in {"MX", "PUNT"}                       \* deliver_remote
          /\ hq_status' = IF hq_status = "MX" THEN "DOWN" ELSE "PUNT_DOWN"
          /\ pc' = IF d.snet THEN "rset" ELSE "lookup"
          /\ env' = NewEnv
       \/ /\ hq_status = "LOCAL"
          /\ pc' = "local" /\ env' = NewEnv /\ UNCHANGED hq_status
       \/ /\ hq_status \in {"MX", "PUNT", "LOCAL", "SUPRESSED", "DOWN", "BOUNCE", "BITBUCKET"}
          /\ pc' = "returned"
          /\ env' = CASE hq_status = "BOUNCE" -> [NewEnv EXCEPT !.flags = {"BOUNCE"}]
                      [] hq_status = "BITBUCKET" ->
                            [NewEnv EXCEPT !.delivered = TRUE, !.accepted = NRcpt]
                      [] OTHER -> NewEnv
          /\ UNCHANGED hq_status
    /\ UNCHANGED <<dns, queue, d, ghosts, torn>>

(* what _q_deliver makes of the outcome is in QueueDeliver; it leaves the queue
   when the punt host is down *)
EndMessage ==
    /\ pc = "returned"
    /\ pc' = IF hq_status = "PUNT_DOWN" \/ msg = N THEN "done" ELSE "next"
    /\ env' = NewEnv
    /\ UNCHANGED <<dns, queue, hq_status, msg, rcpt, d, ghosts, torn>>

Bump(m, R) ==
    copies' = [copies EXCEPT ![m] = [r \in Rcpt |->
        IF r \in R /\ @[r] < 2 THEN @[r] + 1 ELSE @[r]]]

(* the status of the recipient, and the counter that goes with it *)
SetStatus(e, r, s) ==
    [e EXCEPT !.status[r] = s,
              !.accepted = @ + IF s = "accepted" THEN 1 ELSE 0,
              !.failed = @ + IF s = "failed" THEN 1 ELSE 0,
              !.tempfailed = @ + IF s = "tempfail" THEN 1 ELSE 0]

(* deliver_binary: what the program did, and what its exit status tells; a
   program that dies or whose output cannot be read may have delivered *)
deliver_binary == {<<TRUE, "accepted">>, <<TRUE, "tempfail">>, <<FALSE, "tempfail">>,
                   <<FALSE, "failed">>}

deliver_local ==
    /\ pc = "local"
    /\ \E b \in deliver_binary :
          /\ Bump(msg, IF b[1] THEN {rcpt} ELSE {})
          /\ lost' = IF b[1] /\ b[2] # "accepted" THEN lost \union {msg} ELSE lost
          /\ env' = [SetStatus(env, rcpt, b[2]) EXCEPT !.delivered = rcpt = NRcpt]
    /\ IF rcpt < NRcpt THEN rcpt' = rcpt + 1 /\ UNCHANGED pc
       ELSE pc' = "returned" /\ UNCHANGED rcpt
    /\ UNCHANGED <<dns, queue, hq_status, msg, d, cut, tried, torn>>
-----------------------------------------------------------------------------
(* The walk over the addresses of the host. *)
A(addr) == [type |-> "A", pref |-> 0, own |-> FALSE, glue |-> FALSE, addrs |-> <<addr>>]

(* next_dnsr_host found no address: go on behind the current A list, or give up *)
Exhausted(x) ==
    IF x.ip # None
    THEN /\ d' = [x EXCEPT !.ip = None]
         /\ pc' = "lookup"
    ELSE /\ d' = [x EXCEPT !.result = None]
         /\ pc' = "returned"

(* it found one: queue movement is for this host to show again *)
Found(x) == d' = [x EXCEPT !.movement = FALSE] /\ pc' = "connect"

(* "retry:", at the start of the list or where the walk over it is *)
Retry(x, i) == Found([x EXCEPT !.retry_cur = i, !.sin = x.retry[i]])

NoMore(x) == IF x.retry # << >> THEN Retry(x, 1) ELSE Exhausted(x)

(* get_outboud_dns: MX records, or A records where there is none but a CNAME *)
get_outboud_dns(e) ==
    LET bare == dns.mx = << >> \/ (Len(dns.mx) = 1 /\ dns.mx[1].type = "CNAME")
        own  == {i \in DOMAIN dns.mx : dns.mx[i].type = "MX" /\ dns.mx[i].own}
    IN  CASE dns.mx = None ->
                Exhausted([d EXCEPT !.no_punt = TRUE]) /\ UNCHANGED <<hq_status, env>>
          [] dns.mx # None /\ ~bare ->
                /\ d' = [d EXCEPT !.result = dns.mx, !.cur = 0, !.no_punt = own # {},
                         !.cutoff = IF own = {} THEN None
                                    ELSE dns.mx[CHOOSE i \in own : \A j \in own : i <= j].pref]
                /\ UNCHANGED <<pc, hq_status, env>>
          [] dns.mx # None /\ bare /\ dns.a = None ->
                Exhausted([d EXCEPT !.no_punt = FALSE]) /\ UNCHANGED <<hq_status, env>>
          [] dns.mx # None /\ bare /\ dns.a = << >> ->
                /\ hq_status' = "BOUNCE"
                /\ env' = [e EXCEPT !.flags = @ \union {"BOUNCE"}]
                /\ Exhausted([d EXCEPT !.no_punt = FALSE])
          [] OTHER ->
                /\ d' = [d EXCEPT !.result = [i \in DOMAIN dns.a |-> A(dns.a[i])], !.cur = 0,
                                  !.cutoff = None, !.no_punt = FALSE]
                /\ UNCHANGED <<pc, hq_status, env>>

LookupDns ==
    /\ pc = "lookup" /\ d.result = None
    /\ \/ hq_status = "DOWN" /\ get_outboud_dns(env)
       \/ /\ hq_status = "PUNT_DOWN"
          /\ IF dns.a = None \/ dns.a = << >> THEN Exhausted(d)
             ELSE /\ d' = [d EXCEPT !.result = [i \in DOMAIN dns.a |-> A(dns.a[i])],
                                    !.cur = 0, !.cutoff = None]
                  /\ UNCHANGED pc
          /\ UNCHANGED <<hq_status, env>>
    /\ UNCHANGED <<dns, queue, msg, rcpt, ghosts, torn>>

\* Mutant: a host that let nothing through stays in the list.
RetryForEver ==
    /\ pc = "lookup" /\ d.result # None /\ d.retry_cur # 0
    /\ Retry(d, IF d.retry_cur < Len(d.retry) THEN d.retry_cur + 1 ELSE 1)
    /\ UNCHANGED <<dns, queue, hq_status, msg, rcpt, env, ghosts, torn>>

(* the hosts that moved mail before are tried in turn; one that did not move
   any this time leaves the list *)
LookupRetry ==
    /\ pc = "lookup" /\ d.result # None /\ d.retry_cur # 0
    /\ IF d.movement
       THEN Retry(d, IF d.retry_cur < Len(d.retry) THEN d.retry_cur + 1 ELSE 1)
       ELSE LET left == RemoveAt(d.retry, d.retry_cur)         \* connection_data_free
                x    == [d EXCEPT !.retry = left, !.retry_cur = 0]
            IN  IF left = << >> THEN Exhausted(x)
                ELSE Retry(x, IF d.retry_cur <= Len(left) THEN d.retry_cur ELSE 1)
    /\ UNCHANGED <<dns, queue, hq_status, msg, rcpt, env, ghosts, torn>>

(* remember the last host if it moved mail, then look for the next *)
LookupFirst ==
    /\ pc = "lookup" /\ d.result # None /\ d.retry_cur = 0
    /\ d' = [d EXCEPT !.retry = IF Aggressive /\ d.movement THEN Append(@, d.sin) ELSE @]
    /\ pc' = IF d.ip # None THEN "ip" ELSE "entry"
    /\ UNCHANGED <<dns, queue, hq_status, msg, rcpt, env, ghosts, torn>>

Valid(addr) == hq_status = "DOWN" => addr # Loopback

Cutoff(e) == d.cutoff # None /\ e.pref = d.cutoff

\* Mutant: the entry with our own preference is skipped, and those behind it tried.
NextEntryCutSkips ==
    /\ pc = "entry"
    /\ IF d.cur >= Len(d.result) THEN NoMore(d)
       ELSE LET e == d.result[d.cur + 1]
                x == [d EXCEPT !.cur = @ + 1]
            IN  CASE e.type = "A" /\ Valid(e.addrs[1]) -> Found([x EXCEPT !.sin = e.addrs[1]])
                  [] e.type = "MX" /\ hq_status = "DOWN" /\ ~Cutoff(e) /\ e.glue ->
                        Found([x EXCEPT !.sin = e.addrs[1]])
                  [] e.type = "MX" /\ hq_status = "DOWN" /\ ~Cutoff(e) /\ ~e.glue
                        /\ e.addrs # None /\ e.addrs # << >> ->
                        d' = [x EXCEPT !.ip = e.addrs, !.cur_ip = 0] /\ pc' = "ip"
                  [] OTHER -> d' = x /\ UNCHANGED pc
    /\ UNCHANGED <<dns, queue, hq_status, msg, rcpt, env, ghosts, torn>>

(* one turn of the loop over the answer: an A record, an MX with its address,
   an MX whose address get_a looks up, or nothing of use; our own preference ends it *)
NextEntry ==
    /\ pc = "entry"
    /\ IF d.cur >= Len(d.result) THEN NoMore(d)
       ELSE LET e == d.result[d.cur + 1]
                x == [d EXCEPT !.cur = @ + 1]
            IN  CASE e.type = "A" /\ Valid(e.addrs[1]) -> Found([x EXCEPT !.sin = e.addrs[1]])
                  [] e.type = "MX" /\ hq_status = "DOWN" /\ Cutoff(e) -> NoMore(x)
                  [] e.type = "MX" /\ hq_status = "DOWN" /\ ~Cutoff(e) /\ e.glue ->
                        Found([x EXCEPT !.sin = e.addrs[1]])
                  [] e.type = "MX" /\ hq_status = "DOWN" /\ ~Cutoff(e) /\ ~e.glue
                        /\ e.addrs # None /\ e.addrs # << >> ->
                        d' = [x EXCEPT !.ip = e.addrs, !.cur_ip = 0] /\ pc' = "ip"
                  [] OTHER -> d' = x /\ UNCHANGED pc
    /\ UNCHANGED <<dns, queue, hq_status, msg, rcpt, env, ghosts, torn>>

(* the A records of an MX *)
NextIp ==
    /\ pc = "ip"
    /\ IF d.cur_ip >= Len(d.ip) THEN NoMore(d)
       ELSE LET addr == d.ip[d.cur_ip + 1]
                x    == [d EXCEPT !.cur_ip = @ + 1]
            IN  IF addr # Loopback THEN Found([x EXCEPT !.sin = addr])
                ELSE d' = x /\ UNCHANGED pc
    /\ UNCHANGED <<dns, queue, hq_status, msg, rcpt, env, ghosts, torn>>

Connect ==
    /\ pc = "connect"
    /\ tried' = tried \union {d.sin}
    /\ \/ pc' = "lookup" /\ UNCHANGED d
       \/ pc' = "banner" /\ d' = [d EXCEPT !.snet = TRUE]
    /\ UNCHANGED <<dns, queue, hq_status, msg, rcpt, env, copies, lost, cut, torn>>
-----------------------------------------------------------------------------
(* smtp_reply.  A reply is the class of its first line; "self" is a banner with
   our own name, or with none.  What a reply does is done with its first line,
   then smtp_consume_banner reads the rest, which may be torn. *)
Class == {"2", "3", "4", "5", "lost"}

Result(good, forgiving, c, t) ==
    IF c = "lost" \/ t THEN "BAD_CONNECTION"
    ELSE IF c \in good \/ forgiving THEN "OK" ELSE "ERROR"

Heard(c, t) == torn' = (t /\ c # "lost")

(* the envelope as a whole is refused for now or for good *)
Refused(e, c) == [e EXCEPT !.flags = @ \union {IF c = "5" THEN "BOUNCE" ELSE "TEMPFAIL"}]

(* "smtp_cleanup:" of deliver_remote: close, then the next address, unless the
   host refuses all mail or recipients of this message are done with *)
smtp_cleanup(x, e, st) ==
    /\ d' = [x EXCEPT !.snet = FALSE]
    /\ IF st = "BOUNCE" \/ (st = "DOWN" /\ e.movement)
       THEN pc' = "returned" /\ hq_status' = IF st = "BOUNCE" THEN st ELSE "MX"
       ELSE pc' = "lookup" /\ hq_status' = st
    /\ env' = e

(* smtp_connect and smtp_rset: one reply after the other *)
Greet(here, good, next) ==
    /\ pc = here
    /\ \E c \in Class \union (IF here = "banner" THEN {"self"} ELSE {}), t \in BOOLEAN :
          /\ Heard(c, t)
          /\ LET res == Result(good, FALSE, c, t)
                 st  == IF here = "banner" /\ c = "5" /\ hq_status = "DOWN"
                        THEN "BOUNCE" ELSE hq_status
             IN  IF res = "OK" THEN /\ pc' \in next
                                    /\ UNCHANGED <<hq_status, d, env>>
                 ELSE IF here = "ehlo" /\ res = "ERROR"
                 THEN pc' = "helo" /\ UNCHANGED <<hq_status, d, env>>
                 ELSE smtp_cleanup(d, env, st)
    /\ UNCHANGED <<dns, queue, msg, rcpt, ghosts>>

(* the handshake, or our look at the certificate, may fail *)
Handshake ==
    /\ pc = "handshake"
    /\ \/ pc' = "ehlo2" /\ UNCHANGED <<hq_status, d, env>>
       \/ smtp_cleanup(d, env, hq_status)
    /\ UNCHANGED <<dns, queue, msg, rcpt, ghosts, torn>>

smtp_connect ==
    \/ Greet("banner", {"2"}, {"ehlo"})
    \/ Greet("ehlo", {"2"}, {"send", "starttls"})
    \/ Greet("starttls", {"2"}, {"handshake"})
    \/ Handshake
    \/ Greet("ehlo2", {"2"}, {"send"})
    \/ Greet("helo", {"2"}, {"send"})

smtp_rset == Greet("rset", {"2"}, {"send"})

(* deliver_remote: every attempt starts with a clean envelope; d_delivered and
   env_movement are not part of it *)
smtp_send ==
    /\ pc = "send"
    /\ env' = [NewEnv EXCEPT !.delivered = env.delivered, !.movement = env.movement]
    /\ pc' = "mail" /\ rcpt' = 1
    /\ UNCHANGED <<dns, queue, hq_status, msg, d, ghosts, torn>>

\* Mutant: a message that was delivered does not count as moved.
SentUnmoved(e, res) ==
    IF res = "OK"
    THEN /\ pc' = "returned"
         /\ hq_status' = IF hq_status = "DOWN" THEN "MX" ELSE "PUNT"
         /\ env' = IF hq_status = "DOWN" THEN e
                   ELSE [e EXCEPT !.flags = {}, !.status = NewEnv.status]
         /\ UNCHANGED d
    ELSE smtp_cleanup(d, [e EXCEPT !.movement = e.failed > 0], hq_status)

(* ... and when smtp_send returns, whether the queue moved.  A punt host's
   refusals are forgotten, but not counted back. *)
Sent(e, res) ==
    LET moved == e.failed > 0 \/ (e.delivered /\ e.accepted > 0)
        e1    == [e EXCEPT !.movement = @ \/ moved]
        d1    == [d EXCEPT !.movement = @ \/ moved]
    IN  IF res = "OK"
        THEN /\ pc' = "returned" /\ d' = d1
             /\ hq_status' = IF hq_status = "DOWN" THEN "MX" ELSE "PUNT"
             /\ env' = IF hq_status = "DOWN" THEN e1
                       ELSE [e1 EXCEPT !.flags = {}, !.status = NewEnv.status]
        ELSE smtp_cleanup(d1, e1, hq_status)

Going == UNCHANGED <<hq_status, d>>

(* MAIL FROM *)
SendMail ==
    /\ pc = "mail"
    /\ \E c \in Class, t \in BOOLEAN :
          /\ Heard(c, t)
          /\ LET e   == IF c \in {"2", "lost"} THEN env ELSE Refused(env, c)
                 res == Result({"2"}, TRUE, c, t)
             IN  IF res = "OK" /\ e.flags = {}
                 THEN pc' = "rcpt" /\ env' = e /\ Going
                 ELSE Sent(e, res)
    /\ UNCHANGED <<dns, queue, msg, rcpt, ghosts>>

\* Mutant: the counter of failed recipients is forgotten.
RcptReplyUncounted(c) ==
    CASE c = "lost" -> env
      [] c = "2" -> SetStatus(env, rcpt, "accepted")
      [] c = "5" -> [env EXCEPT !.status[rcpt] = "failed"]
      [] OTHER -> SetStatus(env, rcpt, "tempfail")

RcptReply(c) ==
    CASE c = "lost" -> env
      [] c = "2" -> SetStatus(env, rcpt, "accepted")
      [] c = "5" -> SetStatus(env, rcpt, "failed")
      [] OTHER -> SetStatus(env, rcpt, "tempfail")

(* RCPT TO, one after the other; a punt host has to take them all *)
SendRcpt ==
    /\ pc = "rcpt"
    /\ \E c \in Class, t \in BOOLEAN :
          /\ Heard(c, t)
          /\ LET e   == RcptReply(c)
                 res == Result({"2"}, TRUE, c, t)
             IN  IF res # "OK" \/ (hq_status = "PUNT_DOWN" /\ e.status[rcpt] # "accepted")
                 THEN Sent(e, res) /\ UNCHANGED rcpt
                 ELSE IF rcpt < NRcpt
                 THEN rcpt' = rcpt + 1 /\ env' = e /\ UNCHANGED pc /\ Going
                 ELSE IF e.accepted = 0
                 THEN Sent([e EXCEPT !.delivered = TRUE], res) /\ UNCHANGED rcpt
                 ELSE pc' = "data" /\ env' = e /\ UNCHANGED rcpt /\ Going
    /\ UNCHANGED <<dns, queue, msg, ghosts>>

(* DATA, where even 2xx is an error *)
SendData ==
    /\ pc = "data"
    /\ \E c \in Class, t \in BOOLEAN :
          /\ Heard(c, t)
          /\ LET e   == IF c \in {"3", "lost"} THEN env ELSE Refused(env, c)
                 res == Result({"3"}, TRUE, c, t)
             IN  IF res = "OK" /\ e.flags = {}
                 THEN pc' = "text" /\ env' = e /\ Going
                 ELSE Sent(e, res)
    /\ UNCHANGED <<dns, queue, msg, rcpt, ghosts>>

(* the lines of the D file: a write fails, the session takes too long, or all
   is sent and the host takes the message or not *)
TextFails ==
    /\ pc = "text"
    /\ Sent(env, "BAD_CONNECTION")
    /\ UNCHANGED <<dns, queue, msg, rcpt, ghosts, torn>>

SendEof ==
    /\ pc = "text"
    /\ \E c \in Class, t \in BOOLEAN, took \in BOOLEAN :
          /\ c # "lost" => took = (c = "2")
          /\ Heard(c, t)
          /\ Bump(msg, {r \in Rcpt : took /\ env.status[r] = "accepted"})
          /\ lost' = IF took /\ c = "lost" THEN lost \union {msg} ELSE lost
          /\ cut' = IF took /\ t THEN cut \union {msg} ELSE cut
          /\ LET e == CASE c = "lost" -> env
                        [] c = "2" -> [env EXCEPT !.delivered = TRUE]
                        [] OTHER -> Refused(env, c)
             IN  Sent(e, Result({"2"}, TRUE, c, t))
    /\ UNCHANGED <<dns, queue, msg, rcpt, tried>>

deliver_remote ==
    \/ LookupDns \/ LookupRetry \/ LookupFirst \/ NextEntry \/ NextIp \/ Connect
    \/ smtp_connect \/ smtp_rset \/ smtp_send
    \/ SendMail \/ SendRcpt \/ SendData \/ TextFails \/ SendEof

Next == StartMessage \/ EndMessage \/ deliver_local \/ deliver_remote

(* every call of the runner returns: its timers see to it *)
Spec == Init /\ [][Next]_vars /\ WF_vars(Next)
-----------------------------------------------------------------------------
Handed == {r \in Rcpt : copies[msg][r] > 0}

(* The runner did not hear, or not to the end, that m was taken. *)
Unheard(m) == m \in lost \/ (queue = "PUNT" /\ m \in cut)

(* What an attempt reports is what _q_deliver takes it for, in DeliverOutcome:
   counters and statuses agree, a message is reported as delivered to the
   recipients that some host has taken it for and to no others, and one that is
   not reported was not taken, whatever connections broke on the way
   (deliver_remote's reset of the envelope for each attempt, smtp_reply,
   deliver_local).  When an answer did not come whole, less may be reported than
   was taken, never more, and a punt host has taken it for all. *)
WithinContract ==
    pc = "returned" =>
        /\ queue = "PUNT" /\ Unheard(msg) => Handed = Rcpt
        /\ hq_status = "PUNT_DOWN" => Unheard(msg) \/ Handed = {}
        /\ hq_status # "PUNT_DOWN" =>
            \E o \in IF queue = "PUNT" THEN PuntOutcome(Rcpt, ~Unheard(msg))
                     ELSE HostOutcome(Rcpt) :
                /\ o.delivered = env.delivered
                /\ o.bounce = ("BOUNCE" \in env.flags)
                /\ o.failed = {r \in Rcpt : env.status[r] = "failed"}
                /\ Cardinality(o.counted) = env.failed
                /\ o.delivered => Cardinality(o.accepted) = env.accepted
                /\ o.delivered /\ o.accepted # Rcpt =>
                      o.marked = {r \in Rcpt : env.status[r] = "accepted"}
                /\ queue # "BITBUCKET" =>
                      /\ o.accepted \subseteq Handed
                      /\ Unheard(msg) \/ o.accepted = Handed

(* A message that a host has taken is not offered to another: not through the
   next MX host, the list of retries or the connection that is kept, unless the
   host's whole answer was lost, or a punt host's was cut short. *)
OnceUnlessLost ==
    \A m \in 1..N, r \in Rcpt : copies[m][r] > 1 => Unheard(m)

(* Which addresses may be tried: the A records where there is no MX, else those
   of the MX hosts that are preferred to us. *)
Mx == {i \in DOMAIN dns.mx : dns.mx[i].type = "MX"}

Addresses(i) ==
    IF dns.mx[i].addrs = None THEN {}
    ELSE IF dns.mx[i].glue THEN {dns.mx[i].addrs[1]} ELSE ToSet(dns.mx[i].addrs) \ {Loopback}

Allowed ==
    IF queue = "PUNT" THEN IF dns.a = None THEN {} ELSE ToSet(dns.a)
    ELSE IF dns.mx = None THEN {}
    ELSE IF Mx = {} THEN IF dns.a = None THEN {} ELSE ToSet(dns.a) \ {Loopback}
    ELSE UNION {Addresses(i) : i \in
                  {j \in Mx : \A k \in Mx : dns.mx[k].own => dns.mx[j].pref < dns.mx[k].pref}}

(* No host is connected to that is not preferred to us, so mail does not come
   round; and the host is given up for the rest of the queue only when every
   address was tried, also those that follow an A list and the retries
   (next_dnsr_host, next_dnsr_host_lookup). *)
AddressesTried ==
    /\ tried \subseteq Allowed
    /\ pc = "returned" /\ hq_status \in {"DOWN", "PUNT_DOWN"} => tried = Allowed

(* The runner gets through its queue: a host stays in the list of retries only
   while it takes mail, and each message that moves is left.  Only a punt host can
   keep the runner busy, with replies that break off: deliver_remote neither
   leaves a punt queue after movement nor resets d_delivered. *)
Ends == (queue # "PUNT" \/ (<>[]~torn /\ [](cut = {}))) => <>(pc = "done")
=============================================================================
