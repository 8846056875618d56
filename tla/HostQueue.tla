------------------------------ MODULE HostQueue ------------------------------
(* The daemon's memory of the slow directory: one queue per destination host
   and one for mail that is not expanded yet, the envelopes read into them, and
   the list of queues sorted by their next launch (queue.c, envelope.c).

   A message is its queue id; HostOf gives the host its E file names.  Times
   are relative: due is hq_next_launch - now and may lag behind by MaxLag at
   most; last tells whether hq_last_launch is unset, this very second or
   earlier, and again is hq_next_launch <= hq_last_launch.  The list is
   the sequence its links spell, so a queue that is pushed twice is in it twice. *)
EXTENDS Integers, FiniteSets, FiniteSetsExt, SequencesExt

CONSTANTS
    Host, Msg, Unexpanded,  \* hosts, queue ids, the name of simta_unexpanded_q
    None,                   \* NULL
    HostOf,                 \* the host in the E file, or Unexpanded
    MinWait, MaxWait,       \* simta_min_wait, simta_max_wait
    PuntRules,              \* hosts with a rule D NO_PUNT or D PUNT
    QueueWait,              \* the waits of the hosts with a rule D QUEUE_WAIT
    JailSeconds, MailJail,  \* simta_jail_seconds, simta_mail_jail
    Jails,                  \* the jail codes of the mail that is there or comes
    MaxLag                  \* bound: how far behind its launch a queue can be

Queues == Host \union {Unexpanded}

ASSUME HostQueueAssumption ==
    /\ Unexpanded \notin Host /\ HostOf \in [Msg -> Queues]
    /\ MinWait \in Nat \ {0} /\ MaxWait \in Nat \ {0}   \* simta.c refuses less than 1
    /\ PuntRules \subseteq Host
    /\ DOMAIN QueueWait \subseteq Host               \* not less than 0, but it may be 0
    /\ \A q \in DOMAIN QueueWait : QueueWait[q] \in [min: Nat, max: Nat]
    /\ JailSeconds \in Nat /\ MailJail \in BOOLEAN /\ MaxLag \in Nat
    /\ Jails \subseteq {"NO_CHANGE", "PAROLEE", "PRISONER"}
    /\ MailJail \/ Jails = {"NO_CHANGE"}

JailCodes == {"NO_CHANGE", "PAROLEE", "PRISONER"}

VARIABLES
    slow,       \* messages whose E file is in the slow directory
    jail,       \* jail[m]: the J line of that file
    locked,     \* messages a queue runner holds the lock of
    envs,       \* envelopes in memory: their e_jail and whether e_cycle is current
    hq,         \* the host queues that exist
    deliver_q,  \* simta_deliver_q
    unread,     \* what readdir has still to return of slow, None when closed
    halted      \* why the daemon ended: an error, or a division by zero

hqVars == <<slow, jail, locked, envs, hq, deliver_q, unread>>


HqType ==
    [entries: 0..Cardinality(Msg), jailed: Nat, wait: Nat, leaky: BOOLEAN,
     scheduled: BOOLEAN, due: Int, again: BOOLEAN, last: {"never", "now", "past"}]

HqTypeOK ==
    /\ slow \subseteq Msg /\ locked \subseteq Msg
    /\ jail \in [Msg -> JailCodes]
    /\ DOMAIN envs \subseteq Msg
    /\ \A m \in DOMAIN envs : envs[m] \in [jail: JailCodes, fresh: BOOLEAN]
    /\ DOMAIN hq \subseteq Queues
    /\ \A q \in DOMAIN hq : hq[q] \in HqType
    /\ deliver_q \in Seq(Queues)
    /\ unread = None \/ unread \subseteq Msg
    /\ halted \in {"no", "error", "trap"}

(* malloc and memset: everything is zero *)
NewQueue ==
    [entries |-> 0, jailed |-> 0, wait |-> 0, leaky |-> FALSE,
     scheduled |-> FALSE, due |-> 0, again |-> TRUE, last |-> "never"]

(* simta_remote_hosts: any rule about a host makes its entry, with all zeroes,
   and only QUEUE_WAIT writes the waits of the entry *)
RedHosts   == PuntRules \union DOMAIN QueueWait
RedWait(q) == IF q \in DOMAIN QueueWait THEN QueueWait[q] ELSE [min |-> 0, max |-> 0]

\* Mutant: no queue is given the default.
HqNoDefault(q) == IF q \in RedHosts THEN RedWait(q).min ELSE 0

(* host_q_create_or_lookup: the entry of the host replaces the defaults;
   simta_unexpanded_q is made with the first queue and never given its waits *)
HqMinWait(q) ==
    CASE q = Unexpanded -> 0
      [] q \in RedHosts -> RedWait(q).min
      [] OTHER          -> MinWait

HqMaxWait(q) ==
    CASE q = Unexpanded -> 0
      [] q \in RedHosts -> RedWait(q).max
      [] OTHER          -> MaxWait

Members(q) == {m \in DOMAIN envs : HostOf[m] = q}

HqInit ==
    /\ slow \in SUBSET Msg /\ jail \in [Msg -> Jails]
    /\ locked = {} /\ envs = [m \in {} |-> 0] /\ hq = [q \in {} |-> 0]
    /\ deliver_q = << >> /\ unread = None /\ halted = "no"
-----------------------------------------------------------------------------
(* hq_deliver_push: the waits and launch times it may come to.  The set is empty
   where the remainder of random() by zero is taken. *)
Schedule(wait, next) == [wait |-> wait, next |-> next]

WaitDelay(q, delay) ==
    {IF delay > HqMaxWait(q) THEN Schedule(HqMaxWait(q), HqMaxWait(q))
     ELSE Schedule(IF delay < HqMinWait(q) THEN HqMinWait(q) ELSE delay, delay)}

AllJailed(h) == MailJail /\ h.entries = h.jailed

WaitJail(h) ==
    {Schedule(JailSeconds, n) :
        n \in IF h.last = "never" THEN 0..(JailSeconds - 1) ELSE {JailSeconds}}

WaitFirst(q) == {Schedule(HqMinWait(q), n) : n \in 0..(HqMinWait(q) - 1)}

WaitTwice(q, h) ==
    LET w == IF 2 * h.wait <= HqMaxWait(q)
             THEN IF 2 * h.wait < HqMinWait(q) THEN HqMinWait(q) ELSE 2 * h.wait
             ELSE HqMaxWait(q)
    IN  {Schedule(w, w)}

Waits(q, h) ==
    IF AllJailed(h) THEN WaitJail(h)
    ELSE IF h.wait = 0 \/ h.leaky THEN WaitFirst(q) ELSE WaitTwice(q, h)

(* the leaky mark is used up by the branch that looks at it *)
Unleak(h) == [h EXCEPT !.leaky = @ /\ AllJailed(h)]

(* take the new time if the queue was launched since, or if it is sooner *)
Take(h, c) ==
    IF h.again \/ h.due > c.next
    THEN [h EXCEPT !.wait = c.wait, !.due = c.next, !.scheduled = TRUE,
                   !.again = c.next = 0 /\ h.last = "now"]
    ELSE h

(* before the head, or behind every queue that is due by then *)
Insert(list, h, q) ==
    LET at == IF list = << >> \/ h[list[1]].due >= h[q].due THEN 1
              ELSE 1 + Min({i \in 1..Len(list) :
                               i = Len(list) \/ h[list[i + 1]].due > h[q].due})
    IN  InsertAt(list, at, q)

Push(S, q, c) ==
    LET h == [S.hq EXCEPT ![q] = Take(@, c)]
    IN  [hq |-> h, list |-> Insert(S.list, h, q)]

(* its neighbours are linked to each other, if it is in the list *)
Dequeue(list, q) ==
    IF q \in ToSet(list)
    THEN RemoveAt(list, CHOOSE i \in DOMAIN list : list[i] = q)
    ELSE list

\* Mutant: the head of the list is not taken out.
hq_deliver_pop_tail(S, q) ==
    IF S.list # << >> /\ Head(S.list) = q THEN S
    ELSE [S EXCEPT !.list = Dequeue(@, q)]

hq_deliver_pop(S, q) == [S EXCEPT !.list = Dequeue(@, q)]

hq_free(S, q) ==
    [hq |-> [x \in DOMAIN S.hq \ {q} |-> S.hq[x]], list |-> hq_deliver_pop(S, q).list]

(* A loop over queues, by position in their order: a fold over the sequence, in a
   form that can be reasoned about. *)
InTurn(Do(_, _), S, order) ==
    LET after[n \in 0..Len(order)] ==
            IF n = 0 THEN S ELSE Do(after[n - 1], order[n])
    IN  after[Len(order)]

Now == [hq |-> hq, list |-> deliver_q]

Becomes(S) == hq' = S.hq /\ deliver_q' = S.list
-----------------------------------------------------------------------------
(* q_read_dir.  The first call opens the directory; readdir returns what was
   there then, and may or may not return what is linked in meanwhile. *)
ReadStart ==
    /\ unread = None
    /\ unread' = slow
    /\ envs' = [m \in DOMAIN envs |-> [envs[m] EXCEPT !.fresh = FALSE]]  \* simta_disk_cycle++
    /\ UNCHANGED <<slow, jail, locked, hq, deliver_q>>

queue_envelope(m) ==
    LET q  == HostOf[m]
        h0 == [x \in DOMAIN hq \union {q, Unexpanded} |->
                  IF x \in DOMAIN hq THEN hq[x] ELSE NewQueue]
    IN  [h0 EXCEPT ![q].entries = @ + 1,
                   ![q].jailed = @ + IF jail[m] = "PRISONER" THEN 1 ELSE 0]

ReadEntry ==
    /\ unread # None
    /\ \E m \in unread :
          /\ unread' = unread \ {m}
          /\ IF m \in DOMAIN envs
             THEN envs' = [envs EXCEPT ![m].fresh = TRUE] /\ UNCHANGED hq
             ELSE IF m \in slow \ locked
             THEN /\ envs' = [n \in DOMAIN envs \union {m} |->
                                IF n = m THEN [jail |-> jail[m], fresh |-> TRUE]
                                ELSE envs[n]]
                  /\ hq' = queue_envelope(m)
             ELSE UNCHANGED <<envs, hq>>                  \* env_read fails
    /\ UNCHANGED <<slow, jail, locked, deliver_q>>

(* prune_messages: only what this cycle has seen stays *)
Kept == {m \in DOMAIN envs : envs[m].fresh}

prune_messages(q) ==
    LET mine == {m \in Kept : HostOf[m] = q}
    IN  [hq[q] EXCEPT !.entries = Cardinality(mine),
                      !.jailed = Cardinality({m \in mine : envs[m].jail = "PRISONER"})]

(* one turn of the loop over the queues: an empty one is freed, a new one scheduled *)
Visit(T, q, gone, pick) ==
    IF q \in gone THEN hq_free(T, q)
    ELSE Push([T EXCEPT !.hq[q] = Unleak(@)], q, pick[q])

Visits(S, order, gone, pick) == InTurn(LAMBDA T, q : Visit(T, q, gone, pick), S, order)

(* the last call: prune, free the empty host queues, schedule the new ones *)
ReadEnd(ok) ==
    /\ unread = {}
    /\ unread' = None
    /\ envs' = [m \in Kept |-> envs[m]]
    /\ LET h    == [q \in DOMAIN hq |-> prune_messages(q)]
           gone == {q \in DOMAIN hq \ {Unexpanded} : \A m \in Kept : HostOf[m] # q}
           new  == {q \in DOMAIN hq \ {Unexpanded} : q \notin gone /\ ~h[q].scheduled}
       IN  IF \A q \in new : Waits(q, h[q]) # {}
           THEN /\ ok
                /\ \E order \in SetToSeqs(gone \union new),
                      pick \in [new -> UNION {Waits(q, h[q]) : q \in new}] :
                      /\ \A q \in new : pick[q] \in Waits(q, h[q])
                      /\ Becomes(Visits([hq |-> h, list |-> deliver_q], order, gone, pick))
           ELSE ~ok /\ UNCHANGED <<hq, deliver_q>>
    /\ UNCHANGED <<slow, jail, locked>>

(* hq_deliver_push without a delay, after S; ~ok where the daemon divides by zero *)
PushWait(S, q, ok) ==
    LET h == S.hq[q]
    IN  IF Waits(q, h) # {}
        THEN ok /\ \E c \in Waits(q, h) :
                      Becomes(Push([S EXCEPT !.hq[q] = Unleak(@)], q, c))
        ELSE ~ok /\ UNCHANGED <<hq, deliver_q>>

(* hq_launch, up to the fork *)
Due == deliver_q # << >> /\ hq[Head(deliver_q)].due <= 0

\* Mutant: a queue that is launched does not go back into the list.
hq_launch_forgets(ok) ==
    ok /\ Becomes(hq_deliver_pop(Now, Head(deliver_q)))

hq_launch(ok) ==
    LET q == Head(deliver_q)
        S == hq_deliver_pop(Now, q)
    IN  PushWait([S EXCEPT !.hq[q].last = "now", !.hq[q].again = TRUE], q, ok)

(* daemon_waitpid: a runner moved mail of q to its host; run the queue soon *)
Leaky(q, ok) ==
    IF q \in DOMAIN hq \ {Unexpanded}                    \* host_q_lookup
    THEN PushWait([hq_deliver_pop(Now, q) EXCEPT !.hq[q].leaky = TRUE], q, ok)
    ELSE ok /\ UNCHANGED <<hq, deliver_q>>

(* env_jail_status( PAROLEE ) for each envelope of M, then the queues of Q are
   due at once.  An envelope that never had a jail code is an error. *)
Paroled(M) == {m \in M : envs[m].jail = "PRISONER"}

CountParole(h, M) ==
    [q \in DOMAIN h |->
        [h[q] EXCEPT !.jailed = @ + Cardinality({m \in Paroled(M) : HostOf[m] = q})]]

PushNow(S, q) == Push(hq_deliver_pop(S, q), q, CHOOSE c \in WaitDelay(q, 0) : TRUE)

Promote(M, Q, ok) ==
    IF \E m \in M : envs[m].jail = "NO_CHANGE"
    THEN ~ok /\ UNCHANGED hqVars
    ELSE LET free == Paroled(M) \intersect (slow \ locked)    \* env_read succeeds
         IN  /\ ok
             /\ envs' = [m \in DOMAIN envs |->
                            IF m \in free THEN [envs[m] EXCEPT !.jail = "PAROLEE"] ELSE envs[m]]
             /\ jail' = [m \in Msg |-> IF m \in free THEN "PAROLEE" ELSE jail[m]]
             /\ \E order \in SetToSeqs(Q) :
                    Becomes(InTurn(PushNow,
                                   [hq |-> CountParole(hq, M), list |-> deliver_q], order))
             /\ UNCHANGED <<slow, locked, unread>>

mid_promote(m, ok) ==
    IF m \in DOMAIN envs THEN Promote({m}, {HostOf[m]}, ok) ELSE ok /\ UNCHANGED hqVars

sender_promote(M, ok) ==
    LET mine == M \intersect DOMAIN envs IN Promote(mine, {HostOf[m] : m \in mine}, ok)

queue_promote(q, ok) ==
    IF q \in DOMAIN hq \ {Unexpanded} THEN Promote(Members(q), {q}, ok)
    ELSE ok /\ UNCHANGED hqVars

(* the clock: d seconds pass *)
Elapsed(t, d) == Max({t - d, 0 - MaxLag})

Advance(d) ==
    hq' = [q \in DOMAIN hq |->
              [hq[q] EXCEPT !.due = IF hq[q].scheduled THEN Elapsed(@, d) ELSE @,
                            !.last = IF @ = "now" /\ d > 0 THEN "past" ELSE @]]
-----------------------------------------------------------------------------
(* What other processes do to the directory: a message is linked in, which an
   open directory stream may or may not show; a runner locks and frees it, or
   is done with it and unlinks it. *)
Arrive(m) ==
    /\ m \notin slow
    /\ slow' = slow \union {m}
    /\ unread' \in IF unread = None THEN {None} ELSE {unread, unread \union {m}}
    /\ UNCHANGED <<jail, locked, envs, hq, deliver_q>>

Lock(m) ==
    /\ m \in slow \ locked
    /\ locked' = locked \union {m}
    /\ UNCHANGED <<slow, jail, envs, hq, deliver_q, unread>>

Unlock(m) ==
    /\ locked' = locked \ {m}
    /\ UNCHANGED <<slow, jail, envs, hq, deliver_q, unread>>

Unlink(m) ==
    /\ locked' = locked \ {m}
    /\ slow' = slow \ {m}
    /\ UNCHANGED <<jail, envs, hq, deliver_q, unread>>
-----------------------------------------------------------------------------
(* The queues under any daemon: it reads, launches, hears of its runners and of
   its user, in any order, until an error or a division by zero ends it. *)
CONSTANTS
    HqCommands,     \* the command files of simc
    MaxJailed       \* bound: how far hq_jail_envs may get out of hand

Command(c, ok) ==
    CASE c.type = "message" -> mid_promote(c.mid, ok)
      [] c.type = "sender"  -> sender_promote(c.mids, ok)
      [] c.type = "queue"   -> queue_promote(c.host, ok)
      [] OTHER              -> ok /\ UNCHANGED hqVars            \* debug, metrics

Halts(ok, why) == halted' = IF ok THEN "no" ELSE why

Runs == UNCHANGED halted

HqLaunch ==
    /\ Due
    /\ \E ok \in BOOLEAN : hq_launch(ok) /\ Halts(ok, "trap")
    /\ UNCHANGED <<slow, jail, locked, envs, unread>>

HqLeaky ==
    /\ \E q \in Host, ok \in BOOLEAN : Leaky(q, ok) /\ Halts(ok, "trap")
    /\ UNCHANGED <<slow, jail, locked, envs, unread>>

HqCommand ==
    /\ \A q \in DOMAIN hq : hq[q].jailed < MaxJailed
    /\ \E c \in HqCommands, ok \in BOOLEAN : Command(c, ok) /\ Halts(ok, "error")

HqTick == Advance(1) /\ Runs /\ UNCHANGED <<slow, jail, locked, envs, deliver_q, unread>>

HqNext ==
    /\ halted = "no"
    /\ \/ (ReadStart \/ ReadEntry) /\ Runs
       \/ \E ok \in BOOLEAN : ReadEnd(ok) /\ Halts(ok, "trap")
       \/ HqLaunch \/ HqLeaky \/ HqTick
       \/ HqCommand
       \/ Runs /\ \E m \in Msg : Arrive(m) \/ Lock(m) \/ (m \in locked /\ (Unlock(m) \/ Unlink(m)))

HqSpec == HqInit /\ [][HqNext]_<<hqVars, halted>>
-----------------------------------------------------------------------------
(* The launch list: each queue in it once, sorted by launch time, and a host
   queue is in it as soon as it has been scheduled: none is forgotten by a push
   or pop, so none waits for ever (hq_deliver_push, hq_deliver_pop). *)
LaunchListSound ==
    /\ \A i, j \in DOMAIN deliver_q :
          i < j => /\ deliver_q[i] # deliver_q[j]
                   /\ hq[deliver_q[i]].due <= hq[deliver_q[j]].due
    /\ ToSet(deliver_q) = {q \in DOMAIN hq : hq[q].scheduled}

(* The daemon computes the remainder of random() by the shortest wait of a queue
   (hq_deliver_push).  What ends it there is the launch of simta_unexpanded_q,
   which a command has put in the list, or mail in memory for a host whose own
   rule leaves it without a wait: the defaults are refused when they are zero
   (simta.c 1038), and a queue without mail is freed before it is scheduled
   (q_read_dir).  JAIL_SECONDS of 0 is such a wait for any queue. *)
TrapOnlyWithoutWait ==
    halted = "trap" /\ JailSeconds > 0 =>
        \/ deliver_q # << >> /\ Head(deliver_q) = Unexpanded
        \/ \E m \in DOMAIN envs :
              HostOf[m] \in RedHosts /\ RedWait(HostOf[m]).min = 0
=============================================================================
