# simta's mail queue in TLA+

simta is a mail transfer agent: a daemon that forks an SMTP receiver per
connection, a process per queue run, and keeps every message it has accepted in
a spool of small files until each recipient is delivered to or reported to the
sender. This directory models what can go wrong in that: several processes that
share nothing but files and signals, killed or failing at any step; sessions with
clients, hosts and a directory server that break off anywhere; and the state a
long-running daemon keeps about all of it.

    Spool            one message's files; locks; env_move       (envelope.c)
      QueueDeliver      runners deliver an expanded message     (queue.c _q_deliver)
        QueueDeliverProps   what they owe the message; its inductive invariant
          MCQueueDeliver        + DeliverLock, DeliverFaults, DeliverPunt,
                                  LoneEfile .cfg
          QueueDeliverProofs    types, ownership of fast; no message is
                                lost; what is done only once;
                                refinement                    (TLAPS)
      QueueRunner       runners race for an unexpanded message  (queue.c q_runner)
          MCQueueRunner         + Expand.cfg
          QueueRunnerProofs     nothing lost, handled once      (TLAPS)
    QueueCleanup     the check at start-up and simta -C       (q_cleanup.c)
      Expansion         a message, its expansion, crash and restart (expand.c)
          MCExpansion           + ExpandRestart, CleanupLoss .cfg
          ExpansionProofs       nothing lost, doubled or aborted by a
                                death and a restart           (TLAPS)
    Directory        the LDAP handle and its searches         (simta_ldap.c)
      Addresses         what the recipients expand to (address.c, expand.c,
                        simta_ldap.c)
          MCAddresses           + Addresses.cfg
          AddressesProofs       no leak; unknown is real        (TLAPS)
    DeliverOutcome   what an attempt may report; assumed by QueueDeliver
      Delivery          deliver_local, deliver_remote, the SMTP client
                        (queue.c, smtp.c, ml.c, mx.c)
          MCDelivery            + DeliverQueue.cfg
          DeliveryProofs        what is reported; not offered twice;
                                every address tried             (TLAPS)
    Receive          one inbound SMTP session                 (receive.c)
          MCReceive             + ReceiveSession.cfg
          ReceiveProofs         all of its properties but liveness (TLAPS)
    HostQueue        the queues in the daemon's memory        (queue.c, daemon.c)
          MCHostQueue           + HostQueues.cfg
      Daemon            the main loop over them               (daemon.c)
          MCDaemon              + DaemonLoop.cfg
          DaemonProofs          the counters; the launch list;
                                the division by zero          (TLAPS)
    MailPromise      what a mailer promises (abstract)
    Loops            lemmas about loops and lists that proofs share (TLAPS)

## 1. Inventory

| component | state | operations | interacts with |
|---|---|---|---|
| **Envelope library** `envelope.c` | files `D<id>`, `E<id>`, `t<id>` in local, fast, slow; the lockf lock of an E file; `simta_fast_files` | `env_read` (with lock), `env_outfile` (= `env_tfile`, `env_efile`), `env_move`, `env_unlink`, `env_truncate_and_unlink`, `env_touch`, `env_is_old`, `env_jail_*` | every process of simta, through the directory |
| **Delivery** `queue.c _q_deliver`, `bounce.c` | the envelope in memory, an outcome, a bounce not queued yet | attempt, bounce, rewrite, delete, keep for the punt host, put into slow | envelope library; delivery agents |
| **Queue runner** `queue.c q_runner`, `q_runner.c` | host queues, the unexpanded queue, the punt queue in memory | take one unexpanded message, expand, bounce or put it back; run host queues by size; leftovers of the punt queue | delivery; expansion; its exit status goes to the daemon |
| **Delivery agents** `deliver_local`, `deliver_remote`, `smtp.c`, `ml.c`, `mx.c` | connection, SMTP state, counters and statuses per recipient | connect, HELO, MAIL, RCPT, DATA, QUIT; next MX host; binary agent's exit code | delivery, DNS |
| **Host queue scheduling** `queue.c` (`hq_deliver_push/pop`, `q_read_dir`, `prune_messages`), `daemon.c hq_launch`, `ll.c`, `sla.c` | queues, launch times, waits, jail counters, the list of all messages | read slow, insert, forget, order, launch, back off, promote | daemon, command socket |
| **Daemon** `daemon.c`, `simta.c` | process table, limits, signals, command queue | fork receivers and runners, reap, set sleep, shut down | every child through fork, signals and exit status |
| **Expansion** `expand.c`, `address.c`, `expander.c`, `red.c`, `simta_ldap.c` | tree of addresses, the envelopes it will write, errors | expand, sort by host, write all or unwind all, suppress members-only groups | envelope library, bounce, LDAP |
| **Start-up clean-up** `q_cleanup.c` | list of the files found per D inode | move local and fast to slow, remove t files and orphan D files, decide between an original and its expansion | the spool after a crash |
| **Receiver** `receive.c`, `header.c` | SMTP session, message being received | HELO, MAIL, RCPT, DATA, RSET, AUTH, STARTTLS; tarpit; content filter; deliver what was accepted | envelope library, queue runner |
| **Local tools** `simsend.c`, `simc.c`, `simalias.c`, `simck.c`, ... | none that outlives them | put a message in local and signal the daemon; inspect | spool, daemon |
| **Support, vacation, denser** | none in the spool | conversion, DNS, TLS | - |

What is hard here, and where:

- *interleaving*: runners forked for the same host while the last one still
  works, `simta -q` beside the daemon, up to 25 runners of the local queue
  (`SIMTA_MAX_RUNNERS_LOCAL`, simta.h:32). An unexpanded message is taken
  without any lock; an expanded one with a lock that a rewrite moves away from.
- *partial failure*: a bounce that cannot be written, a t file that exists, an
  env_move that cannot go on, an expansion half written; the code unwinds.
- *crash*: a killed process leaves names in two directories, t files and
  truncated envelopes.
- *liveness*: a message must leave the spool in the end, by way of its age.
- *accounting*: `simta_fast_files` is asserted to be non-negative and turns into
  an exit status on which the daemon shuts down.

- *peers*: a client may stop, repeat or reorder commands; a host's reply may be
  lost or torn after it took effect; a directory server answers late or closes.
- *caches*: flags on addresses that a walk over a graph leaves for the next walk,
  a digest shared by the messages of a session, counters of a broken attempt,
  envelopes remembered by id alone.

`PROJECT.json` lists these hazards with their lines and the properties that would
catch them, or why none does.

What makes each component correct: *envelope library* - the names of a message
are whole in one directory at any time; *delivery* - no recipient is dropped
before it is settled, none gets two copies, the message leaves in the end;
*runner* - a message is expanded once or put back, and no run ends with a file
in fast; *agents* - the counters say what the statuses say; *scheduling* - every
message in slow is in a queue that will be launched, waits are within their
bounds; *daemon* - counts equal live children, a signal is never lost while
something waits; *expansion* - all envelopes or none, every address delivered,
bounced or suppressed once, loops end; *clean-up* - a crash is undone to one
whole message or one whole expansion, and no assertion fires; *receiver* - what
is answered with 250 is in fast, what is answered otherwise is not.

## 2. Plan

Done: Spool, QueueDeliver (with MailPromise), QueueRunner, QueueCleanup, Expansion,
Delivery, Receive, HostQueue, Daemon, Directory and Addresses, and the proofs of
section 5. Left, in this order:

1. **Proofs**: the theorems of ExpansionProofs for trees with groups, as far as they
   are true there (no expansion leaves an unexpanded envelope beside another of its
   level in fast); NoneMissed of Addresses, for directories without cycles.
2. **Competing start** - QueueCleanup beside a runner of `simta -q` and beside
   simsendmail, which nothing keeps out of the spool (q_cleanup.c:272: a directory
   read that sees a new E file and not the older D file makes simta refuse to
   start).
3. **header.c** - which header lines are added or rewritten, as an operator on
   sequences of kinds of line.

## 3. The modules and the code

### Spool

One message. `Efile[d]`, `Tfile[d]` are the inodes the names `d/E<id>` and
`d/t<id>` have, `Dfile[d]` says whether `d/D<id>` exists. An envelope's `text` is
the set of recipients it lists; `{}` is an empty file, which `env_read` refuses
for want of a version line. `lock[i]` is the holder of the lockf lock of inode
`i`. Names and inodes are kept apart because the code depends on the difference:
a runner may lock an inode that has lost its name. Per process: `pc`, the
envelope in memory (`dir` = e_dir, `rcpt` = e_rcpt), the open locked file `fd` and
`fastFiles` = simta_fast_files.

One step is one system call. `env_move` is six actions: link D, link E (counted
when the target is fast), unlink E, unlink D, and the two that unwind when E was
gone. A link fails when the target exists or the source does not, an unlink when
the name does not exist.

### QueueDeliver

`RunnerStep(p)` follows one envelope through `_q_deliver`:

| action | code |
|---|---|
| ReadQueueInfo, TimeOrder | `q_read_dir` (does not read recipients, passes over a locked file), `queue_time_order` |
| OpenEfile, LockEfile, ReadEfile | `env_read` with a lock (lockf with F_TLOCK) |
| OpenDfile, Attempt | open D file, `deliver_local`/`deliver_remote`/the host's status, age, the decision |
| WriteBounce, CommitBounce | `bounce_snet`; `queue_envelope( env_bounce )` |
| Truncate, UnlinkEfile, UnlinkDfile | `env_truncate_and_unlink` |
| CreateTfile, WriteTfile, RenameTfile | `env_outfile`: O_EXCL create, write, rename |
| MessageCleanup, Close | from `message_cleanup:` to the end of the loop body |
| HandOver | a host's word of acceptance (smtp.c:336), heard or not |
| PuntDown, PuntAgain, PuntLeftOver | HOST_PUNT_DOWN in `_q_deliver`, the passes of `q_runner` over the punt queue |
| RunnerMove | `env_move` to slow |
| Crash, GetOld | a killed process; time |

An `Outcome` (DeliverOutcome) is what the agents may report: delivered, to be
bounced, and the sets of recipients accepted, counted as failed, and marked
R_FAILED. For an ordinary host counted = failed; for the punt host
`deliver_remote` clears the marks but not the counter (see the observations).
That the agents report nothing else is `WithinContract` of Delivery. `Decide` is
the code's decision, `FirstStep` where it starts.

Who took the message and who is known to have taken it are two things. With
`LostAnswers` a host's answer may get lost, or break off behind the line that
accepted the message: then the outcome says less than was taken, the recipients are
put into `unheard`, and a punt host that goes down this way (`PuntDown`) gets the
message back in its queue, as `_q_deliver` returns at queue.c:1164 without a look
at `d_delivered`.

Processes are not told apart by role: any of them may be the runner that made
the message in fast, or one launched on the slow queue.

### QueueRunner

The loop `EXPAND ONE MESSAGE` of `q_runner` for an unexpanded message: Take
(env_move to fast), ReadEfile, `Expand` or `ExpandFails`, the removal of the
original, the bounce of an old one (slow runners only), `CleanUp` (env_move to
slow), `Exit`. `up` turns FALSE when a run ends with fast files, as the daemon
then shuts down.

### QueueCleanup and Expansion

Many messages, one process: the root, everything that is expanded from it, and
whoever works on the spool - a runner, `simta`, `simta -C` - one after the other. A
`tree` says what expands to what and of which kind an envelope is (host,
moderated or forwarded group, bounce); `Level` is e_n_exp_level, `Dinode` whose
text the D file is, `Nlink` its link count.

| action | code |
|---|---|
| Launch, Deliver, PuntDeliver, NextUnexpanded, ExpandFailed, LeftOver | `q_runner`: host queues, punt queue, one unexpanded message, age, leftovers, exit status |
| Expand, WriteDfile, CreateT, RenameT | `expand()`: link or write the D file, `env_outfile`, `queue_envelope`; groups, then hosts, then bounces |
| DeleteOriginal | utime, `env_unlink` of the original |
| OutfileFails, WriteFails, UnlinkOut, Unwind | the failures and the labels cleanup3 to cleanup5; `Unwound` says what each takes back |
| LinkD, LinkE, UnlinkE, UnlinkD | `env_move` and `env_unlink` |
| StartUp(clean), Scan, UnlinkTrash, Scanned | `q_cleanup`, `q_dir_startup` of slow, fast and local |
| MarkExpansions, DeleteDoomed | `q_expansion_cleanup`; `Judge` is one turn of its loop, with the assertions |
| ToSlow, MovedToSlow | `q_move_to_slow` |
| Crash, Abort, GetOld | death of the process, a failed assert, time |

simta_fast_files is the number of E files in fast here, as a single process works
from an empty fast. Two simplifications to know of: an expansion that is tried
again reuses the ids of the one that was unwound (the code takes new ones), and a
bounce that a dead process left behind stands for the one of the next try. A
`tree` with groups may therefore not let an expansion fail half-way: the groups'
envelopes stay (that is a hazard in PROJECT.json) and their names are taken.

### Directory and Addresses

Directory is the LDAP handle of a process: none, bound, opened but not bound (a
bind or StartTLS that failed leaves it so, and the next lookup takes it for a good
one), or closed by the server. `ask` is the lookup in progress.
`simta_ldap_expand` opens the handle and asks the search URIs in turn;
`simta_ldap_retry` reconnects up to MAXRETRIES times; `TimesOut`, `SearchFails`,
`DnServerDown`, `BadFilter` are the error returns.

Addresses is `expand()` up to the envelopes. A *world* is a message and what the
tables say of each address (text and attribute syntax are abstracted to kinds of
entry). `list` is the expansion list, `at` its cursor, `node` the `struct exp_addr`s
with their links and flags.

A recursive walk of the code is a recursive function of the turns it may still take
(`walk[n]`), from the rest of a list of links and what the walk knows to what it knows
afterwards. `SenderTurn` and `PathTurn` are one turn of the loop in
`sender_is_child` and `unblocked_path_to_root`. `Enough` turns are never used up: a walk
descends once from an address, as it colours what it has seen. `supress_addrs` finds
the same addresses in any order and is what its links lead to (`Reach`).

| action or operator | code |
|---|---|
| Start, add_address, exp_addr_link, Insert | the recipients; an address in the list is only linked again; LDAP addresses go behind the cursor, others last |
| address_expand, alias_expand, password_expand, Final, Lookup, Looked, NotFound | `address_expand`: account, alias, directory; the dead queue for an unknown postmaster |
| Person, Refuse, Quiet | `simta_ldap_process_entry`, `do_ambiguous`, `do_noemail` |
| simta_ldap_expand_group, GroupEnvelopes, Refusable, GroupLoops | `simta_ldap_expand_group`: owner, members, members-only, moderator, forwarding, expansion level |
| MembersOnly, sender_is_child, supress_addrs, Permitted, ReadsNull | the members-only loop of `expand()` and its walks, with the flags they cache |
| Write, unblocked_path_to_root, Refusals | the loop that puts addresses into envelopes |
| Again | the process comes back to a message it could not expand |

### Delivery

A queue of N messages by one runner. `dns` is what the resolver says; `d` is
`struct deliver` (connection, place in the MX and A lists, retry list, movement),
`env` the statuses, flags and counters of the message. `StartMessage` to
`EndMessage` is one round of `_q_deliver`'s loop, whose outcome QueueDeliver
takes up. LookupDns, LookupRetry, LookupFirst, NextEntry and NextIp are the parts of
`next_dnsr_host`; `Greet` is one reply of `smtp_connect` or `smtp_rset`; SendMail,
SendRcpt, SendData, TextFails and SendEof are `smtp_send` with `smtp_reply`; `Sent` and
`smtp_cleanup` the rest of `deliver_remote`. A reply is its class; its effect is
done with its first line, after which the rest may be *torn*, as in
`smtp_consume_banner`. `Unheard` are the recipients whose acceptance did not arrive
whole; WithinContract says what QueueDeliver takes from an attempt in either
case (`PuntOutcome(R, heard)`).

### Receive

One session from the connection to the exit of the process. `f_data` is a step per
system call that matters (DataOpen, DataLine, DataEnd, DataFilter, DataBounce,
DataDispose, DataCommit, DataAnswer, DataCleanup) as the process may be killed
between them; every other handler is one step. `fast[m]` are the names of message m
in fast, `queued` the in-memory queue, `run` what was handed to `q_runner`.
`Return` is the end of a handler in `smtp_receive` with the punishment for failed
recipients; `local_address` is the sequence of lookups of a domain. header.c,
blocklists and the filter are outcomes.

### HostQueue and Daemon

HostQueue has the envelopes in memory (`envs`), the queues (`hq`) and the list
`deliver_q`, which is the sequence its links spell. Times are relative to now.
`Waits` is the choice of `hq_deliver_push`, empty where it divides by zero.
`HqMinWait` and `HqMaxWait` are the waits of a queue: the defaults, or those of the
host's entry in simta_remote_hosts, which any delivery rule of simta.conf
about the host makes with zeroes and only QUEUE_WAIT fills (`PuntRules`, `QueueWait`,
`RedHosts`, `RedWait`). QUEUE_WAIT takes any number; 0 is covered, negative ones
are left out (a remainder by one of them is defined, so nothing traps).
ReadStart, ReadEntry and ReadEnd are `q_read_dir` over a directory that others
change; `prune_messages` forgets what was not seen; `Promote` is
`env_jail_status` and the push at once that user commands make. HqSpec lets them
happen in any order.

Daemon composes HostQueue with `simta_server`: `pc` is the part of the loop, `sig`
the flags of the signal handlers, `proc` the process table with what each child is
doing, `count` and `cinfo` the limits. One step is one part of the loop, or one
entry of a directory. Handlers may run between any two steps; a signal ends
`select` only if it comes during the call. A child that fails, a fork that fails, a
command that fails and a division by zero end the daemon (`halted`).

### MailPromise

What a mailer promises of a message it accepted: each recipient gets one verdict, a
copy handed over or the sender told, and nothing done later adds a second or
contradicts the first; a recipient still owed one is kept in the spool. A step may
settle any set of recipients and keep any envelope that lists the others. The
refinement (`OneVerdict`) maps `delivered` to the copies that were handed over,
`told` to the recipients of bounces that stay, `kept` to those of envelopes that
have their D file beside them. It is claimed where it can be true: for a message to
one recipient whose hosts are heard, by any number of runners. With two
recipients the bounce of an old message also lists the one it was just delivered
to (see the observations), and two runners may both deliver what one of them rewrites.

## 4. Runs

| run | instance | shows |
|---|---|---|
| deliver_lock | 3 runners, 1 recipient, no punt queue, no failures | one copy is delivered (NoDouble), an E file is never without its D file (NoLoneEfile), the recipient gets one verdict and is kept until then (OneVerdict: the runners implement MailPromise), and the message is settled in the end (Settles) |
| deliver_faults | 2 runners, 2 recipients, failing bounces and t files, 1 killed runner | types; NoLoss; PromiseInv, the invariant of the proofs |
| deliver_punt | 1 runner, 2 recipients, punt queue, lost answers | one copy unless an answer was lost (OnceUnlessKilled), no fast file unaccounted for (CleanExit), the message leaves the spool (LeavesSpool) |
| expand | 1 or 2 local runners, 2 slow, 1 receiver, failing bounces | whatever link, unlink and unwinding interleave, the message stays whole until it is expanded or bounced (NoLoss), no lone E file, it settles or the daemon shuts down (Settles); with one local runner it is expanded or bounced once (HandledOnce) and no run ends with a file in fast (NothingStranded) |
| expand_restart | seven trees of at most 5 messages (two hosts and a bounce, with and without a punt host; a host and a bounce to two hosts; a host and two bounces; each with one failing call; a moderated or forwarded group and a host; a group in a group, with a punt host), 2 dead processes, restarts with and without -C | no envelope is lost (NoLoss); a daemon that is at rest has each message either waiting or expanded, and once (OneHolder); nothing is delivered while its original could be expanded again (DeliveredOnceExpanded); the assertions of the clean-up hold; everything is settled in the end (Settles) |
| addresses | all ways to nest three groups with one or two members, cycles of four, all attributes of a group in a group, a recipient of each kind with a directory that fails twice; two tries | no mail for an address that is only behind a refused group (NoLeak); no one else is missed and no assertion fails (NoneMissed); a bounce as unknown needs a full answer (UnknownIsReal) |
| receive_session | 7 configurations, 2 messages, limit of 2 failed recipients, 1 fault, kill | AnsweredIsKept, RefusedIsGone: answer and files agree; AuthBeforeAccept; TlsStartsAfresh; EhloWellFormed; DigestOwn; PunishedForGood; AllRun: everything accepted is handed to q_runner |
| delivery | 2 messages, 2 recipients, 7 answers of the resolver, 5 kinds of queue, every reply, aggressive delivery | WithinContract: outcomes lie in DeliverOutcome; OnceUnlessLost; AddressesTried: none too many, and all before the host counts as down; Ends |
| host_queues | three messages: to a host, to a host with a punting rule, unexpanded; paroled mail; all commands | LaunchListSound; TrapOnlyWithoutWait: only the second host's mail and the launch of simta_unexpanded_q divide by zero |
| daemon_loop | 2 processes, a message (to a host or unexpanded), two commands, a client, 2 events, limits of 1 | CountersAgree; SignalsHeeded and MailTried as liveness |
| cleanup_loss | one message to two groups, 1 dead process | **violation**, see below |
| lone_efile | 2 runners, 2 recipients | **violation**, see below |

Why the bounds are enough. Three runners for the lock: one that finishes the
message, one that waits at its old inode, one that reads the directory later.
(With nobody killed the truncation and the missing D file each stop the one that
waits; the lock itself is what neither can replace.)
Two recipients where an envelope is rewritten: one that is done, one that stays.
Inodes: the envelope, a t file, and the old one a runner may still hold; with a
fourth the run reaches the same 851562 states. `MaxCrashes` = 1 leaves
every kind of debris (t file, two directories, empty envelope) for the runners
that follow; `copies`, `expansions` and `bounces` are counted to 2, all the
properties ask about. The values of Proc, Rcpt and Inode are interchangeable in QueueDeliver, so
the large safety run uses symmetry; no run with a liveness property does.

In expand_restart two deaths let the clean-up die as well as the runner. All the
directory listings come in every order, as ids are not padded. What the seven
trees have in common is that no expansion leaves an unexpanded envelope beside
another envelope of its level in fast: other trees are cleanup_loss and the
assertions under Observations.

In addresses three groups are the least in which a walk is cut by its own
colour, leaves a flag, and a second walk uses it; four with a cycle below two
members-only groups show the same across recipients. NoneMissed is about
directories without cycles (see the observations), NoLeak about all. In
receive_session two messages are an abandoned and a following one, which the
digest, the queue and the accepted timer need; one fault may be any call of any
path. In delivery a second message meets the kept connection, the retry list and
the host's status of the first. In host_queues the waits 1 and 2 let every branch of
hq_deliver_push be taken. All its mail is on parole, as with prisoners each command
multiplies the states by its wrong count (see the observations); prisoners are in
daemon_loop, and the theorems are about all of them. In deliver_punt one runner is
what the property is about, and nobody kills it: what a kill leaves behind is in
deliver_faults. In daemon_loop limits of one process are reached, at
two entries per disk read and one per command read a pass is cut short, and
MaxEvents = 2 puts any two of a submission, a command, a connection, an arrival and
a failing child into one behaviour.

Deadlock is checked for QueueDeliver, QueueRunner, Expansion and Receive: a
runner always has a next step, and the system as a whole stops only in
`Terminating` or `Ended`, with nothing left to do. The other models end where
their process does (a queue delivered, an expansion done, a daemon shut down).

Fairness (`FairSpec`). Each process goes on when it can: processes are scheduled
by the kernel and none of the modelled calls blocks (F_TLOCK does not wait).
Weak fairness of `RunnerStep` also has a fresh runner launched while slow holds a
readable message, which is the daemon's timer (a dead host's queue is launched again
after its wait) and `simta -q`. Time passes (GetOld). Strong fairness of
PuntLeftOver says that the run of a runner ends: it makes another pass over the
punt queue only after it expanded a further message, and it has finitely many.
In Expansion the one process goes on, and whoever runs the machine starts simta
again, in the end with and without -C (strong fairness: a refused start is tried
again).
In Receive the process goes on by itself, reading data ends by the line timer, and
a client that has mail waiting cannot keep the session without a command that
delivers it, so CommandTimeout is fair then. In Daemon the loop, the children and
the clock go on (strong fairness of a wake-up that takes time: work takes time
too); nothing is assumed of users and clients. In Delivery every call returns,
by its timers.
Nothing is assumed about outcomes: a host may tempfail for ever, and it is the
age of the message that ends the retries. Where `DiskErrors` holds no liveness is
claimed, as a disk that is full for ever lets nothing end.

### Findings

- **lone_efile** (envelope.c:706). `env_outfile` renames a new envelope over the
  locked one. The new inode has no lock while its runner still has the message
  in hand: a second runner locks it and delivers. When the first wrote its t
  file and the other deletes E, the first one's rename brings an E file back
  whose D file is gone. simta.8:75-76: "Efiles should never exist alone."
- **cleanup_loss** (q_cleanup.c:400). `simta -C` takes the shallower one of two
  envelopes that share a D file for the original of the deeper one. A message to
  two moderated or forwarded groups A and B is expanded to an envelope for each;
  A's is expanded to A1 and deleted; the process dies. In fast are B (level 1) and
  A1 (level 2): A1 is deleted, and nothing else holds its recipients. The same
  happens to the expansion of a group beside a host envelope that waits for the punt
  host. simta.8:76-78 has -C delete stranded D and t files only, and the comment at
  q_cleanup.c:357 means interrupted expansions.

### Observations

What the models show of the code where no document says otherwise, so that no run
claims a violation. The models have this behaviour; the properties name it as an
exception.

*Queue.* With *two* local runners HandledOnce fails (a runner whose move to fast
failed cleans up from the directory it remembers, and puts a message that is in
fast into slow as well) and so does NothingStranded. With a punt queue and two
runners, or with rewrites and two runners, NoDouble fails: a kept message gives its
lock up (queue.c:1439), and a rewritten envelope has no lock. A bounce
of an old message lists all its recipients (bounce.c:471), also those the last attempt
just delivered to. A punt host whose reply breaks off behind its acceptance gets
the message again (queue.c:1164). When the punt host
refuses a recipient, `smtp_send` stops ("punt hosts must accept all rcpts",
smtp.c:808), `deliver_remote` clears the status and not `d_n_rcpt_failed`
(queue.c:1637), and `_q_deliver` deletes the message with a bounce that lists
nobody. If a process dies while it expands the first of two groups, one of the two
assertions of q_cleanup.c:384 and 407 fails at every `simta -C`.

*Delivery.* A 5xx banner bounces the later messages of the queue while the first
is only kept. `d_delivered` is not reset between attempts: a punt host whose
acceptance is torn gets the message again, and may keep the runner busy. A host
whose name is an alias of an alias and has no MX counts as down without an attempt:
get_outboud_dns looks up the A record behind a single CNAME only (queue.c:1724).

*Daemon.* A Message or Sender command on unexpanded mail puts simta_unexpanded_q,
whose waits are zero, into the launch list, and its launch divides by zero
(queue.c:626; simta.c:1038 refuses MIN_WAIT below 1). So does the first message for
a host with a rule `D NO_PUNT` or `D PUNT` and no QUEUE_WAIT: the rule makes an entry
with zeroes (red.c:268), and its waits replace the defaults (queue.c:148); and a 0 in
QUEUE_WAIT or JAIL_SECONDS, which nothing checks. TrapOnlyWithoutWait names these. env_jail_status counts
prisoners up where it frees them (envelope.c:105), and without MAIL_JAIL a command
on any message in memory ends the daemon. Unexpanded runners do not heed
MAX_Q_RUNNERS_SLOW and can use it up (daemon.c:984). A command signalled just
before select waits for the sleep to end.

*Receive.* filter_result is not set when a filter is configured and there is no D
file to filter, as in a tarpit (receive.c:1656); the accepted timer extends the
command timeout; NOOP, HELP and VRFY run accepted mail as RSET does.

*Expansion.* In groups that contain each other sender_is_child caches "no" on a
way that was cut, which refuses a member's message or trips the assertion of
supress_addrs, and unblocked_path_to_root caches the same way: addresses are
suppressed silently (never leaked). A moderated members-only group that is a
recipient and also below a refused group gets neither. A member's dn whose search
times out is bounced as missing, and a handle that a failed bind left open is
used again. A group whose forwarding addresses are all invalid is a NULL
dereference (simta_ldap.c:1179), a forwarding envelope passes for a match of the
sender with a moderator (1285), parent_permitted compares a NULL dn (expand.c:945),
and a bare `postmaster` in the password file fails each expansion (expand.c:442).
Unwinding frees a members-only envelope that is still queued (expand.c:723), and a
failure while host envelopes are written leaves those of groups in fast (389).

## 5. Proofs

Assumed of the constants, each in the module that declares it:

- `NoneAssumption`, `RcptAssumption` (None is neither an inode nor a process, Rcpt is
  not empty) and `FlagsAssumption` (Punt, DiskErrors and LostAnswers are Booleans,
  MaxCrashes a natural number). Proc, Rcpt and Inode are arbitrary sets, infinite ones too.
- `RolesAssumption`: local runners, slow runners and receivers are disjoint sets.
- `ReceiveAssumption`: Confs are configurations, FilterResults sets of bits of
  the filter's exit code, and at least one message.
- `HostQueueAssumption` and `DaemonAssumption`: the default waits are at least 1
  (simta.c:1038 refuses less), those of QUEUE_WAIT natural numbers, 0 included;
  limits and times are numbers.
- `WorldsAssumption`: the worlds are messages with what the tables say of each
  address, Addr is a finite set, and NULL (None) is no address; a message is tried at
  least once. `DirectoryAssumption`: at least one search, and limits are numbers.
- `NoneAssumption` and `IdAssumption` of QueueCleanup (None is neither an id nor a
  directory, and there are finitely many ids: a link count is a number), and
  `TreeAssumption` (every message but the root was expanded from another).
- `DeliveryAssumption`: at least one recipient. `AnswersAssumption`: MX records
  come sorted by preference and one with glue has an address. The resolver library
  keeps them so (denser/parse.c:249 sorts the records of one name, and an answer's MX
  records have one owner); the walk stops at the first MX that is not preferred
  to this host and relies on it.

Each invariant below was checked by TLC on the constants of its run before it was
proved. In every proof the step lemma has one case per action.

- **QueueDeliverProofs**, first part: `Spec => []BaseInv` and `Spec => []TypeOK`. Types alone
  are not inductive: `fastFiles[p]` must stay a natural number, and an unlink in
  fast takes one off. It stays positive because fast belongs to one runner that
  wrote the message there and put 1 on the count (*Ownership*); and Ownership needs
  that no step of that runner's move to slow is ever unwound, which holds
  because nobody else knows of the message before both links are made. *OneWriter*
  says that a t file being written exists and has one writer (O_EXCL).
- **QueueDeliverProofs**, second part, for `~Punt`: `Spec => []PromiseInv` and
  `Spec => []NoLoss`. NoLoss is about what is on disk, and a
  runner that has read recipients, or renames a t file, or commits a bounce,
  carries the message on from memory. So the invariant follows an undone
  recipient to every place: each envelope with a name or an open descriptor, the
  memory of each runner that may write it back, the t file or the bounce not yet
  committed (*NothingForgotten*, *NothingUnreported*), with t files on inodes
  of their own (*TfilesApart*). *SomewhereWhole* says one directory has both files.
  Every action keeps each part. `~Punt` is needed: with a punt queue NoLoss is
  false, by the refused recipient of the observations.
- **QueueDeliverProofs**, third part. `CleanExit` holds without a hypothesis: *FastCounted*
  makes of "positive" in BaseInv the exact number of names the runner has in
  fast, and says that the D file it moves to finds slow free. `NoLoneEfile`, for
  one recipient (*OneRcpt*): nothing is rewritten (*NoRewrite*), and then the D file
  is linked first and unlinked last (*DfileLast*); with a second recipient it is
  false, which is the finding lone_efile. `OnceUnlessKilled` and
  `NoDouble` (the latter with MaxCrashes = 0), for one recipient, `~Punt` and any
  number of runners: there is one inode anybody may still read (*OneInode*), who
  reads recipients in slow has its lock (*Locked*), and after the first verdict
  that was heard of, a copy or a bounce that stays, its owner is about to truncate or
  unlink it or it is empty (*FirstVerdict*). Two recipients or a punt queue break it, see the observations. `OneVerdict`, the
  refinement of MailPromise, under the same hypotheses where answers are heard
  and nobody is killed (*ExactlyOneVerdict*): FirstVerdict also says that who may still
  deliver or holds a bounce knows of no verdict, so each step gives a verdict only
  where one is owed (*VerdictStep*), and NoLoss keeps the message until then. Disk
  errors are allowed.
  `OnceUnlessKilled`, for one runner, any number of recipients, with or without a
  punt queue, and no disk errors: the envelope in slow or in memory lists no recipient
  that has a copy, also between a delivery and the rename of the rewritten
  envelope (*Alone*); a bounce or t file that cannot be written leaves delivered
  recipients listed. Both theorems except the recipients in `unheard`, whose host took
  the message without being heard: a punt host whose reply broke off behind its
  acceptance gets it again from one runner, with nothing killed and nothing failing.
- **QueueRunnerProofs**. `NoLoneEfile` and `NoLoss` for any number of runners of all
  kinds: whoever links D in a directory has claimed it (*ClaimedByOne*),
  whoever links E in fast holds the message (*HeldByOne*), as link(2) refuses
  a name that exists; a message that leaves local is in nobody else's hands
  (*FromLocal*), and what a slow runner holds is the last copy (*LastCopy*), so that
  the bounce of an old message leaves none behind. *StillKept* adds that one
  directory is whole. `HandledOnce` and `NothingStranded` speak of one local runner
  at a time; then *Token* says of each process which files its place in the
  loop stands for, and that there is at most one that stands for any.
- **ReceiveProofs**: every safety property of receive_session, for any number of
  messages, any configuration and filter. `env.flags` names the files the
  envelope has in fast (*Files*), only the last envelope created is open (*Numbering*),
  from the verdict to the answer `f_data` knows what it owes (*Verdicts*,
  *Disposal*), and what the session's modes still allow (*Auth*, *Punished*).
  `PunishedForGood` is an action property, from the same invariant.
- **DaemonProofs**. `CountersAgree`: the invariant *BookInv* says that the counters
  are the cardinalities of the children by type and by client, from a finite table
  whose entries have their fields; a child that failed ends the daemon before
  its books are balanced, so nothing is claimed then. `TrapOnlyWithoutWait`:
  a host has a queue only while mail for it is in memory (*Homed*), the remainder by zero is taken only of a queue whose minimum
  wait is zero (*NoWait*), and that is simta_unexpanded_q or a queue whose
  host has an entry of its own that says 0 (*TrapStep*). `PuntRules` and `QueueWait` are
  any, so the theorem covers every configuration without negative waits.
  `LaunchListSound`, for any mail,
  hosts, waits and commands: the invariant *ListInv* adds that the queues in memory
  are finitely many, that the queue of every envelope in memory exists (or a
  command would push one that does not), and that a queue which never was
  scheduled takes the first time it is given (*Listed*: `again`). The lemmas say
  what a pop, a push and a free do to any sound list (*PopIs*, *PushIs*, *FreeIs*),
  where the scan of hq_deliver_push stops (*PlaceIs*), and which changes of the
  queues keep the order (*Relabelled*: what the clock and the counters do).
  `q_read_dir` and the commands loop over queues in any order: a loop whose n-th
  turn leads from J[n-1] into J[n] ends in J[N] (*LoopEnds* in Loops), because the
  first turn that did not would be the least of a set of numbers. This takes the place
  of the induction theorem, which the provers cannot instantiate; `InTurn` is the
  fold of the loop written as a recursive function for it.
- **DeliveryProofs**: `WithinContract`, what QueueDeliver assumes of the agents by
  the sets of DeliverOutcome, where the acceptance was heard and where it was not, and `OnceUnlessLost`. While deliver_remote is at
  a message nobody has taken it, unless the answer was lost or a punt host's was
  torn (*Excused*); the counters are the numbers of the statuses (*Tally*);
  the recipients in front of the cursor have their answer, those behind none
  (*RemoteInv*, *LocalInv*).
- **DeliveryProofs**, second part: `AddressesTried`, of the loops over the answer, its address lists
  and the list of retries. What is in front of the cursors was tried (*Covered*), the
  cursors are inside lists that the answer yields (*AnswerIs*, *CursorsIn*), the
  first pass ended at the cutoff or at the end (*Through*, *NotCut*), and the
  place in the code says what is known of both (*PlaceIs*, *TriedIs*). `MailMovesOn` is
  its safety half, that no address is tried which is not preferred to this host. For
  the other half, "all before the host counts as down", no answer may be an alias of
  an alias without an MX (`NoChain`): with one the property is false, see the
  observations, and the run has none.
- **AddressesProofs**, for any finite set of addresses and any directory, with groups
  in each other in whatever cycles and members in whatever order. `NoLeak`: the walks
  cache in flags, and a cut walk may leave a "no" that is false, so the proof is
  about what may be relied on, the "yes". *LeakInv* says, while the list grows, that it
  is what its links lead to (*Grown*), that every link was made from the directory and
  has its way back (*Linked*), that a group which refuses the message is
  on the members-only list before anything is below it (*Guarded*), and that what is
  flagged as the sender leads to one (*SendersFound*). `sender_is_child` flags and
  returns true only where that is so (*SenderWalked*), hence a group that should
  refuse is never opened, and `supress_addrs` shuts it: its children are suppressed, and
  with every suppressed address its children (*Shut*, *Downwards*, the states
  *Suppressing* and *Suppressed*). In the second loop `unblocked_path_to_root` says yes, or
  leaves ROOT_PATH, only for an address that a recipient leads to without a refused group
  (*PathWalked*, *PathsKnown*), and an address that is not suppressed is reached for want of
  any refused group above it. Both walks are proved turn by turn: `walk[n]` lies in the
  set of functions that keep the contract of a walk, by *LoopRuns* (the recursive
  function exists) and *LoopEnds*. `UnknownIsReal` is an action property, from
  *LookupInv*: what the lookup in progress has heard of the address under the cursor,
  through every retry, reconnect and fault. `TypeOK` needs LeakInv, as the members a
  group adds must be addresses, and *Reports*.
- **ExpansionProofs**, for a message to any number of hosts and bounces, each bounce a
  message to any number of hosts, with or without a punt host, for any number of
  failing calls and dead processes, restarts with and without -C, and a clean-up that
  dies too: `NoLoss`, `OneHolder`, `DeliveredOnceExpanded`, `AssertsHold`. Each theorem
  says that it holds for every tree without moderated or forwarded groups
  (*Ungrouped*); with groups two of them are false. Trees with and without groups are
  in the run's set, and the hypothesis is on the tree of the behaviour, not on the set.
  One invariant, *RestartInv*, has a part per kind of process, as each must cope with what
  any other left. *Files*: an E file has its D file beside it; an envelope whose line
  (itself and what it was expanded from) has no E file was settled (*Kept*); a message
  that is gone while some of its envelopes are there was expanded in full (*Complete*);
  and it is gone once one of them was settled. *Together*: a message and its copies are
  in fast when both are there, so that the clean-up, which only compares inside fast,
  sees them. *Calling* says the same of the point between the
  unlink of an E file and that of its D file, with the table of E files as it will be
  (*Unlinked*). *Settled* (*OnePlace*, *Apart*): while
  the daemon is up no envelope has two E files, and a message is beside its copies only
  while it is the one being expanded (*Busy*). *Running* has what the memory of the runner
  says of the disk: `written` and `unwind` are in fast and in no queue, every queued
  envelope is where `Where` looks for it. *Cleaning*: the list names what the directory
  holds, what is marked has its original on the list, and by the time anything moves to
  slow no pair is left. Why the marks are right: `Judge` meets one D inode's envelopes
  in any order, and what it has seen of them after n turns is nothing, the original,
  copies, or the original and copies that are marked (*Judged*); JudgementIs carries that
  through the recursive function by *LoopEnds* of Loops. Levels and D inodes are recursive functions
  over the tree, which for these trees end after two steps (LevelIs, DinodeIs).

Only model-checked:

- liveness (Settles, LeavesSpool, AllRun, SignalsHeeded, MailTried, Ends): fairness and
  ENABLED are beyond the prover;
- Expansion's NoLoss, OneHolder, DeliveredOnceExpanded and AssertsHold for trees *with*
  moderated or forwarded groups. They hold for such trees of the run, and NoLoss and
  AssertsHold are false for others, which are the finding cleanup_loss and the assertions
  under Observations. The types of Expansion;
- NoneMissed of Addresses: it needs that a walk of an acyclic graph says "no" only where
  that is so, and with it that `Enough` turns suffice, which is an induction over the depth
  of the groups and not over the turns of a loop. NoLeak does not depend on either.

## 6. What is left out

- One message at a time: two messages never share a name. Bounces, expanded
  envelopes and D file link counts are effects in Spool; Expansion and QueueCleanup
  have them as files, for one process at a time, and there delivery is one step.
- A system call fails when its name is there or is not there, and bounces and t
  files may fail to be written. Failures for other reasons (EIO, EMFILE, a
  read-only disk, malloc) on files that exist are not modelled, nor is an
  ftruncate that fails, nor a failure inside env_efile after the rename.
- A crash is the death of a process. Writes survive it; power loss and fsync are
  not modelled.
- `env_touch` (the order within slow) and the queue filter do not change what the
  properties see. The jail is in HostQueue only.
- `expand()` is one step with two results in QueueRunner; in Addresses it is the
  part before the first file is written, in Expansion the part after, without
  members-only groups and without the dead queue.
- Delivery, Receive and Daemon use the spool through what is left in it; they are
  connected to the queue models by DeliverOutcome, by `run` (what q_runner is
  given) and by the exit status of a runner, not composed state by state.
- Receive has one session. Throttling between sessions is in Daemon. Text - header
  lines, message sizes, addresses, SASL and TLS - is reduced to the outcomes the
  handlers branch on.
- Not modelled: header.c (rewriting of text), red.c (tables of the configuration,
  which enter as inputs), the command line tools, the parsing of configuration
  files in simta.c and simta_ldap.c, line_file.c, argcargv.c, base64.c, bdb.c, tls.c,
  simvacation, and the libraries snet and denser (I/O and DNS). They keep no
  state of the mail system and decide nothing about a message that is not an
  outcome above. `PROJECT.json` gives the reason for each.
