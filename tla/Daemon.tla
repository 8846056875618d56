------------------------------- MODULE Daemon -------------------------------
(* simta_server: the loop of the daemon over HostQueue, its signals, timers,
   children and counters (daemon.c).

   The handlers usr1, usr2 and chld may run between any two steps of the loop;
   time passes only while the daemon waits in select.  What the children do is
   modelled by what the daemon sees of it: a local runner takes what is in the
   local directory, a slow runner unlinks or leaves the mail its queue had at
   the fork, a receiver lives for a while.  fork fails when no process
   is left; a child that ends badly, a failed fork, a command that fails and a
   division by zero all end the daemon. *)
EXTENDS HostQueue

CONSTANTS
    Pid,                \* bound: processes the system can have
    Ip,                 \* clients
    MaxMail,            \* bound: messages in slow, now or later
    MaxEvents,          \* bound: submissions, commands, connections and arrivals
    LocalMax, SlowMax,  \* simta_q_runner_local_max, simta_q_runner_slow_max
    LaunchLimit,        \* simta_launch_limit
    DiskEntries, CommandEntries,    \* simta_disk_read_entries, simta_command_read_entries
    WorkTime, UnexpandedTime,       \* simta_min_work_time, simta_unexpanded_time
    ThrottleSec                     \* simta_local_throttle_sec

ASSUME DaemonAssumption ==
    /\ {LocalMax, SlowMax, LaunchLimit, DiskEntries, CommandEntries,
        WorkTime, UnexpandedTime, ThrottleSec, MaxMail, MaxEvents} \subseteq Nat
    /\ LocalMax > 0 /\ WorkTime > 0 /\ UnexpandedTime > 0

VARIABLES
    pc,        \* where the loop is
    sig,       \* the signal flags that are set
    proc,      \* proc_stab, and what each child is doing
    count,     \* simta_q_runner_local, simta_q_runner_slow, simta_global_connections
    cinfo,     \* cinfo_stab: c_proc_total, and the seconds left of the throttle
    timer,     \* tv_disk, tv_unexpanded and tv_launch_limiter, less now
    entries,   \* of the pass: calls made, or queues launched
    errors,    \* daemon_waitpid's errors
    sleep,     \* sleep_time
    local,     \* what simsendmail did: nothing, the files, or the signal too
    cmd,       \* cmd[c]: none, written, signalled, done
    cdir,      \* what readdir has still to return of the command directory
    coming,    \* mail that is not in slow yet
    events     \* submissions, commands, connections and arrivals so far

loopVars == <<timer, entries, errors, sleep, cdir>>
procVars == <<proc, count, cinfo>>
envVars  == <<local, cmd, coming, events>>
vars     == <<hqVars, halted, pc, sig, loopVars, procVars, envVars>>

Status == {"run", "ok", "leaky", "error", "killed"}

(* a child: its type, p_host (queue or client; for a local runner whether it
   has read its directory), its mail and how it ended *)
Child(type, host, todo) ==
    [type |-> type, host |-> host, todo |-> todo, status |-> "run"]

Children(type) == {p \in DOMAIN proc : proc[p].type = type}

Steps == {"local", "child", "reap", "command", "disk", "unexpanded", "launch", "select",
          "asleep", "woken", "receive"}

TypeOK ==
    /\ HqTypeOK
    /\ pc \in Steps /\ sig \subseteq {"simsendmail", "child", "command"}
    /\ DOMAIN proc \subseteq Pid
    /\ \A p \in DOMAIN proc :
          /\ proc[p].type \in {"local", "slow", "receive"}
          /\ proc[p].todo \subseteq Msg /\ proc[p].status \in Status
    /\ count \in [{"local", "slow", "receive"} -> Nat]
    /\ DOMAIN cinfo \subseteq Ip
    /\ timer \in [{"disk", "unexpanded", "limiter"} -> Int]
    /\ errors \in BOOLEAN /\ entries \in Nat /\ sleep \in Nat
    /\ local \in {"none", "written", "signalled"}
    /\ cmd \in [HqCommands -> {"none", "written", "signalled", "done"}]
    /\ cdir = None \/ cdir \subseteq HqCommands
    /\ coming \subseteq Msg \ slow

Init ==
    /\ HqInit
    /\ pc = "local" /\ sig = {} /\ proc = [p \in {} |-> 0]
    /\ count = [t \in {"local", "slow", "receive"} |-> 0]
    /\ cinfo = [i \in {} |-> 0]
    /\ timer = [t \in {"disk", "unexpanded", "limiter"} |-> 0]
    /\ entries = 0 /\ errors = FALSE /\ sleep = 0 /\ cdir = None
    /\ coming \in SUBSET (Msg \ slow) /\ Cardinality(slow \union coming) <= MaxMail
    /\ local = "none" /\ cmd = [c \in HqCommands |-> "none"] /\ events = 0
-----------------------------------------------------------------------------
Event == events < MaxEvents /\ events' = events + 1

(* fork and simta_proc_add: p is any free process; none left is an error *)
Fork(child, next) ==
    LET free == Pid \ DOMAIN proc
    IN  IF free = {}
        THEN halted' = "error" /\ pc' = next /\ UNCHANGED <<proc, count>>
        ELSE /\ LET p == CHOOSE x \in free : TRUE
                IN  proc' = [x \in DOMAIN proc \union {p} |->
                                IF x = p THEN child ELSE proc[x]]
             /\ count' = [count EXCEPT ![child.type] = @ + 1]
             /\ pc' = next /\ Runs

(* The next part of the loop that has something to do; a flag that is raised
   between two parts is as good as one raised after the look at it. *)
Disk    == IF timer["disk"] <= 0 THEN "disk" ELSE "unexpanded"
Commands == IF cdir # None \/ "command" \in sig THEN "command" ELSE Disk
Wait    == IF "child" \in sig THEN "child" ELSE Commands

LocalRunner ==
    /\ pc = "local"
    /\ IF "simsendmail" \in sig /\ count["local"] < LocalMax
       THEN sig' = sig \ {"simsendmail"} /\ Fork(Child("local", "start", {}), Wait)
       ELSE pc' = Wait /\ Runs /\ UNCHANGED <<sig, proc, count>>
    /\ UNCHANGED <<hqVars, loopVars, cinfo, envVars>>

(* daemon_waitpid, one child at a time *)
Zombies == {p \in DOMAIN proc : proc[p].status # "run"}

WaitStart ==
    /\ pc = "child"
    /\ sig' = sig \ {"child"} /\ pc' = "reap" /\ errors' = FALSE
    /\ UNCHANGED <<hqVars, timer, entries, sleep, cdir, procVars, envVars>>

\* Mutant: a runner that exits with "leaky" keeps its slot.
ForgetUnlessLeaky(p) ==
    /\ proc' = [x \in DOMAIN proc \ {p} |-> proc[x]]
    /\ count' = [count EXCEPT ![proc[p].type] = @ - IF proc[p].status = "leaky" THEN 0 ELSE 1]
    /\ cinfo' = IF proc[p].type = "receive" /\ proc[p].status # "killed"
                THEN [cinfo EXCEPT ![proc[p].host].total = @ - 1] ELSE cinfo

Forget(p) ==
    /\ proc' = [x \in DOMAIN proc \ {p} |-> proc[x]]
    /\ count' = [count EXCEPT ![proc[p].type] = @ - 1]          \* *p_limit
    /\ cinfo' = IF proc[p].type = "receive" /\ proc[p].status # "killed"
                THEN [cinfo EXCEPT ![proc[p].host].total = @ - 1] ELSE cinfo

Reap ==
    /\ pc = "reap"
    /\ \E p \in Zombies :
          /\ Forget(p)
          /\ IF proc[p].type = "slow" /\ proc[p].status = "leaky"
             THEN \E ok \in BOOLEAN : Leaky(proc[p].host, ok) /\ Halts(ok, "trap")
             ELSE Runs /\ UNCHANGED <<hq, deliver_q>>
          /\ errors' = (errors \/ proc[p].status \in {"error", "killed"})
    /\ UNCHANGED <<slow, jail, locked, envs, unread, pc, sig, timer, entries, sleep, cdir, envVars>>

WaitDone ==
    /\ pc = "reap" /\ Zombies = {}
    /\ Halts(~errors, "error")
    /\ pc' = Commands
    /\ entries' = 1 /\ errors' = FALSE
    /\ UNCHANGED <<hqVars, sig, timer, sleep, cdir, procVars, envVars>>

(* for ( entries = 1; ; entries++ ): go on, or leave the rest for later *)
NextEntry(limit, here, next) ==
    IF limit > 0 /\ entries >= limit
    THEN pc' = next /\ entries' = 1
    ELSE pc' = here /\ entries' = entries + 1
-----------------------------------------------------------------------------
(* daemon_commands, a call at a time *)
CommandOpen ==
    /\ pc = "command" /\ cdir = None
    /\ sig' = sig \ {"command"}
    /\ cdir' = {c \in HqCommands : cmd[c] \in {"written", "signalled"}}
    /\ NextEntry(CommandEntries, "command", Disk)
    /\ UNCHANGED <<hqVars, timer, errors, sleep, procVars, envVars>>

CommandEntry ==
    /\ pc = "command" /\ cdir # None
    /\ \E c \in cdir, ok \in BOOLEAN :
          /\ Command(c, ok) /\ Halts(ok, "error")
          /\ cdir' = cdir \ {c}
          /\ cmd' = [cmd EXCEPT ![c] = "done"]
    /\ NextEntry(CommandEntries, "command", Disk)
    /\ UNCHANGED <<sig, timer, errors, sleep, procVars, local, coming, events>>

\* Mutant: the flag is cleared when the directory has been read.
CommandEndClears ==
    /\ pc = "command" /\ cdir = {}
    /\ cdir' = None /\ pc' = Disk /\ entries' = 1
    /\ sig' = sig \ {"command"}
    /\ UNCHANGED <<hqVars, timer, errors, sleep, procVars, envVars>>

CommandEnd ==
    /\ pc = "command" /\ cdir = {}
    /\ cdir' = None /\ pc' = Disk /\ entries' = 1
    /\ UNCHANGED <<hqVars, sig, timer, errors, sleep, procVars, envVars>>
-----------------------------------------------------------------------------
(* the slow directory, when its time has come *)
DiskStart ==
    /\ pc = "disk"
    /\ ReadStart
    /\ NextEntry(DiskEntries, "disk", "unexpanded")
    /\ UNCHANGED <<sig, timer, errors, sleep, cdir, procVars, envVars>>

DiskEntry ==
    /\ pc = "disk"
    /\ ReadEntry
    /\ NextEntry(DiskEntries, "disk", "unexpanded")
    /\ UNCHANGED <<sig, timer, errors, sleep, cdir, procVars, envVars>>

DiskEnd ==
    /\ pc = "disk"
    /\ \E ok \in BOOLEAN : ReadEnd(ok) /\ Halts(ok, "trap")
    /\ pc' = "unexpanded"
    /\ timer' = [timer EXCEPT !["disk"] = WorkTime]
    /\ entries' = 1
    /\ UNCHANGED <<sig, errors, sleep, cdir, procVars, envVars>>

(* the unexpanded queue, without regard to the number of runners *)
UnexpandedRunner ==
    /\ pc = "unexpanded"
    /\ IF Members(Unexpanded) # {} /\ timer["unexpanded"] <= 0
       THEN /\ timer' = [timer EXCEPT !["unexpanded"] = UnexpandedTime]
            /\ Fork(Child("slow", Unexpanded, Members(Unexpanded)), "launch")
       ELSE pc' = "launch" /\ Runs /\ UNCHANGED <<timer, proc, count>>
    /\ entries' = 1
    /\ UNCHANGED <<hqVars, sig, errors, sleep, cdir, cinfo, envVars>>

(* queue runners *)
SlowFull == SlowMax # 0 /\ count["slow"] >= SlowMax
Limited  == timer["limiter"] > 0

Launch ==
    /\ pc = "launch" /\ Due /\ ~Limited /\ ~SlowFull
    /\ \E ok \in BOOLEAN :
          /\ hq_launch(ok)
          /\ IF ok THEN LET q == Head(deliver_q) IN Fork(Child("slow", q, Members(q)), "launch")
             ELSE halted' = "trap" /\ UNCHANGED <<pc, proc, count>>
    /\ timer' = IF LaunchLimit > 0 /\ entries % LaunchLimit = 0
                THEN [timer EXCEPT !["limiter"] = 1] ELSE timer
    /\ entries' = entries + 1
    /\ UNCHANGED <<slow, jail, locked, envs, unread, sig, errors, sleep, cdir, cinfo, envVars>>

(* set_sleep_time: the soonest of the times the loop has to be back for *)
SleepTimes ==
    {timer["disk"]}
    \union (IF Members(Unexpanded) # {} THEN {timer["unexpanded"]} ELSE {})
    \union (IF deliver_q = << >> THEN {}
            ELSE IF Limited THEN {timer["limiter"]}
            ELSE IF ~Due THEN {hq[Head(deliver_q)].due} ELSE {})

Busy ==
    \/ cdir # None
    \/ "simsendmail" \in sig /\ count["local"] < LocalMax
    \/ "child" \in sig

LaunchDone ==
    /\ pc = "launch" /\ ~(Due /\ ~Limited /\ ~SlowFull)
    /\ sleep' = IF Busy THEN 0 ELSE Max({0, Min(SleepTimes)})
    /\ pc' = "select" /\ entries' = 1
    /\ UNCHANGED <<hqVars, sig, timer, errors, cdir, procVars, envVars>>
-----------------------------------------------------------------------------
(* select: until the time is up, a signal arrives or a client connects.  A
   signal that comes before the call does not wake it. *)
Select ==
    /\ pc = "select" /\ pc' = "asleep"
    /\ UNCHANGED <<hqVars, sig, loopVars, procVars, envVars>>

(* entries of clients that are gone are dropped from the throttle table *)
Throttled(d) ==
    LET left(i) == Max({cinfo[i].left - d, 0 - 1})
    IN  [i \in {j \in DOMAIN cinfo : cinfo[j].total > 0 \/ left(j) >= 0} |->
            [cinfo[i] EXCEPT !.left = left(i)]]

WakeFrom(from) ==
    /\ pc \in {"asleep", "woken"}
    /\ \E d \in from..(sleep + 1), ready \in BOOLEAN :
          /\ pc = "asleep" /\ ~ready => d >= sleep
          /\ IF ready THEN pc = "asleep" /\ Event ELSE UNCHANGED events
          /\ Advance(d)
          /\ timer' = [t \in DOMAIN timer |-> Max({timer[t] - d, 0})]
          /\ cinfo' = Throttled(d)
          /\ pc' = IF ready THEN "receive" ELSE "local"
    /\ sleep' = 0
    /\ UNCHANGED <<slow, jail, locked, envs, deliver_q, unread, sig, entries, errors,
                   cdir, proc, count, local, cmd, coming>>

Wake == WakeFrom(0)

(* simta_child_receive; accept may fail, which is not fatal *)
Receive ==
    /\ pc = "receive"
    /\ \/ pc' = "local" /\ Runs /\ UNCHANGED procVars
       \/ \E i \in Ip :
             /\ LET old == IF i \in DOMAIN cinfo THEN cinfo[i] ELSE [total |-> 0, left |-> 0 - 1]
                IN  \E left \in (IF old.left >= 0 THEN {old.left} ELSE {})
                               \union (IF old.left <= 0 THEN {ThrottleSec} ELSE {}) :
                       cinfo' = [j \in DOMAIN cinfo \union {i} |->
                          IF j = i THEN [total |-> old.total + 1, left |-> left] ELSE cinfo[j]]
             /\ Fork(Child("receive", i, {}), "local")
    /\ UNCHANGED <<hqVars, sig, loopVars, envVars>>
-----------------------------------------------------------------------------
(* Everything else in the system.  A signal that finds the daemon in select
   ends the call. *)
Raise(s) ==
    /\ sig' = sig \union {s}
    /\ pc' = IF pc = "asleep" THEN "woken" ELSE pc

Submit ==
    /\ local = "none" /\ local' = "written"
    /\ Event
    /\ UNCHANGED <<hqVars, pc, sig, loopVars, procVars, cmd, coming>>

SubmitSignal ==
    /\ local = "written" /\ local' = "signalled"
    /\ Raise("simsendmail")
    /\ UNCHANGED <<hqVars, loopVars, procVars, cmd, coming, events>>

Post(c) ==
    /\ cmd[c] = "none" /\ Event
    /\ cmd' = [cmd EXCEPT ![c] = "written"]
    /\ cdir' \in IF cdir = None THEN {None} ELSE {cdir, cdir \union {c}}
    /\ UNCHANGED <<hqVars, pc, sig, timer, entries, errors, sleep, procVars, local, coming>>

PostSignal(c) ==
    /\ cmd[c] = "written"
    /\ cmd' = [cmd EXCEPT ![c] = "signalled"]
    /\ Raise("command")
    /\ UNCHANGED <<hqVars, loopVars, procVars, local, coming, events>>

(* a local runner reads its directory once, at its start *)
LocalRead(p) ==
    /\ proc[p].type = "local" /\ proc[p].host = "start"
    /\ proc' = [proc EXCEPT ![p].host = "read"]
    /\ local' = "none"
    /\ UNCHANGED <<hqVars, pc, sig, loopVars, count, cinfo, cmd, coming, events>>

(* a child ends; a slow runner has delivered or expanded some of its mail then *)
Ends(p) ==
    {"ok", "error", "killed"} \union
    (IF proc[p].type = "slow" /\ proc[p].host # Unexpanded THEN {"leaky"} ELSE {})

Exit(p) ==
    /\ proc[p].type = "local" => proc[p].host = "read"
    /\ \E s \in Ends(p), done \in SUBSET proc[p].todo :
          /\ proc' = [proc EXCEPT ![p].status = s, ![p].todo = {}]
          /\ slow' = slow \ done
          /\ IF s \in {"error", "killed"} THEN Event ELSE UNCHANGED events
    /\ Raise("child")
    /\ UNCHANGED <<jail, locked, envs, hq, deliver_q, unread, loopVars, count, cinfo,
                   local, cmd, coming>>

NewMail(m) ==
    /\ m \in coming /\ coming' = coming \ {m} /\ Event
    /\ Arrive(m)
    /\ UNCHANGED <<pc, sig, loopVars, procVars, local, cmd>>
-----------------------------------------------------------------------------
Loop ==
    \/ LocalRunner \/ Reap \/ WaitDone
    \/ CommandEntry \/ DiskEnd \/ UnexpandedRunner \/ Launch \/ Receive
    \/ Runs /\ (\/ WaitStart \/ CommandOpen \/ CommandEnd
                \/ DiskStart \/ DiskEntry
                \/ LaunchDone \/ Select \/ Wake)

Work(p) ==
    /\ p \in DOMAIN proc /\ proc[p].status = "run" /\ Runs
    /\ LocalRead(p) \/ Exit(p)

Others ==
    /\ Runs
    /\ \/ Submit \/ SubmitSignal
       \/ \E c \in HqCommands : Post(c) \/ PostSignal(c)
       \/ \E m \in Msg : NewMail(m)

(* what goes on once the daemon has ended is not looked at *)
Next ==
    /\ halted = "no"
    /\ Loop \/ Others \/ \E p \in Pid : Work(p)

(* the daemon and its children run, and the clock does: work takes time too *)
Fairness ==
    /\ WF_vars(halted = "no" /\ Loop)
    /\ SF_vars(halted = "no" /\ Runs /\ WakeFrom(1))
    /\ \A p \in Pid : WF_vars(halted = "no" /\ Work(p))

Spec == Init /\ [][Next]_vars /\ Fairness
-----------------------------------------------------------------------------
(* The counters the limits are compared with are the numbers of children in
   the process table, whichever way they end; local runners stay within their
   limit, and every receiver finds its client's entry, which counts it, until an
   error ends the daemon (simta_child_receive, daemon_waitpid, the throttle
   table of simta_server). *)
CountersAgree ==
    halted = "no" /\ ~errors =>
        /\ \A t \in DOMAIN count : count[t] = Cardinality(Children(t))
        /\ count["local"] <= LocalMax
        /\ \A p \in Children("receive") :
              /\ proc[p].host \in DOMAIN cinfo
              /\ cinfo[proc[p].host].total =
                    Cardinality({x \in Children("receive") : proc[x].host = proc[p].host})

(* No signal is lost: a local submission that was signalled is read by a
   runner that starts after it, and a command that was signalled is carried out,
   although the flags are plain variables that handlers set at any time and
   select is not woken by what came before it. *)
SignalsHeeded ==
    /\ []<>(local # "signalled" \/ halted # "no")
    /\ []<>((\A c \in HqCommands : cmd[c] # "signalled") \/ halted # "no")

(* Mail that stays in slow is tried, again and again, by a runner, although
   directory reads are cut short and queues come and go.
   The unexpanded queue's runners do not heed the limit on runners and may
   use it up, so mail to hosts is promised this only while none runs. *)
Tried(m) ==
    \E p \in Children("slow") :
        m \in proc[p].todo \/ proc[p].host = Unexpanded

MailTried == \A m \in Msg : []<>(m \notin slow \/ Tried(m) \/ halted # "no")
=============================================================================
