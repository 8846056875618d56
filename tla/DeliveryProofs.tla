--------------------------- MODULE DeliveryProofs ---------------------------
(* Delivery for any number of messages and recipients and whatever the
   resolver says: a message that was taken is not offered again, what an
   attempt reports is what happened, and of the addresses of a host (the walk of
   next_dnsr_host and next_dnsr_host_lookup) none is tried that mail must not go
   to, and none is left out. *)
EXTENDS Delivery, Loops

---------------------------------------------------------------------------
(* The inductive invariant.                                                *)

\* Where the runner is in deliver_remote: between addresses and greetings, and
\* inside smtp_send.
Walking == {"lookup", "entry", "ip", "connect", "banner", "ehlo", "starttls",
            "handshake", "ehlo2", "helo", "rset", "send"}
Talking == {"mail", "rcpt", "data", "text"}

Statuses == {"none", "accepted", "failed", "tempfail"}

EnvType ==
    [status : [Rcpt -> Statuses], flags : SUBSET {"BOUNCE", "TEMPFAIL"},
     delivered : BOOLEAN, accepted : Nat, failed : Nat, tempfailed : Nat,
     movement : BOOLEAN]

\* The walk over an A list is inside the walk over the answer.
DeliverIs(x) ==
    /\ DOMAIN x = DOMAIN NewDeliver
    /\ x.result = None => x.ip = None

\* The statuses a kind of queue goes through.
StatusOK ==
    \/ queue = "PUNT" /\ hq_status \in {"PUNT", "PUNT_DOWN"}
    \/ queue = "MX" /\ hq_status \in {"MX", "DOWN", "BOUNCE"}
    \/ queue \in {"LOCAL", "SUPRESSED", "BITBUCKET"} /\ hq_status = queue

TypeInv ==
    /\ StatusOK
    /\ pc \in Walking \union Talking \union {"next", "local", "returned", "done"}
    /\ msg \in 0..N /\ rcpt \in Rcpt
    /\ pc \notin {"next", "done"} => msg > 0
    /\ env \in EnvType /\ DeliverIs(d)
    /\ pc = "entry" => d.result # None
    /\ copies \in [1..N -> [Rcpt -> 0..2]]
    /\ \A m \in 1..N : m > msg =>
        m \notin lost \union cut /\ \A r \in Rcpt : copies[m][r] = 0

\* The recipients with status s, and what the counters say of them.
With(e, s) == {r \in Rcpt : e.status[r] = s}
Tally(e) ==
    /\ e.accepted = Cardinality(With(e, "accepted"))
    /\ e.failed = Cardinality(With(e, "failed"))

\* Nobody has taken the message that was handed to H, unless its answer did not
\* come whole; with a punt host it was then for all, and may show in e.
Outstanding(e, H) ==
    IF Unheard(msg)
    THEN (queue = "PUNT" => H = Rcpt) /\ (e.delivered => queue = "PUNT")
    ELSE ~e.delivered /\ H = {}

\* As long as deliver_remote is at it, the message is pending; the recipients in
\* front of d_rcpt have their answer, which is yes for all of them with a punt
\* host.
RemoteInv ==
    pc \in Walking \union Talking =>
        /\ hq_status \in {"DOWN", "PUNT_DOWN"}
        /\ Tally(env)
        /\ Outstanding(env, Handed)
        /\ pc \in Talking => env.flags = {}
        /\ pc = "mail" => rcpt = 1
        /\ pc \in {"mail", "rcpt"} => \A r \in Rcpt : r >= rcpt => env.status[r] = "none"
        /\ pc \in {"data", "text"} => env.accepted > 0
        /\ hq_status = "PUNT_DOWN" =>
            /\ pc = "rcpt" => \A r \in Rcpt : r < rcpt => env.status[r] = "accepted"
            /\ pc \in {"data", "text"} => \A r \in Rcpt : env.status[r] = "accepted"

\* deliver_local has handed the message to the accepted recipients in front of
\* d_rcpt, and to those only unless the program's answer was lost.
LocalInv ==
    pc = "local" =>
        /\ hq_status = "LOCAL"
        /\ Tally(env) /\ env.flags = {}
        /\ \A r \in Rcpt : r >= rcpt => env.status[r] = "none" /\ copies[msg][r] = 0
        /\ \A r \in Rcpt : r < rcpt =>
            /\ env.status[r] = "accepted" => copies[msg][r] > 0
            /\ msg \in lost \/ (copies[msg][r] > 0 => env.status[r] = "accepted")

DeliveryInv ==
    /\ TypeInv /\ RemoteInv /\ LocalInv
    /\ WithinContract /\ OnceUnlessLost

---------------------------------------------------------------------------
(* What is counted.                                                        *)

\* The recipients can be counted.
LEMMA RcptFinite ==
    /\ IsFiniteSet(Rcpt) /\ Cardinality(Rcpt) = NRcpt
    /\ \A S \in SUBSET Rcpt : IsFiniteSet(S) /\ Cardinality(S) \in Nat
<1>1. NRcpt \in Nat /\ NRcpt >= 1 /\ 1 \in Int /\ NRcpt \in Int
  BY DeliveryAssumption
<1>2. IsFiniteSet(Rcpt) /\ Cardinality(Rcpt) = NRcpt
  BY <1>1, FS_Interval DEF Rcpt
<1> QED  BY <1>2, FS_Subset, FS_CardinalityType

\* The counters are numbers, and zero only when nobody has the status.
LEMMA TallyCounts ==
    ASSUME NEW e, Tally(e)
    PROVE  /\ e.accepted \in Nat /\ e.failed \in Nat
           /\ e.accepted = 0 <=> With(e, "accepted") = {}
           /\ e.failed = 0 <=> With(e, "failed") = {}
<1>1. \A s : /\ IsFiniteSet(With(e, s)) /\ Cardinality(With(e, s)) \in Nat
  BY RcptFinite DEF With
<1> QED  BY <1>1, FS_EmptySet DEF Tally

\* The answer for a recipient that had none is counted.
LEMMA SetStatusCounts ==
    ASSUME NEW e, e \in EnvType, Tally(e), NEW r \in Rcpt, e.status[r] = "none",
           NEW s \in {"accepted", "failed", "tempfail"}
    PROVE  /\ SetStatus(e, r, s) \in EnvType /\ Tally(SetStatus(e, r, s))
           /\ SetStatus(e, r, s).status[r] = s
           /\ \A q \in Rcpt : q # r => SetStatus(e, r, s).status[q] = e.status[q]
           /\ SetStatus(e, r, s).flags = e.flags
           /\ SetStatus(e, r, s).delivered = e.delivered
           /\ SetStatus(e, r, s).movement = e.movement
<1> DEFINE f == SetStatus(e, r, s)
<1>1. /\ f.status = [e.status EXCEPT ![r] = s]
      /\ f.flags = e.flags /\ f.delivered = e.delivered
      /\ f.movement = e.movement
      /\ f.accepted = e.accepted + (IF s = "accepted" THEN 1 ELSE 0)
      /\ f.failed = e.failed + (IF s = "failed" THEN 1 ELSE 0)
  BY DEF EnvType, SetStatus
<1>2. [e.status EXCEPT ![r] = s] \in [Rcpt -> Statuses]
  BY DEF EnvType, Statuses
<1>3. f \in EnvType
  <2> DEFINE inc(t) == IF s = t THEN 1 ELSE 0
             f1 == [e EXCEPT !.status = [e.status EXCEPT ![r] = s]]
             f2 == [f1 EXCEPT !.accepted = @ + inc("accepted")]
             f3 == [f2 EXCEPT !.failed = @ + inc("failed")]
             f4 == [f3 EXCEPT !.tempfailed = @ + inc("tempfail")]
  <2>1. \A t : inc(t) \in Nat
    OBVIOUS
  <2>2. f1 \in EnvType
    BY <1>2 DEF EnvType
  <2>3. f = f4
    BY DEF EnvType, SetStatus
  <2> HIDE DEF inc, f1
  <2>4. f2 \in EnvType
    BY <2>1, <2>2 DEF EnvType
  <2> HIDE DEF f2
  <2>5. f3 \in EnvType
    BY <2>1, <2>4 DEF EnvType
  <2> HIDE DEF f3
  <2>6. f4 \in EnvType
    BY <2>1, <2>5 DEF EnvType
  <2> QED  BY <2>3, <2>6
<1>4. \A t \in {"accepted", "failed"} :
        /\ With(f, t) = IF t = s THEN With(e, t) \union {r} ELSE With(e, t)
        /\ r \notin With(e, t)
  BY <1>1 DEF With, EnvType
<1>5. \A t \in {"accepted", "failed"} :
        /\ Cardinality(With(e, t)) \in Nat
        /\ Cardinality(With(f, t)) =
              Cardinality(With(e, t)) + IF s = t THEN 1 ELSE 0
  <2> SUFFICES ASSUME NEW t \in {"accepted", "failed"}
               PROVE  /\ Cardinality(With(e, t)) \in Nat
                      /\ Cardinality(With(f, t)) =
                            Cardinality(With(e, t)) + IF s = t THEN 1 ELSE 0
    OBVIOUS
  <2>1. IsFiniteSet(With(e, t)) /\ Cardinality(With(e, t)) \in Nat
    BY RcptFinite DEF With
  <2>2. Cardinality(With(e, t) \union {r}) = Cardinality(With(e, t)) + 1
    BY <1>4, <2>1, FS_AddElement
  <2>3. With(f, t) = IF t = s THEN With(e, t) \union {r} ELSE With(e, t)
    BY <1>4
  <2> HIDE DEF f
  <2>4. CASE t = s
    BY <2>1, <2>2, <2>3, <2>4
  <2>5. CASE t # s
    <3>1. With(f, t) = With(e, t)
      BY <2>3, <2>5
    <3> QED  BY <2>1, <2>5, <3>1
  <2> QED  BY <2>4, <2>5
<1>6. Tally(f)
  <2> HIDE DEF f
  <2> QED  BY <1>5, <1>1 DEF Tally
<1>7. f.status[r] = s /\ \A q \in Rcpt : q # r => f.status[q] = e.status[q]
  BY <1>1 DEF EnvType
<1> QED  BY <1>1, <1>3, <1>6, <1>7

\* An envelope without answers.
LEMMA NewEnvType ==
    /\ NewEnv \in EnvType /\ Tally(NewEnv) /\ NewEnv.flags = {} /\ ~NewEnv.delivered
    /\ \A r \in Rcpt : NewEnv.status[r] = "none"
<1>1. \A s : s # "none" => With(NewEnv, s) = {}
  BY DEF With, NewEnv
<1>2. Tally(NewEnv)
  BY <1>1, FS_EmptySet DEF Tally, NewEnv
<1>3. NewEnv \in EnvType
  BY DEF EnvType, NewEnv, Statuses
<1> QED  BY <1>2, <1>3 DEF NewEnv

---------------------------------------------------------------------------
(* What is reported.                                                       *)

\* What WithinContract asks of a report e on a message that H were handed.
Report(q, e, H, heard) ==
    \E o \in IF q = "PUNT" THEN PuntOutcome(Rcpt, heard) ELSE HostOutcome(Rcpt) :
        /\ o.delivered = e.delivered
        /\ o.bounce = ("BOUNCE" \in e.flags)
        /\ o.failed = With(e, "failed")
        /\ Cardinality(o.counted) = e.failed
        /\ o.delivered => Cardinality(o.accepted) = e.accepted
        /\ o.delivered /\ o.accepted # Rcpt => o.marked = With(e, "accepted")
        /\ q # "BITBUCKET" => o.accepted \subseteq H /\ (~heard \/ o.accepted = H)

\* WithinContract, in these terms.
Contract ==
    pc = "returned" =>
        /\ queue = "PUNT" /\ Unheard(msg) => Handed = Rcpt
        /\ hq_status = "PUNT_DOWN" => Unheard(msg) \/ Handed = {}
        /\ hq_status # "PUNT_DOWN" => Report(queue, env, Handed, ~Unheard(msg))

LEMMA ContractIs == WithinContract <=> Contract
<1>1. Report(queue, env, Handed, ~Unheard(msg)) <=>
        \E o \in IF queue = "PUNT" THEN PuntOutcome(Rcpt, ~Unheard(msg))
                 ELSE HostOutcome(Rcpt) :
            /\ o.delivered = env.delivered
            /\ o.bounce = ("BOUNCE" \in env.flags)
            /\ o.failed = {r \in Rcpt : env.status[r] = "failed"}
            /\ Cardinality(o.counted) = env.failed
            /\ o.delivered => Cardinality(o.accepted) = env.accepted
            /\ o.delivered /\ o.accepted # Rcpt =>
                  o.marked = {r \in Rcpt : env.status[r] = "accepted"}
            /\ queue # "BITBUCKET" =>
                  o.accepted \subseteq Handed /\ (Unheard(msg) \/ o.accepted = Handed)
  BY DEF Report, With
<1> QED  BY <1>1 DEF WithinContract, Contract

\* A host's report is in order when the message is not reported, and was not
\* taken as far as the answers tell, or when it was taken for those it is
\* reported for.
LEMMA HostReports ==
    ASSUME NEW q, q # "PUNT", NEW e, e \in EnvType, Tally(e), NEW H,
           NEW heard \in BOOLEAN,
           \/ ~e.delivered /\ (~heard \/ H = {})
           \/ /\ e.delivered /\ "BOUNCE" \notin e.flags
              /\ With(e, "accepted") \subseteq H
              /\ ~heard \/ H = With(e, "accepted")
    PROVE  Report(q, e, H, heard)
<1> DEFINE Took == IF e.delivered THEN With(e, "accepted") ELSE {}
           o == [delivered |-> e.delivered, bounce |-> "BOUNCE" \in e.flags,
                 accepted |-> Took, counted |-> With(e, "failed"),
                 failed |-> With(e, "failed"), marked |-> Took]
<1>1. /\ Took \subseteq Rcpt /\ With(e, "failed") \subseteq Rcpt
      /\ Took \cap With(e, "failed") = {}
  BY DEF With
<1>2. e.delivered \in BOOLEAN /\ ("BOUNCE" \in e.flags) \in BOOLEAN
  BY DEF EnvType
<1>3. /\ ~e.delivered => Took = {}
      /\ e.delivered => "BOUNCE" \notin e.flags
      /\ Took \subseteq H /\ (~heard \/ Took = H)
      /\ e.delivered => Cardinality(Took) = e.accepted /\ Took = With(e, "accepted")
      /\ Cardinality(With(e, "failed")) = e.failed
  BY <1>2 DEF Tally
<1> HIDE DEF Took
<1>4. o \in [delivered : BOOLEAN, bounce : BOOLEAN, accepted : SUBSET Rcpt,
             counted : SUBSET Rcpt, failed : SUBSET Rcpt, marked : SUBSET Rcpt]
  BY <1>1, <1>2
<1>5. o \in HostOutcome(Rcpt)
  BY <1>1, <1>3, <1>4 DEF HostOutcome, Outcome
<1>6. /\ o.delivered = e.delivered
      /\ o.bounce = ("BOUNCE" \in e.flags)
      /\ o.failed = With(e, "failed") /\ o.counted = With(e, "failed")
      /\ o.accepted = Took /\ o.marked = Took
  OBVIOUS
<1> HIDE DEF o
<1> QED  BY <1>3, <1>5, <1>6 DEF Report

\* A punt host's report is in order when the message was taken for all or for
\* none, as far as the answers tell, and at most one refusal was counted.
LEMMA PuntReports ==
    ASSUME NEW e, e \in EnvType, e.flags = {}, With(e, "failed") = {},
           With(e, "accepted") = {},
           NEW F \in SUBSET Rcpt, \A r, s \in F : r = s,
           e.failed = Cardinality(F),
           NEW Took \in SUBSET Rcpt, Took \cap F = {}, e.accepted = Cardinality(Took),
           NEW H, NEW heard \in BOOLEAN,
           IF heard THEN IF e.delivered THEN Took = Rcpt /\ H = Rcpt ELSE H = {}
           ELSE H = Rcpt
    PROVE  Report("PUNT", e, H, heard)
<1> DEFINE B == IF e.delivered THEN Took ELSE {}
           o == [delivered |-> e.delivered, bounce |-> FALSE, accepted |-> B,
                 counted |-> F, failed |-> {}, marked |-> {}]
<1>1. /\ B \subseteq Rcpt /\ B \cap F = {} /\ B \subseteq H /\ (~heard \/ B = H)
      /\ ~e.delivered => B = {}
      /\ e.delivered => Cardinality(B) = e.accepted
      /\ heard /\ e.delivered => B = Rcpt
  OBVIOUS
<1>2. e.delivered \in BOOLEAN
  BY DEF EnvType
<1> HIDE DEF B
<1>3. o \in [delivered : BOOLEAN, bounce : BOOLEAN, accepted : SUBSET Rcpt,
             counted : SUBSET Rcpt, failed : SUBSET Rcpt, marked : SUBSET Rcpt]
  BY <1>1, <1>2
<1>4. o \in PuntOutcome(Rcpt, heard)
  BY <1>1, <1>3 DEF PuntOutcome, Outcome
<1>5. /\ o.delivered = e.delivered /\ o.bounce = FALSE
      /\ o.accepted = B /\ o.failed = {} /\ o.counted = F /\ o.marked = {}
  OBVIOUS
<1>6. ("BOUNCE" \in e.flags) = FALSE
  OBVIOUS
<1> HIDE DEF o
<1> QED  BY <1>1, <1>4, <1>5, <1>6 DEF Report

---------------------------------------------------------------------------
(* deliver_remote.                                                         *)

\* A message nobody has taken is handed to none.
LEMMA HandedIs ==
    ASSUME TypeInv, msg > 0
    PROVE  /\ copies[msg] \in [Rcpt -> 0..2]
           /\ Handed = {} <=> \A r \in Rcpt : copies[msg][r] = 0
<1>1. msg \in 1..N
  BY DeliveryAssumption DEF TypeInv
<1>2. copies[msg] \in [Rcpt -> 0..2]
  BY <1>1 DEF TypeInv
<1> QED  BY <1>2 DEF Handed

\* The walk from one address to the next, and the greetings, leave the message
\* as it is; when they end the attempt, nobody has taken it.
LEMMA WalkKeeps ==
    ASSUME DeliveryInv, pc \in Walking,
           UNCHANGED <<queue, msg, rcpt, copies, lost, cut>>,
           env' \in EnvType, env'.status = env.status,
           env'.delivered = env.delivered, env'.accepted = env.accepted,
           env'.failed = env.failed,
           DeliverIs(d'), pc' = "entry" => d'.result # None,
           \/ pc' \in Walking /\ hq_status' = hq_status
           \/ /\ pc' = "returned"
              /\ \/ hq_status' = hq_status
                 \/ hq_status = "DOWN" /\ hq_status' \in {"BOUNCE", "MX"}
    PROVE  DeliveryInv'
<1>1. TypeInv /\ RemoteInv /\ OnceUnlessLost /\ msg > 0
  BY DEF DeliveryInv, TypeInv, Walking
<1>2. /\ hq_status \in {"DOWN", "PUNT_DOWN"} /\ Tally(env)
      /\ Outstanding(env, Handed) /\ (queue = "PUNT" <=> hq_status = "PUNT_DOWN")
  BY <1>1 DEF RemoteInv, TypeInv, StatusOK
<1>3. StatusOK'
  BY <1>1, <1>2 DEF TypeInv, StatusOK
<1>4. TypeInv'
  BY <1>1, <1>3 DEF TypeInv, Walking
<1>5. Tally(env)' /\ Outstanding(env, Handed)' /\ (Unheard(msg)' <=> Unheard(msg))
  BY <1>2 DEF Tally, With, Outstanding, Unheard, Handed
<1>6. RemoteInv'
  <2>1. CASE pc' \in Walking
    BY <1>2, <1>5, <2>1 DEF RemoteInv, Walking, Talking
  <2>2. CASE pc' = "returned"
    BY <2>2 DEF RemoteInv, Walking, Talking
  <2> QED  BY <2>1, <2>2
<1>7. LocalInv' /\ OnceUnlessLost'
  BY <1>1 DEF LocalInv, OnceUnlessLost, Unheard, Walking
<1>8. WithinContract'
  <2>1. hq_status' = "PUNT_DOWN" <=> queue' = "PUNT"
    BY <1>2
  <2>2. /\ queue' = "PUNT" /\ Unheard(msg)' => Handed' = Rcpt
        /\ Unheard(msg)' \/ Handed' = {}
        /\ queue' # "PUNT" => ~env'.delivered
    BY <1>2, <1>5 DEF Outstanding
  <2>3. queue' # "PUNT" => Report(queue', env', Handed', ~Unheard(msg)')
    BY <1>5, <2>2, HostReports
  <2>4. queue' # "PUNT" => Report(queue, env, Handed, ~Unheard(msg))'
    BY <2>3 DEF Report
  <2>5. Contract'
    BY <2>1, <2>2, <2>4 DEF Contract
  <2> QED  BY <2>5, ContractIs, PTL
<1> QED  BY <1>4, <1>6, <1>7, <1>8 DEF DeliveryInv

\* How smtp_send ends: with a report that is in order, or with the message as
\* it was, on the way to the next address.
LEMMA SentKeeps ==
    ASSUME TypeInv, pc \in Talking, hq_status \in {"DOWN", "PUNT_DOWN"},
           UNCHANGED <<queue, msg, rcpt>>, OnceUnlessLost',
           copies' \in [1..N -> [Rcpt -> 0..2]],
           \A m \in 1..N : m # msg => copies'[m] = copies[m],
           lost' \union cut' \subseteq lost \union cut \union {msg},
           NEW e, e \in EnvType, Tally(e), NEW res, Sent(e, res),
           queue = "PUNT" /\ res = "OK" => \A r, s \in With(e, "failed") : r = s,
           \/ IF Unheard(msg)'
              THEN (queue = "PUNT" => Handed' = Rcpt) /\ (e.delivered => queue = "PUNT")
              ELSE ~e.delivered /\ Handed' = {}
           \/ /\ e.delivered /\ e.flags = {} /\ With(e, "accepted") \subseteq Handed'
              /\ Unheard(msg)' \/ Handed' = With(e, "accepted")
              /\ queue = "PUNT" => With(e, "accepted") = Rcpt
              /\ res = "OK" \/ (hq_status = "DOWN" /\ e.accepted > 0)
    PROVE  DeliveryInv'
<1> DEFINE moved == e.failed > 0 \/ (e.delivered /\ e.accepted > 0)
           e1 == [e EXCEPT !.movement = @ \/ moved]
           d1 == [d EXCEPT !.movement = @ \/ moved]
<1>1. e1 \in EnvType
  <2>1. (e.movement \/ moved) \in BOOLEAN
    OBVIOUS
  <2> HIDE DEF moved
  <2> QED  BY <2>1 DEF EnvType
<1>2. /\ e1.status = e.status /\ e1.flags = e.flags /\ e1.delivered = e.delivered
      /\ e1.accepted = e.accepted /\ e1.failed = e.failed
      /\ moved => e1.movement
  BY DEF EnvType
<1>3. Tally(e1) /\ \A s : With(e1, s) = With(e, s)
  BY <1>2 DEF Tally, With
<1>4. /\ DOMAIN d1 = DOMAIN NewDeliver /\ d1.result = d.result /\ d1.ip = d.ip
  BY DEF TypeInv, DeliverIs, NewDeliver
<1>5. DeliverIs(d1) /\ DeliverIs([d1 EXCEPT !.snet = FALSE])
  <2> HIDE DEF d1
  <2> QED  BY <1>4 DEF TypeInv, DeliverIs, NewDeliver
<1>6. \/ /\ res = "OK" /\ pc' = "returned" /\ d' = d1
         /\ hq_status' = IF hq_status = "DOWN" THEN "MX" ELSE "PUNT"
         /\ env' = IF hq_status = "DOWN" THEN e1
                   ELSE [e1 EXCEPT !.flags = {}, !.status = NewEnv.status]
      \/ /\ res # "OK" /\ hq_status = "DOWN" /\ e1.movement
         /\ pc' = "returned" /\ hq_status' = "MX"
         /\ d' = [d1 EXCEPT !.snet = FALSE] /\ env' = e1
      \/ /\ res # "OK" /\ (hq_status = "DOWN" => ~e1.movement)
         /\ pc' = "lookup" /\ hq_status' = hq_status
         /\ d' = [d1 EXCEPT !.snet = FALSE] /\ env' = e1
  BY DEF Sent, smtp_cleanup
<1> HIDE DEF moved, e1, d1
<1>7. msg > 0 /\ (queue = "PUNT" <=> hq_status = "PUNT_DOWN")
      /\ (hq_status = "DOWN" => queue = "MX")
  BY DEF TypeInv, StatusOK, Talking
<1>8. DeliverIs(d')
  BY <1>5, <1>6
<1>9. ASSUME env' \in EnvType PROVE TypeInv'
  <2>1. StatusOK'
    BY <1>6, <1>7 DEF StatusOK
  <2>2. pc' \in {"lookup", "returned"}
    BY <1>6
  <2>3. \A m \in 1..N : m > msg =>
            m \notin lost' \union cut' /\ \A r \in Rcpt : copies'[m][r] = 0
    BY <1>7 DEF TypeInv
  <2> QED  BY <1>7, <1>8, <1>9, <2>1, <2>2, <2>3 DEF TypeInv, Walking
<1>10. LocalInv'
  BY <1>6 DEF LocalInv
<1>11. CASE pc' = "lookup"
  <2>1. env' = e1 /\ hq_status' = hq_status
    BY <1>6, <1>11
  <2>2. e.accepted \in Nat /\ e.failed \in Nat
    BY DEF EnvType
  <2>3. IF Unheard(msg)'
        THEN (queue = "PUNT" => Handed' = Rcpt) /\ (e.delivered => queue = "PUNT")
        ELSE ~e.delivered /\ Handed' = {}
    BY <1>2, <1>6, <1>11, <2>2 DEF moved
  <2>4. Outstanding(env, Handed)'
    BY <1>2, <2>1, <2>3 DEF Outstanding
  <2>6. RemoteInv'
    BY <1>3, <1>11, <2>1, <2>4 DEF RemoteInv, Walking, Talking
  <2>7. WithinContract'
    BY <1>11 DEF WithinContract
  <2> QED  BY <1>1, <1>9, <1>10, <2>1, <2>6, <2>7 DEF DeliveryInv
<1>12. CASE pc' = "returned" /\ hq_status = "DOWN"
  <2>1. env' = e1 /\ queue' # "PUNT"
    BY <1>6, <1>7, <1>12
  <2>2. RemoteInv'
    BY <1>12 DEF RemoteInv, Walking, Talking
  <2>3. WithinContract'
    <3>1. \/ ~e1.delivered /\ (Unheard(msg)' \/ Handed' = {})
          \/ /\ e1.delivered /\ "BOUNCE" \notin e1.flags
             /\ With(e1, "accepted") \subseteq Handed'
             /\ Unheard(msg)' \/ Handed' = With(e1, "accepted")
      BY <1>2, <1>3, <2>1
    <3>2. Report(queue', e1, Handed', ~Unheard(msg)')
      BY <1>1, <1>3, <2>1, <3>1, HostReports
    <3>3. Report(queue, env, Handed, ~Unheard(msg))'
      BY <2>1, <3>2 DEF Report
    <3>4. hq_status' # "PUNT_DOWN" /\ queue' # "PUNT"
      BY <1>6, <1>12, <2>1
    <3>5. Contract'
      BY <3>3, <3>4 DEF Contract
    <3> QED  BY <3>5, ContractIs, PTL
  <2> QED  BY <1>1, <1>9, <1>10, <2>1, <2>2, <2>3 DEF DeliveryInv
<1>13. CASE pc' = "returned" /\ hq_status = "PUNT_DOWN"
  <2> DEFINE e2 == [e1 EXCEPT !.flags = {}, !.status = NewEnv.status]
  <2>1. env' = e2 /\ res = "OK" /\ queue' = "PUNT"
    BY <1>6, <1>7, <1>13
  <2>2. NewEnv.status \in [Rcpt -> Statuses]
        /\ \A r \in Rcpt : NewEnv.status[r] = "none"
    BY NewEnvType DEF EnvType
  <2>3. e2 \in EnvType
    <3> DEFINE e3 == [e1 EXCEPT !.flags = {}]
    <3>1. e3 \in EnvType
      BY <1>1 DEF EnvType
    <3>2. e2 = [e3 EXCEPT !.status = NewEnv.status]
      BY <1>1 DEF EnvType
    <3> HIDE DEF e3, e2
    <3> QED  BY <2>2, <3>1, <3>2 DEF EnvType
  <2>4. /\ e2.flags = {} /\ e2.status = NewEnv.status
        /\ e2.delivered = e.delivered /\ e2.failed = e.failed
        /\ e2.accepted = e.accepted
    BY <1>1, <1>2 DEF EnvType
  <2> HIDE DEF e2
  <2>5. RemoteInv'
    BY <1>13 DEF RemoteInv, Walking, Talking
  <2>6. WithinContract'
    <3> DEFINE F == With(e, "failed")
               Took == With(e, "accepted")
    <3>1. /\ With(e2, "failed") = {} /\ With(e2, "accepted") = {}
          /\ F \in SUBSET Rcpt /\ Took \in SUBSET Rcpt /\ Took \cap F = {}
      BY <2>2, <2>4 DEF With
    <3>2. /\ e2.failed = Cardinality(F) /\ \A r, s \in F : r = s
          /\ e2.accepted = Cardinality(Took)
      BY <1>7, <1>13, <2>1, <2>4 DEF Tally
    <3>3. /\ Unheard(msg)' => Handed' = Rcpt
          /\ ~Unheard(msg)' => IF e2.delivered THEN Took = Rcpt /\ Handed' = Rcpt
                               ELSE Handed' = {}
      <4>1. Handed' \subseteq Rcpt
        BY DEF Handed
      <4> QED  BY <1>7, <1>13, <2>4, <4>1
    <3> HIDE DEF F, Took
    <3>4. Report("PUNT", e2, Handed', ~Unheard(msg)')
      BY <2>3, <2>4, <3>1, <3>2, <3>3, PuntReports
    <3>5. Report(queue, env, Handed, ~Unheard(msg))'
      BY <2>1, <3>4 DEF Report
    <3>6. hq_status' # "PUNT_DOWN"
      BY <1>6, <1>13
    <3>7. Contract'
      BY <3>3, <3>5, <3>6 DEF Contract
    <3> QED  BY <3>7, ContractIs, PTL
  <2> QED  BY <1>9, <1>10, <2>1, <2>3, <2>5, <2>6 DEF DeliveryInv
<1> QED  BY <1>6, <1>11, <1>12, <1>13

\* The walk over the addresses only changes the connection data.
LEMMA WalkSteps ==
    ASSUME DeliveryInv,
           LookupDns \/ LookupRetry \/ LookupFirst \/ NextEntry \/ NextIp \/ Connect
    PROVE  DeliveryInv'
<1>0. /\ DeliverIs(d) /\ env \in EnvType
      /\ pc \in Walking => hq_status \in {"DOWN", "PUNT_DOWN"}
      /\ pc = "entry" => d.result # None
  BY DEF DeliveryInv, TypeInv, RemoteInv
<1>1. ASSUME NEW x, DeliverIs(x), Exhausted(x)
      PROVE  /\ DeliverIs(d') /\ pc' \in {"lookup", "returned"}
             /\ x.ip = None => pc' = "returned"
  BY <1>1 DEF Exhausted, DeliverIs, NewDeliver
<1>2. ASSUME NEW x, DeliverIs(x), Found(x)
      PROVE  DeliverIs(d') /\ pc' = "connect"
  BY <1>2 DEF Found, DeliverIs, NewDeliver
<1>3. ASSUME NEW x, DeliverIs(x), NEW i, Retry(x, i)
      PROVE  DeliverIs(d') /\ pc' = "connect"
  <2> DEFINE y == [x EXCEPT !.retry_cur = i, !.sin = x.retry[i]]
  <2>1. DeliverIs(y)
    BY <1>3 DEF DeliverIs, NewDeliver
  <2> QED  BY <1>2, <1>3, <2>1 DEF Retry
<1>4. ASSUME NEW x, DeliverIs(x), NoMore(x)
      PROVE  DeliverIs(d') /\ pc' \in {"connect", "lookup", "returned"}
  BY <1>1, <1>3, <1>4 DEF NoMore
<1>5. CASE LookupDns
  <2>1. /\ UNCHANGED <<queue, msg, rcpt, copies, lost, cut>> /\ pc = "lookup"
        /\ d.result = None /\ d.ip = None
    BY <1>0, <1>5 DEF LookupDns, ghosts, DeliverIs
  <2>2. \A b : DeliverIs([d EXCEPT !.no_punt = b]) /\ [d EXCEPT !.no_punt = b].ip = None
    BY <1>0, <2>1 DEF DeliverIs, NewDeliver
  <2>3. CASE get_outboud_dns(env) /\ hq_status = "DOWN"
    <3>1. CASE \E b : Exhausted([d EXCEPT !.no_punt = b]) /\ UNCHANGED <<hq_status, env>>
      <4>1. DeliverIs(d') /\ pc' = "returned" /\ UNCHANGED <<hq_status, env>>
        BY <1>1, <2>2, <3>1
      <4> QED  BY <1>0, <2>1, <4>1, WalkKeeps DEF Walking
    <3>2. CASE /\ hq_status' = "BOUNCE"
               /\ env' = [env EXCEPT !.flags = @ \union {"BOUNCE"}]
               /\ Exhausted([d EXCEPT !.no_punt = FALSE])
      <4>1. DeliverIs(d') /\ pc' = "returned" /\ hq_status' = "BOUNCE"
        BY <1>1, <2>2, <3>2
      <4>2. /\ env' \in EnvType /\ env'.status = env.status
            /\ env'.delivered = env.delivered /\ env'.accepted = env.accepted
            /\ env'.failed = env.failed
        BY <1>0, <3>2 DEF EnvType
      <4> QED  BY <2>1, <2>3, <4>1, <4>2, WalkKeeps DEF Walking
    <3>3. ASSUME NEW r, NEW c, NEW b, UNCHANGED <<pc, hq_status, env>>,
                 d' = [d EXCEPT !.result = r, !.cur = 0, !.no_punt = b, !.cutoff = c]
          PROVE  DeliveryInv'
      <4>1. DeliverIs(d')
        BY <1>0, <2>1, <3>3 DEF DeliverIs, NewDeliver
      <4> QED  BY <1>0, <2>1, <3>3, <4>1, WalkKeeps DEF Walking
    <3>4. ASSUME NEW r, UNCHANGED <<pc, hq_status, env>>,
                 d' = [d EXCEPT !.result = r, !.cur = 0, !.cutoff = None,
                                !.no_punt = FALSE]
          PROVE  DeliveryInv'
      <4>1. DeliverIs(d')
        BY <1>0, <2>1, <3>4 DEF DeliverIs, NewDeliver
      <4> QED  BY <1>0, <2>1, <3>4, <4>1, WalkKeeps DEF Walking
    <3> DEFINE bare == dns.mx = << >> \/ (Len(dns.mx) = 1 /\ dns.mx[1].type = "CNAME")
    <3>5. CASE dns.mx = None
      BY <2>3, <3>1, <3>5 DEF get_outboud_dns
    <3>6. CASE dns.mx # None /\ ~bare
      <4> DEFINE own == {i \in DOMAIN dns.mx : dns.mx[i].type = "MX" /\ dns.mx[i].own}
                 c == IF own = {} THEN None
                      ELSE dns.mx[CHOOSE i \in own : \A j \in own : i <= j].pref
      <4>1. /\ UNCHANGED <<pc, hq_status, env>>
            /\ d' = [d EXCEPT !.result = dns.mx, !.cur = 0, !.no_punt = own # {},
                              !.cutoff = c]
        BY <2>3, <3>6, Zenon DEF get_outboud_dns
      <4> HIDE DEF own, c
      <4> QED  BY <3>3, <4>1
    <3>7. CASE dns.mx # None /\ bare /\ (dns.a = None \/ dns.a = << >>)
      BY <2>3, <3>1, <3>2, <3>7 DEF get_outboud_dns
    <3>8. CASE dns.mx # None /\ bare /\ dns.a # None /\ dns.a # << >>
      BY <2>3, <3>4, <3>8 DEF get_outboud_dns
    <3> QED  BY <3>5, <3>6, <3>7, <3>8
  <2>4. CASE hq_status = "PUNT_DOWN"
    <3>1. UNCHANGED <<hq_status, env>>
      BY <1>5, <2>4 DEF LookupDns
    <3>2. DeliverIs(d') /\ pc' \in {"lookup", "returned"}
      <4>1. CASE Exhausted(d)
        BY <1>0, <1>1, <4>1
      <4>2. ASSUME NEW r, d' = [d EXCEPT !.result = r, !.cur = 0, !.cutoff = None],
                   pc' = pc
            PROVE  DeliverIs(d') /\ pc' \in {"lookup", "returned"}
        BY <1>0, <2>1, <4>2 DEF DeliverIs, NewDeliver
      <4> QED  BY <1>5, <2>4, <4>1, <4>2 DEF LookupDns
    <3> QED  BY <1>0, <2>1, <3>1, <3>2, WalkKeeps DEF Walking
  <2> QED  BY <1>5, <2>3, <2>4 DEF LookupDns
<1>6. CASE LookupRetry
  <2>1. /\ UNCHANGED <<queue, msg, rcpt, copies, lost, cut, hq_status, env>>
        /\ pc = "lookup"
    BY <1>6 DEF LookupRetry, ghosts
  <2>2. \A left : DeliverIs([d EXCEPT !.retry = left, !.retry_cur = 0])
    BY <1>0 DEF DeliverIs, NewDeliver
  <2>3. DeliverIs(d') /\ pc' \in {"connect", "lookup", "returned"}
    BY <1>0, <1>1, <1>3, <1>6, <2>2 DEF LookupRetry
  <2> QED  BY <1>0, <2>1, <2>3, WalkKeeps DEF Walking
<1>7. CASE LookupFirst
  <2>1. /\ UNCHANGED <<queue, msg, rcpt, copies, lost, cut, hq_status, env>>
        /\ pc = "lookup" /\ d.result # None /\ pc' \in {"ip", "entry"}
    BY <1>7 DEF LookupFirst, ghosts
  <2>2. DeliverIs(d') /\ d'.result = d.result
    <3> DEFINE l == IF Aggressive /\ d.movement THEN Append(d.retry, d.sin) ELSE d.retry
    <3>1. d' = [d EXCEPT !.retry = l]
      BY <1>7 DEF LookupFirst
    <3> HIDE DEF l
    <3> QED  BY <1>0, <3>1 DEF DeliverIs, NewDeliver
  <2> QED  BY <1>0, <2>1, <2>2, WalkKeeps DEF Walking
<1>8. CASE NextEntry
  <2>1. /\ UNCHANGED <<queue, msg, rcpt, copies, lost, cut, hq_status, env>>
        /\ pc = "entry" /\ d.result # None
    BY <1>0, <1>8 DEF NextEntry, ghosts
  <2> DEFINE x == [d EXCEPT !.cur = @ + 1]
  <2>2. /\ DeliverIs(x) /\ x.result = d.result
        /\ \A a : DeliverIs([x EXCEPT !.sin = a])
        /\ \A a : LET y == [x EXCEPT !.ip = a, !.cur_ip = 0]
                  IN  DOMAIN y = DOMAIN NewDeliver /\ y.result = d.result
    BY <1>0 DEF DeliverIs, NewDeliver
  <2>3. \/ NoMore(d) \/ NoMore(x)
        \/ \E a : Found([x EXCEPT !.sin = a])
        \/ \E a : d' = [x EXCEPT !.ip = a, !.cur_ip = 0] /\ pc' = "ip"
        \/ d' = x /\ pc' = pc
    BY <1>8 DEF NextEntry
  <2> HIDE DEF x
  <2>4. /\ DeliverIs(d') /\ pc' \in {"connect", "lookup", "returned", "ip", "entry"}
        /\ pc' = "entry" => d'.result # None
    <3>1. CASE NoMore(d) \/ NoMore(x)
      BY <1>0, <1>4, <2>2, <3>1
    <3>2. CASE \E a : Found([x EXCEPT !.sin = a])
      BY <1>2, <2>2, <3>2
    <3>3. CASE \E a : d' = [x EXCEPT !.ip = a, !.cur_ip = 0] /\ pc' = "ip"
      BY <2>1, <2>2, <3>3 DEF DeliverIs
    <3>4. CASE d' = x /\ pc' = pc
      BY <2>1, <2>2, <3>4
    <3> QED  BY <2>3, <3>1, <3>2, <3>3, <3>4
  <2> QED  BY <1>0, <2>1, <2>4, WalkKeeps DEF Walking
<1>9. CASE NextIp
  <2>1. /\ UNCHANGED <<queue, msg, rcpt, copies, lost, cut, hq_status, env>>
        /\ pc = "ip"
    BY <1>9 DEF NextIp, ghosts
  <2> DEFINE x == [d EXCEPT !.cur_ip = @ + 1]
  <2>2. DeliverIs(x) /\ \A a : DeliverIs([x EXCEPT !.sin = a])
    BY <1>0 DEF DeliverIs, NewDeliver
  <2>3. NoMore(d) \/ (\E a : Found([x EXCEPT !.sin = a])) \/ (d' = x /\ pc' = pc)
    BY <1>9 DEF NextIp
  <2> HIDE DEF x
  <2>4. DeliverIs(d') /\ pc' \in {"connect", "lookup", "returned", "ip"}
    BY <1>0, <1>2, <1>4, <2>1, <2>2, <2>3
  <2> QED  BY <1>0, <2>1, <2>4, WalkKeeps DEF Walking
<1>10. CASE Connect
  <2>1. /\ UNCHANGED <<queue, msg, rcpt, copies, lost, cut, hq_status, env>>
        /\ pc = "connect" /\ pc' \in {"lookup", "banner"}
    BY <1>10 DEF Connect
  <2>2. DeliverIs(d')
    BY <1>0, <1>10 DEF Connect, DeliverIs, NewDeliver
  <2> QED  BY <1>0, <2>1, <2>2, WalkKeeps DEF Walking
<1> QED  BY <1>5, <1>6, <1>7, <1>8, <1>9, <1>10

\* The greetings go on, or end the connection.
LEMMA GreetSteps ==
    ASSUME DeliveryInv, smtp_connect \/ smtp_rset
    PROVE  DeliveryInv'
<1>0. /\ DeliverIs(d) /\ env \in EnvType /\ DeliverIs([d EXCEPT !.snet = FALSE])
      /\ pc \in Walking => hq_status \in {"DOWN", "PUNT_DOWN"}
  BY DEF DeliveryInv, TypeInv, RemoteInv, DeliverIs, NewDeliver
<1>1. ASSUME pc \in Walking, UNCHANGED <<queue, msg, rcpt, copies, lost, cut>>,
             \/ pc' \in Walking \ {"entry"} /\ UNCHANGED <<hq_status, d, env>>
             \/ \E st : /\ st = hq_status \/ (hq_status = "DOWN" /\ st = "BOUNCE")
                        /\ smtp_cleanup(d, env, st)
      PROVE  DeliveryInv'
  <2>1. env' = env /\ DeliverIs(d')
    BY <1>0, <1>1 DEF smtp_cleanup
  <2>2. /\ pc' = "entry" => d'.result # None
        /\ \/ pc' \in Walking /\ hq_status' = hq_status
           \/ /\ pc' = "returned"
              /\ \/ hq_status' = hq_status
                 \/ hq_status = "DOWN" /\ hq_status' \in {"BOUNCE", "MX"}
    BY <1>0, <1>1 DEF smtp_cleanup, Walking
  <2> QED  BY <1>0, <1>1, <2>1, <2>2, WalkKeeps
<1>2. ASSUME NEW here \in Walking, NEW good, NEW next,
             next \subseteq Walking \ {"entry"}, Greet(here, good, next)
      PROVE  DeliveryInv'
  <2>1. pc \in Walking /\ UNCHANGED <<queue, msg, rcpt, copies, lost, cut>>
    BY <1>2 DEF Greet, ghosts
  <2>2. \/ pc' \in Walking \ {"entry"} /\ UNCHANGED <<hq_status, d, env>>
        \/ \E st : /\ st = hq_status \/ (hq_status = "DOWN" /\ st = "BOUNCE")
                   /\ smtp_cleanup(d, env, st)
    BY <1>2 DEF Greet, Walking
  <2> QED  BY <1>1, <2>1, <2>2
<1>3. CASE Handshake
  BY <1>1, <1>3 DEF Handshake, Walking, ghosts
<1> QED  BY <1>2, <1>3 DEF smtp_connect, smtp_rset, Walking

\* Every attempt starts with a clean envelope.
LEMMA SendStep ==
    ASSUME DeliveryInv, smtp_send
    PROVE  DeliveryInv'
<1>1. /\ UNCHANGED <<queue, hq_status, msg, d, copies, lost, cut>>
      /\ pc = "send" /\ pc' = "mail" /\ rcpt' = 1 /\ TypeInv /\ RemoteInv
      /\ OnceUnlessLost
  BY DEF smtp_send, ghosts, DeliveryInv
<1>2. /\ env' \in EnvType /\ env'.delivered = env.delivered
      /\ env'.status = NewEnv.status /\ env'.flags = {}
      /\ env'.accepted = NewEnv.accepted /\ env'.failed = NewEnv.failed
  <2>1. env.delivered \in BOOLEAN /\ env.movement \in BOOLEAN
    BY <1>1 DEF TypeInv, EnvType
  <2>2. env' = [NewEnv EXCEPT !.delivered = env.delivered, !.movement = env.movement]
    BY DEF smtp_send
  <2> QED  BY <2>1, <2>2, NewEnvType DEF EnvType
<1>3. Tally(env)' /\ \A r \in Rcpt : env'.status[r] = "none"
  BY <1>2, NewEnvType DEF Tally, With
<1>4. TypeInv'
  <2>1. 1 \in Rcpt
    BY DeliveryAssumption DEF Rcpt
  <2> QED  BY <1>1, <1>2, <2>1 DEF TypeInv, StatusOK, Walking, Talking
<1>5. RemoteInv'
  <2>1. Outstanding(env, Handed) => Outstanding(env, Handed)'
    BY <1>1, <1>2 DEF Outstanding, Unheard, Handed
  <2> QED  BY <1>1, <1>2, <1>3, <2>1 DEF RemoteInv, Walking, Talking
<1>6. LocalInv' /\ OnceUnlessLost' /\ WithinContract'
  BY <1>1 DEF LocalInv, OnceUnlessLost, WithinContract, Unheard
<1> QED  BY <1>4, <1>5, <1>6 DEF DeliveryInv

\* smtp_send ends and the message was not taken.
LEMMA NotTaken ==
    ASSUME DeliveryInv, pc \in Talking,
           UNCHANGED <<queue, msg, rcpt, copies, lost, cut>>,
           NEW e, e \in EnvType, Tally(e), e.delivered = env.delivered,
           NEW res, Sent(e, res),
           queue = "PUNT" /\ res = "OK" => \A r, s \in With(e, "failed") : r = s
    PROVE  DeliveryInv'
<1>1. TypeInv /\ RemoteInv /\ OnceUnlessLost /\ msg > 0
  BY DEF DeliveryInv, TypeInv, Talking
<1>2. /\ hq_status \in {"DOWN", "PUNT_DOWN"}
      /\ Outstanding(e, Handed)
  BY <1>1 DEF RemoteInv, Outstanding
<1>3. IF Unheard(msg)'
      THEN (queue = "PUNT" => Handed' = Rcpt) /\ (e.delivered => queue = "PUNT")
      ELSE ~e.delivered /\ Handed' = {}
  BY <1>2 DEF Outstanding, Unheard, Handed
<1>4. OnceUnlessLost' /\ copies' \in [1..N -> [Rcpt -> 0..2]]
  BY <1>1 DEF OnceUnlessLost, TypeInv, Unheard
<1> QED  BY <1>1, <1>2, <1>3, <1>4, SentKeeps

\* A refusal of the message as a whole leaves the recipients alone.
LEMMA RefusedIs ==
    ASSUME NEW e, e \in EnvType, Tally(e), NEW c
    PROVE  /\ Refused(e, c) \in EnvType /\ Tally(Refused(e, c))
           /\ Refused(e, c).delivered = e.delivered
           /\ Refused(e, c).status = e.status
<1>1. /\ Refused(e, c) \in EnvType /\ Refused(e, c).delivered = e.delivered
      /\ Refused(e, c).status = e.status
      /\ Refused(e, c).accepted = e.accepted /\ Refused(e, c).failed = e.failed
  BY DEF Refused, EnvType
<1> QED  BY <1>1 DEF Tally, With

\* The conversation goes on.
LEMMA TalkKeeps ==
    ASSUME DeliveryInv, pc \in Talking, pc' \in Talking,
           UNCHANGED <<queue, msg, hq_status, d, copies, lost, cut>>,
           rcpt' \in Rcpt, env' \in EnvType, Tally(env'),
           env'.delivered = env.delivered, env'.flags = {}, pc' # "mail",
           pc' = "rcpt" => \A r \in Rcpt : r >= rcpt' => env'.status[r] = "none",
           pc' \in {"data", "text"} => env'.accepted > 0,
           hq_status = "PUNT_DOWN" =>
             /\ pc' = "rcpt" => \A r \in Rcpt : r < rcpt' => env'.status[r] = "accepted"
             /\ pc' \in {"data", "text"} =>
                    \A r \in Rcpt : env'.status[r] = "accepted"
    PROVE  DeliveryInv'
<1>1. TypeInv /\ RemoteInv /\ OnceUnlessLost /\ msg > 0
  BY DEF DeliveryInv, TypeInv, Talking
<1>2. TypeInv'
  BY <1>1 DEF TypeInv, StatusOK, Talking
<1>3. RemoteInv'
  <2>1. Outstanding(env, Handed) => Outstanding(env, Handed)'
    BY DEF Outstanding, Unheard, Handed
  <2> QED  BY <1>1, <2>1 DEF RemoteInv
<1>4. LocalInv' /\ OnceUnlessLost' /\ WithinContract'
  BY <1>1 DEF LocalInv, OnceUnlessLost, WithinContract, Talking, Unheard
<1> QED  BY <1>2, <1>3, <1>4 DEF DeliveryInv

\* MAIL FROM.
LEMMA MailStep ==
    ASSUME DeliveryInv, SendMail
    PROVE  DeliveryInv'
<1>1. /\ UNCHANGED <<queue, msg, rcpt, copies, lost, cut>> /\ pc = "mail"
      /\ pc \in Talking /\ TypeInv /\ RemoteInv
  BY DEF SendMail, ghosts, DeliveryInv, Talking
<1>2. /\ env \in EnvType /\ Tally(env) /\ env.flags = {} /\ rcpt = 1
      /\ \A r \in Rcpt : env.status[r] = "none"
  BY <1>1 DEF TypeInv, RemoteInv, Rcpt, Talking
<1>3. PICK c \in Class, t \in BOOLEAN :
        LET e   == IF c \in {"2", "lost"} THEN env ELSE Refused(env, c)
            res == Result({"2"}, TRUE, c, t)
        IN  IF res = "OK" /\ e.flags = {}
            THEN pc' = "rcpt" /\ env' = e /\ Going
            ELSE Sent(e, res)
  BY DEF SendMail
<1> DEFINE e == IF c \in {"2", "lost"} THEN env ELSE Refused(env, c)
           res == Result({"2"}, TRUE, c, t)
<1>4. /\ e \in EnvType /\ Tally(e) /\ e.delivered = env.delivered
      /\ e.status = env.status
  BY <1>2, RefusedIs
<1>5. (pc' = "rcpt" /\ env' = e /\ Going /\ e.flags = {}) \/ Sent(e, res)
  BY <1>3
<1> HIDE DEF e, res
<1>6. CASE Sent(e, res)
  <2>1. With(e, "failed") = {}
    BY <1>2, <1>4 DEF With
  <2> QED  BY <1>1, <1>4, <1>6, <2>1, NotTaken
<1>7. CASE pc' = "rcpt" /\ env' = e /\ Going /\ e.flags = {}
  <2>1. /\ UNCHANGED <<hq_status, d>> /\ rcpt' = 1 /\ rcpt' \in Rcpt
        /\ pc' \in Talking /\ pc' = "rcpt"
    BY <1>1, <1>2, <1>7 DEF Going, Talking, TypeInv
  <2>2. /\ \A r \in Rcpt : env'.status[r] = "none"
        /\ \A r \in Rcpt : ~(r < 1)
    BY <1>2, <1>4, <1>7 DEF Rcpt
  <2> QED  BY <1>1, <1>4, <1>7, <2>1, <2>2, TalkKeeps
<1> QED  BY <1>5, <1>6, <1>7

\* RCPT TO.
LEMMA RcptStep ==
    ASSUME DeliveryInv, SendRcpt
    PROVE  DeliveryInv'
<1>1. /\ UNCHANGED <<queue, msg, copies, lost, cut>> /\ pc = "rcpt"
      /\ pc \in Talking /\ TypeInv /\ RemoteInv /\ OnceUnlessLost
  BY DEF SendRcpt, ghosts, DeliveryInv, Talking
<1>2. /\ env \in EnvType /\ Tally(env) /\ env.flags = {} /\ rcpt \in Rcpt
      /\ \A r \in Rcpt : r >= rcpt => env.status[r] = "none"
      /\ hq_status \in {"DOWN", "PUNT_DOWN"}
      /\ queue = "PUNT" <=> hq_status = "PUNT_DOWN"
      /\ hq_status = "PUNT_DOWN" =>
            \A r \in Rcpt : r < rcpt => env.status[r] = "accepted"
      /\ Outstanding(env, Handed)
  BY <1>1 DEF TypeInv, RemoteInv, StatusOK, Talking
<1>3. PICK c \in Class, t \in BOOLEAN :
        LET e   == RcptReply(c)
            res == Result({"2"}, TRUE, c, t)
        IN  IF res # "OK" \/ (hq_status = "PUNT_DOWN" /\ e.status[rcpt] # "accepted")
            THEN Sent(e, res) /\ UNCHANGED rcpt
            ELSE IF rcpt < NRcpt
            THEN rcpt' = rcpt + 1 /\ env' = e /\ UNCHANGED pc /\ Going
            ELSE IF e.accepted = 0
            THEN Sent([e EXCEPT !.delivered = TRUE], res) /\ UNCHANGED rcpt
            ELSE pc' = "data" /\ env' = e /\ UNCHANGED rcpt /\ Going
  BY DEF SendRcpt
<1> DEFINE e == RcptReply(c)
           res == Result({"2"}, TRUE, c, t)
<1>4. /\ e \in EnvType /\ Tally(e) /\ e.delivered = env.delivered /\ e.flags = {}
      /\ \A r \in Rcpt : r # rcpt => e.status[r] = env.status[r]
  <2>1. CASE c = "lost"
    BY <1>2, <2>1 DEF RcptReply
  <2>2. ASSUME NEW s \in {"accepted", "failed", "tempfail"}, e = SetStatus(env, rcpt, s)
        PROVE  /\ e \in EnvType /\ Tally(e) /\ e.delivered = env.delivered
               /\ e.flags = {}
               /\ \A r \in Rcpt : r # rcpt => e.status[r] = env.status[r]
    <3>1. env.status[rcpt] = "none"
      BY <1>2 DEF Rcpt
    <3> DEFINE f == SetStatus(env, rcpt, s)
    <3>2. /\ f \in EnvType /\ Tally(f) /\ f.delivered = env.delivered
          /\ f.flags = {}
          /\ \A r \in Rcpt : r # rcpt => f.status[r] = env.status[r]
      BY <1>2, <3>1, SetStatusCounts
    <3>3. e = f
      BY <2>2
    <3> HIDE DEF e, f
    <3> QED  BY <3>2, <3>3
  <2> QED  BY <2>1, <2>2 DEF RcptReply
<1>5. \/ /\ Sent(e, res) /\ rcpt' = rcpt
      \/ /\ hq_status = "PUNT_DOWN" => e.status[rcpt] = "accepted"
         /\ rcpt < NRcpt /\ rcpt' = rcpt + 1 /\ env' = e /\ pc' = pc /\ Going
      \/ /\ hq_status = "PUNT_DOWN" => e.status[rcpt] = "accepted"
         /\ res = "OK" /\ e.accepted = 0 /\ ~(rcpt < NRcpt)
         /\ Sent([e EXCEPT !.delivered = TRUE], res) /\ rcpt' = rcpt
      \/ /\ hq_status = "PUNT_DOWN" => e.status[rcpt] = "accepted"
         /\ e.accepted # 0 /\ ~(rcpt < NRcpt)
         /\ pc' = "data" /\ env' = e /\ rcpt' = rcpt /\ Going
  BY <1>3
<1> HIDE DEF e, res
<1>6. CASE Sent(e, res) /\ rcpt' = rcpt
  <2>1. queue = "PUNT" => \A r \in With(e, "failed") : r = rcpt
    BY <1>2, <1>4 DEF With, Rcpt
  <2> QED  BY <1>1, <1>4, <1>6, <2>1, NotTaken
<1>7. CASE /\ hq_status = "PUNT_DOWN" => e.status[rcpt] = "accepted"
           /\ rcpt < NRcpt /\ rcpt' = rcpt + 1 /\ env' = e /\ pc' = pc /\ Going
  <2>1. UNCHANGED <<hq_status, d>> /\ rcpt' \in Rcpt /\ pc' \in Talking /\ pc' = "rcpt"
    BY <1>1, <1>2, <1>7, DeliveryAssumption DEF Going, Rcpt
  <2>2. \A r \in Rcpt : r >= rcpt' => env'.status[r] = "none"
    BY <1>2, <1>4, <1>7 DEF Rcpt
  <2>3. hq_status = "PUNT_DOWN" =>
            \A r \in Rcpt : r < rcpt' => env'.status[r] = "accepted"
    BY <1>2, <1>4, <1>7 DEF Rcpt
  <2> QED  BY <1>1, <1>4, <1>7, <2>1, <2>2, <2>3, TalkKeeps
<1>8. CASE /\ hq_status = "PUNT_DOWN" => e.status[rcpt] = "accepted"
           /\ res = "OK" /\ e.accepted = 0 /\ ~(rcpt < NRcpt)
           /\ Sent([e EXCEPT !.delivered = TRUE], res) /\ rcpt' = rcpt
  <2> DEFINE f == [e EXCEPT !.delivered = TRUE]
  <2>1. /\ f \in EnvType /\ f.status = e.status /\ f.accepted = e.accepted
        /\ f.failed = e.failed /\ f.flags = {} /\ f.delivered
    BY <1>4 DEF EnvType
  <2>2. Tally(f) /\ With(f, "accepted") = {}
    <3>1. With(e, "accepted") = {}
      BY <1>4, <1>8, TallyCounts
    <3> QED  BY <1>4, <2>1, <3>1 DEF Tally, With
  <2>3. hq_status = "DOWN" /\ queue # "PUNT"
    BY <1>2, <1>8, <2>1, <2>2 DEF With
  <2>4. Unheard(msg)' \/ Handed' = {}
    BY <1>1, <1>2 DEF Outstanding, Unheard, Handed
  <2>5. OnceUnlessLost' /\ copies' \in [1..N -> [Rcpt -> 0..2]]
    BY <1>1 DEF OnceUnlessLost, TypeInv, Unheard
  <2> HIDE DEF f
  <2>6. Sent(f, res)
    BY <1>8 DEF f
  <2> QED  BY <1>1, <1>8, <2>1, <2>2, <2>3, <2>4, <2>5, <2>6, SentKeeps
<1>9. CASE /\ hq_status = "PUNT_DOWN" => e.status[rcpt] = "accepted"
           /\ e.accepted # 0 /\ ~(rcpt < NRcpt)
           /\ pc' = "data" /\ env' = e /\ rcpt' = rcpt /\ Going
  <2>1. UNCHANGED <<hq_status, d>> /\ rcpt' \in Rcpt /\ pc' \in Talking /\ pc' = "data"
    BY <1>1, <1>2, <1>9 DEF Going, Talking
  <2>2. env'.accepted > 0
    BY <1>4, <1>9 DEF EnvType
  <2>3. hq_status = "PUNT_DOWN" => \A r \in Rcpt : env'.status[r] = "accepted"
    BY <1>2, <1>4, <1>9, DeliveryAssumption DEF Rcpt
  <2> QED  BY <1>1, <1>4, <1>9, <2>1, <2>2, <2>3, TalkKeeps
<1> QED  BY <1>5, <1>6, <1>7, <1>8, <1>9

\* DATA.
LEMMA DataStep ==
    ASSUME DeliveryInv, SendData
    PROVE  DeliveryInv'
<1>1. /\ UNCHANGED <<queue, msg, rcpt, copies, lost, cut>> /\ pc = "data"
      /\ pc \in Talking /\ TypeInv /\ RemoteInv
  BY DEF SendData, ghosts, DeliveryInv, Talking
<1>2. /\ env \in EnvType /\ Tally(env) /\ env.accepted > 0 /\ rcpt \in Rcpt
      /\ queue = "PUNT" <=> hq_status = "PUNT_DOWN"
      /\ hq_status = "PUNT_DOWN" => \A r \in Rcpt : env.status[r] = "accepted"
  BY <1>1 DEF TypeInv, StatusOK, RemoteInv, Talking
<1>3. PICK c \in Class, t \in BOOLEAN :
        LET e   == IF c \in {"3", "lost"} THEN env ELSE Refused(env, c)
            res == Result({"3"}, TRUE, c, t)
        IN  IF res = "OK" /\ e.flags = {}
            THEN pc' = "text" /\ env' = e /\ Going
            ELSE Sent(e, res)
  BY DEF SendData
<1> DEFINE e == IF c \in {"3", "lost"} THEN env ELSE Refused(env, c)
           res == Result({"3"}, TRUE, c, t)
<1>4. /\ e \in EnvType /\ Tally(e) /\ e.delivered = env.delivered
      /\ e.status = env.status
  BY <1>2, RefusedIs
<1>5. (pc' = "text" /\ env' = e /\ Going /\ e.flags = {}) \/ Sent(e, res)
  BY <1>3
<1> HIDE DEF e, res
<1>6. CASE Sent(e, res)
  <2>1. queue = "PUNT" => With(e, "failed") = {}
    BY <1>2, <1>4 DEF With
  <2> QED  BY <1>1, <1>4, <1>6, <2>1, NotTaken
<1>7. CASE pc' = "text" /\ env' = e /\ Going /\ e.flags = {}
  <2>1. UNCHANGED <<hq_status, d>> /\ rcpt' \in Rcpt /\ pc' \in Talking
    BY <1>1, <1>2, <1>7 DEF Going, Talking
  <2>2. e.accepted = env.accepted
    BY <1>2, <1>4 DEF Tally, With
  <2> QED  BY <1>1, <1>2, <1>4, <1>7, <2>1, <2>2, TalkKeeps
<1> QED  BY <1>5, <1>6, <1>7

\* What Bump does.
LEMMA BumpIs ==
    ASSUME TypeInv, NEW R, Bump(msg, R), msg > 0
    PROVE  /\ copies' \in [1..N -> [Rcpt -> 0..2]]
           /\ \A m \in 1..N : m # msg => copies'[m] = copies[m]
           /\ \A r \in Rcpt : copies'[msg][r] =
                IF r \in R /\ copies[msg][r] < 2 THEN copies[msg][r] + 1
                ELSE copies[msg][r]
<1> DEFINE c == copies[msg]
           new == [r \in Rcpt |-> IF r \in R /\ c[r] < 2 THEN c[r] + 1 ELSE c[r]]
<1>1. msg \in 1..N /\ c \in [Rcpt -> 0..2]
  BY DeliveryAssumption DEF TypeInv
<1>2. copies' = [copies EXCEPT ![msg] = new]
  BY DEF Bump
<1>3. new \in [Rcpt -> 0..2]
  BY <1>1
<1>4. copies' \in [1..N -> [Rcpt -> 0..2]] /\ copies'[msg] = new
      /\ \A m \in 1..N : m # msg => copies'[m] = copies[m]
  <2> HIDE DEF new
  <2> QED  BY <1>1, <1>2, <1>3 DEF TypeInv
<1> QED  BY <1>4

\* The text is sent, and taken or not.
LEMMA TextSteps ==
    ASSUME DeliveryInv, TextFails \/ SendEof
    PROVE  DeliveryInv'
<1>1. /\ UNCHANGED <<queue, msg, rcpt>> /\ pc = "text" /\ pc \in Talking
      /\ TypeInv /\ RemoteInv /\ OnceUnlessLost /\ msg \in 1..N /\ msg > 0
  <2>1. UNCHANGED <<queue, msg, rcpt>> /\ pc = "text" /\ pc \in Talking
    BY DEF TextFails, SendEof, Talking
  <2>2. TypeInv /\ RemoteInv /\ OnceUnlessLost
    BY DEF DeliveryInv
  <2>3. msg \in 0..N /\ msg > 0
    BY <2>1, <2>2 DEF TypeInv
  <2> QED  BY <2>1, <2>2, <2>3, DeliveryAssumption
<1>2. /\ env \in EnvType /\ Tally(env) /\ env.accepted > 0 /\ env.flags = {}
      /\ hq_status \in {"DOWN", "PUNT_DOWN"}
      /\ queue = "PUNT" <=> hq_status = "PUNT_DOWN"
      /\ hq_status = "PUNT_DOWN" => \A r \in Rcpt : env.status[r] = "accepted"
      /\ Outstanding(env, Handed)
  <2>1. env \in EnvType /\ (queue = "PUNT" <=> hq_status = "PUNT_DOWN")
    BY <1>1 DEF TypeInv, StatusOK, RemoteInv
  <2>2. /\ Tally(env) /\ env.accepted > 0 /\ env.flags = {}
        /\ hq_status \in {"DOWN", "PUNT_DOWN"}
        /\ hq_status = "PUNT_DOWN" => \A r \in Rcpt : env.status[r] = "accepted"
        /\ Outstanding(env, Handed)
    BY <1>1 DEF RemoteInv
  <2> QED  BY <2>1, <2>2
<1>3. queue = "PUNT" => With(env, "failed") = {} /\ With(env, "accepted") = Rcpt
  BY <1>2 DEF With
<1>4. CASE TextFails
  <2>1. UNCHANGED <<copies, lost, cut>> /\ Sent(env, "BAD_CONNECTION")
    BY <1>4 DEF TextFails, ghosts
  <2> QED  BY <1>1, <1>2, <1>3, <2>1, NotTaken
<1>5. CASE SendEof
  <2>1. PICK c \in Class, t \in BOOLEAN, took \in BOOLEAN :
          /\ c # "lost" => took = (c = "2")
          /\ Bump(msg, {r \in Rcpt : took /\ env.status[r] = "accepted"})
          /\ lost' = IF took /\ c = "lost" THEN lost \union {msg} ELSE lost
          /\ cut' = IF took /\ t THEN cut \union {msg} ELSE cut
          /\ LET e == CASE c = "lost" -> env
                        [] c = "2" -> [env EXCEPT !.delivered = TRUE]
                        [] OTHER -> Refused(env, c)
             IN  Sent(e, Result({"2"}, TRUE, c, t))
    BY <1>5 DEF SendEof
  <2> DEFINE e == CASE c = "lost" -> env
                    [] c = "2" -> [env EXCEPT !.delivered = TRUE]
                    [] OTHER -> Refused(env, c)
             res == Result({"2"}, TRUE, c, t)
  <2>2. /\ e \in EnvType /\ Tally(e) /\ e.status = env.status
        /\ IF c = "2" THEN e.delivered /\ e.flags = {}
           ELSE e.delivered = env.delivered
    <3>1. CASE c = "2"
      <4>1. e = [env EXCEPT !.delivered = TRUE]
        BY <3>1
      <4>2. /\ e \in EnvType /\ e.status = env.status /\ e.delivered /\ e.flags = {}
            /\ e.accepted = env.accepted /\ e.failed = env.failed
        BY <1>2, <4>1 DEF EnvType
      <4> HIDE DEF e
      <4> QED  BY <1>2, <3>1, <4>2 DEF Tally, With
    <3>2. CASE c # "2"
      BY <1>2, <3>2, RefusedIs
    <3> QED  BY <3>1, <3>2
  <2>3. Sent(e, res)
    BY <2>1
  <2>4. \A s : With(e, s) = With(env, s)
    BY <2>2 DEF With
  <2>5. e.accepted = env.accepted
    BY <1>2, <2>2, <2>4 DEF Tally
  <2>6. c = "2" => took /\ res = IF t THEN "BAD_CONNECTION" ELSE "OK"
    BY <2>1 DEF Result
  <2> DEFINE R == {r \in Rcpt : took /\ env.status[r] = "accepted"}
  <2>7. R = IF took THEN With(env, "accepted") ELSE {}
    BY DEF With
  <2>8. Bump(msg, R) /\ (c # "lost" => took = (c = "2"))
        /\ lost' = (IF took /\ c = "lost" THEN lost \union {msg} ELSE lost)
        /\ cut' = (IF took /\ t THEN cut \union {msg} ELSE cut)
    BY <2>1
  <2> HIDE DEF e, res, R
  <2>9. /\ copies' \in [1..N -> [Rcpt -> 0..2]]
        /\ \A m \in 1..N : m # msg => copies'[m] = copies[m]
        /\ \A r \in Rcpt : copies'[msg][r] =
                IF r \in R /\ copies[msg][r] < 2 THEN copies[msg][r] + 1
                ELSE copies[msg][r]
    BY <1>1, <2>8, BumpIs
  <2>10. \A m : Unheard(m) => Unheard(m)'
    BY <1>1, <2>8 DEF Unheard
  <2>11. ~Unheard(msg)' => ~env.delivered /\ Handed = {}
    BY <1>1, <1>2, <2>10 DEF Outstanding, Unheard
  <2>12. OnceUnlessLost'
    <3> SUFFICES ASSUME NEW m \in 1..N, NEW r \in Rcpt, copies'[m][r] > 1
                 PROVE  Unheard(m)'
      BY DEF OnceUnlessLost, Unheard
    <3>1. CASE m = msg
      <4>1. Handed = {} => copies[msg][r] = 0
        BY <1>1, HandedIs
      <4> QED  BY <1>1, <2>9, <2>11, <3>1, <4>1 DEF Unheard
    <3>2. CASE m # msg
      <4>1. Unheard(m)
        BY <1>1, <2>9, <3>2 DEF OnceUnlessLost, Unheard
      <4> QED  BY <2>10, <4>1
    <3> QED  BY <3>1, <3>2
  <2>13. Handed' = Handed \union R
    <3>1. copies[msg] \in [Rcpt -> 0..2]
      BY <1>1, HandedIs
    <3>2. R \subseteq Rcpt
      BY DEF R
    <3>3. \A r \in Rcpt : copies'[msg][r] > 0 <=> copies[msg][r] > 0 \/ r \in R
      BY <2>9, <3>1
    <3> QED  BY <1>1, <3>2, <3>3 DEF Handed
  <2>14. \/ IF Unheard(msg)'
            THEN (queue = "PUNT" => Handed' = Rcpt) /\ (e.delivered => queue = "PUNT")
            ELSE ~e.delivered /\ Handed' = {}
         \/ /\ e.delivered /\ e.flags = {} /\ With(e, "accepted") \subseteq Handed'
            /\ Unheard(msg)' \/ Handed' = With(e, "accepted")
            /\ queue = "PUNT" => With(e, "accepted") = Rcpt
            /\ res = "OK" \/ (hq_status = "DOWN" /\ e.accepted > 0)
    <3>0. Handed \subseteq Rcpt /\ R \subseteq Rcpt
      BY <2>7 DEF Handed, With
    <3>1. CASE c = "2" /\ ~(t /\ queue = "PUNT")
      BY <1>2, <1>3, <2>2, <2>4, <2>5, <2>6, <2>7, <2>11, <2>13, <3>1
    <3>2. CASE c = "2" /\ t /\ queue = "PUNT"
      <4>1. Unheard(msg)'
        BY <1>1, <2>6, <2>8, <3>2 DEF Unheard
      <4>2. Handed' = Rcpt
        BY <1>3, <2>6, <2>7, <2>13, <3>0, <3>2
      <4> QED  BY <3>2, <4>1, <4>2
    <3>3. CASE c # "2"
      <4>1. took => Unheard(msg)'
        BY <1>1, <2>8, <3>3 DEF Unheard
      <4>2. ~took => (Unheard(msg)' <=> Unheard(msg))
        BY <1>1, <2>8 DEF Unheard
      <4>3. e.delivered = env.delivered
        BY <2>2, <3>3
      <4>4. CASE took
        <5>1. queue = "PUNT" => Handed' = Rcpt
          BY <1>3, <2>7, <2>13, <3>0, <4>4
        <5>2. e.delivered => queue = "PUNT"
          BY <1>2, <4>3 DEF Outstanding
        <5> QED  BY <4>1, <4>4, <5>1, <5>2
      <4>5. CASE ~took
        <5>1. Handed' = Handed
          BY <2>7, <2>13, <4>5
        <5> QED  BY <1>2, <4>2, <4>3, <4>5, <5>1 DEF Outstanding
      <4> QED  BY <4>4, <4>5
    <3> QED  BY <3>1, <3>2, <3>3
  <2>16. lost' \union cut' \subseteq lost \union cut \union {msg}
    BY <2>8
  <2>15. queue = "PUNT" => \A r, s \in With(e, "failed") : r = s
    BY <1>3, <2>4
  <2> QED
    BY <1>1, <1>2, <2>2, <2>3, <2>9, <2>12, <2>14, <2>15, <2>16, SentKeeps
<1> QED  BY <1>4, <1>5

---------------------------------------------------------------------------
(* _q_deliver and deliver_local.                                           *)

\* The next message starts, or is left where it is by the status of the host.
LEMMA StartStep ==
    ASSUME DeliveryInv, StartMessage
    PROVE  DeliveryInv'
<1>1. /\ UNCHANGED <<queue, d, copies, lost, cut>> /\ pc = "next" /\ msg < N
      /\ msg' = msg + 1 /\ rcpt' = 1 /\ TypeInv /\ OnceUnlessLost
      /\ hq_status \in {"MX", "PUNT", "LOCAL", "SUPRESSED", "DOWN", "BOUNCE",
                        "BITBUCKET"}
  BY DEF StartMessage, ghosts, DeliveryInv
<1>2. /\ msg' \in 1..N /\ msg' \in 0..N /\ msg' > 0 /\ rcpt' \in Rcpt
      /\ \A r \in Rcpt : copies'[msg'][r] = 0
      /\ \A m \in 1..N : m > msg' =>
            m \notin lost' \union cut' /\ \A r \in Rcpt : copies'[m][r] = 0
      /\ ~Unheard(msg)'
  BY <1>1, DeliveryAssumption DEF TypeInv, Rcpt, Unheard
<1>3. ASSUME env' \in EnvType, StatusOK', pc' \in {"rset", "lookup", "local", "returned"}
      PROVE  TypeInv'
  BY <1>1, <1>2, <1>3 DEF TypeInv, Walking
<1>4. OnceUnlessLost' /\ Handed' = {}
  <2>1. OnceUnlessLost'
    BY <1>1 DEF OnceUnlessLost, Unheard
  <2>2. \A r \in Rcpt : ~(copies'[msg'][r] > 0)
    BY <1>2
  <2> QED  BY <2>1, <2>2 DEF Handed
<1>5. CASE /\ hq_status \in {"MX", "PUNT"} /\ pc' \in {"rset", "lookup"}
           /\ hq_status' = IF hq_status = "MX" THEN "DOWN" ELSE "PUNT_DOWN"
           /\ env' = NewEnv
  <2>1. StatusOK'
    BY <1>1, <1>5 DEF TypeInv, StatusOK
  <2>2. RemoteInv' /\ LocalInv' /\ WithinContract'
    BY <1>2, <1>4, <1>5, NewEnvType
       DEF RemoteInv, LocalInv, WithinContract, Walking, Talking, Outstanding
  <2> QED  BY <1>3, <1>4, <1>5, <2>1, <2>2, NewEnvType DEF DeliveryInv
<1>6. CASE hq_status = "LOCAL" /\ pc' = "local" /\ env' = NewEnv /\ hq_status' = hq_status
  <2>1. StatusOK'
    BY <1>1, <1>6 DEF TypeInv, StatusOK
  <2>2. RemoteInv' /\ WithinContract'
    BY <1>6 DEF RemoteInv, WithinContract, Walking, Talking
  <2>3. LocalInv'
    <3>1. \A r \in Rcpt : ~(r < 1)
      BY DEF Rcpt
    <3> QED  BY <1>1, <1>2, <1>6, <3>1, NewEnvType DEF LocalInv
  <2> QED  BY <1>3, <1>4, <1>6, <2>1, <2>2, <2>3, NewEnvType DEF DeliveryInv
<1>7. CASE /\ pc' = "returned" /\ hq_status' = hq_status
           /\ env' = CASE hq_status = "BOUNCE" -> [NewEnv EXCEPT !.flags = {"BOUNCE"}]
                       [] hq_status = "BITBUCKET" ->
                             [NewEnv EXCEPT !.delivered = TRUE, !.accepted = NRcpt]
                       [] OTHER -> NewEnv
  <2>1. StatusOK' /\ StatusOK
    BY <1>1, <1>7 DEF TypeInv, StatusOK
  <2>2. RemoteInv' /\ LocalInv'
    BY <1>7 DEF RemoteInv, LocalInv, Walking, Talking
  <2>3. CASE hq_status = "BITBUCKET"
    <3>1. env' = [NewEnv EXCEPT !.delivered = TRUE, !.accepted = NRcpt]
      BY <1>7, <2>3
    <3>2. /\ env' \in EnvType /\ env'.delivered /\ env'.accepted = NRcpt
          /\ env'.flags = {} /\ env'.status = NewEnv.status /\ env'.failed = 0
      BY <3>1, NewEnvType, DeliveryAssumption DEF EnvType, NewEnv
    <3>3. queue = "BITBUCKET"
      BY <2>1, <2>3 DEF StatusOK
    <3> DEFINE o == [delivered |-> TRUE, bounce |-> FALSE, accepted |-> Rcpt,
                     counted |-> {}, failed |-> {}, marked |-> Rcpt]
    <3>4. o \in HostOutcome(Rcpt)
      <4>1. o \in [delivered : BOOLEAN, bounce : BOOLEAN, accepted : SUBSET Rcpt,
                   counted : SUBSET Rcpt, failed : SUBSET Rcpt,
                   marked : SUBSET Rcpt]
        OBVIOUS
      <4> QED  BY <4>1 DEF HostOutcome, Outcome
    <3>5. With(env', "failed") = {}
      BY <3>2, NewEnvType DEF With
    <3>6. Cardinality({}) = 0 /\ Cardinality(Rcpt) = NRcpt
      BY FS_EmptySet, RcptFinite
    <3>7. env'.delivered = TRUE
      BY <3>2 DEF EnvType
    <3>8. /\ o.delivered = env'.delivered /\ o.bounce = ("BOUNCE" \in env'.flags)
          /\ o.failed = With(env', "failed") /\ Cardinality(o.counted) = env'.failed
          /\ Cardinality(o.accepted) = env'.accepted /\ o.accepted = Rcpt
      <4>1. ("BOUNCE" \in env'.flags) = FALSE
        BY <3>2
      <4> QED  BY <3>2, <3>5, <3>6, <3>7, <4>1
    <3> HIDE DEF o
    <3>9. Report(queue, env, Handed, ~Unheard(msg))'
      BY <1>1, <3>3, <3>4, <3>8 DEF Report
    <3>10. WithinContract'
      <4>1. Contract'
        BY <1>2, <1>4, <3>9 DEF Contract
      <4> QED  BY <4>1, ContractIs, PTL
    <3> QED  BY <1>3, <1>4, <1>7, <2>1, <2>2, <3>2, <3>10 DEF DeliveryInv
  <2>4. CASE hq_status # "BITBUCKET"
    <3>1. /\ env' \in EnvType /\ ~env'.delivered /\ env'.status = NewEnv.status
          /\ env'.accepted = 0 /\ env'.failed = 0
          /\ hq_status # "BOUNCE" => env'.flags = {}
      BY <1>7, <2>4, NewEnvType DEF EnvType, NewEnv
    <3>2. Tally(env') /\ With(env', "failed") = {}
      BY <3>1, NewEnvType DEF Tally, With, NewEnv
    <3>3. Report(queue', env', Handed', ~Unheard(msg)')
      <4>1. CASE queue # "PUNT"
        BY <1>1, <1>2, <1>4, <3>1, <3>2, <4>1, HostReports
      <4>2. CASE queue = "PUNT"
        <5>1. env'.flags = {} /\ queue' = "PUNT"
          BY <1>1, <2>1, <3>1, <4>2 DEF StatusOK
        <5>2. Cardinality({}) = 0 /\ With(env', "accepted") = {}
          BY <3>1, NewEnvType, FS_EmptySet DEF With
        <5> QED  BY <1>2, <1>4, <3>1, <3>2, <5>1, <5>2, PuntReports
      <4> QED  BY <4>1, <4>2
    <3>4. Report(queue, env, Handed, ~Unheard(msg))'
      BY <3>3 DEF Report
    <3>5. WithinContract'
      <4>1. Contract'
        BY <1>2, <1>4, <3>4 DEF Contract
      <4> QED  BY <4>1, ContractIs, PTL
    <3> QED  BY <1>3, <1>4, <1>7, <2>1, <2>2, <3>1, <3>5 DEF DeliveryInv
  <2> QED  BY <2>3, <2>4
<1> QED  BY <1>5, <1>6, <1>7 DEF StartMessage

\* It ends.
LEMMA EndStep ==
    ASSUME DeliveryInv, EndMessage
    PROVE  DeliveryInv'
<1>1. /\ UNCHANGED <<queue, hq_status, msg, rcpt, d, copies, lost, cut>>
      /\ pc' \in {"next", "done"} /\ env' = NewEnv /\ TypeInv /\ OnceUnlessLost
  BY DEF EndMessage, ghosts, DeliveryInv
<1>2. TypeInv'
  BY <1>1, NewEnvType DEF TypeInv, StatusOK
<1>3. RemoteInv' /\ LocalInv' /\ WithinContract' /\ OnceUnlessLost'
  BY <1>1
     DEF RemoteInv, LocalInv, WithinContract, OnceUnlessLost, Unheard, Walking,
         Talking
<1> QED  BY <1>2, <1>3 DEF DeliveryInv

\* A recipient is handed over to the local program.
LEMMA LocalStep ==
    ASSUME DeliveryInv, deliver_local
    PROVE  DeliveryInv'
<1>1. /\ UNCHANGED <<queue, hq_status, msg, d, cut>> /\ pc = "local" /\ TypeInv
      /\ LocalInv /\ OnceUnlessLost /\ msg > 0 /\ msg \in 1..N /\ rcpt \in Rcpt
  BY DeliveryAssumption DEF deliver_local, DeliveryInv, TypeInv
<1>2. /\ hq_status = "LOCAL" /\ queue = "LOCAL" /\ env \in EnvType /\ Tally(env)
      /\ env.flags = {} /\ env.status[rcpt] = "none"
      /\ \A r \in Rcpt : r >= rcpt => env.status[r] = "none" /\ copies[msg][r] = 0
      /\ \A r \in Rcpt : r < rcpt =>
            /\ env.status[r] = "accepted" => copies[msg][r] > 0
            /\ msg \in lost \/ (copies[msg][r] > 0 => env.status[r] = "accepted")
  BY <1>1 DEF TypeInv, StatusOK, LocalInv, Rcpt
<1>3. PICK b \in deliver_binary :
        /\ Bump(msg, IF b[1] THEN {rcpt} ELSE {})
        /\ lost' = IF b[1] /\ b[2] # "accepted" THEN lost \union {msg} ELSE lost
        /\ env' = [SetStatus(env, rcpt, b[2]) EXCEPT !.delivered = rcpt = NRcpt]
  BY DEF deliver_local
<1>4. PICK got \in BOOLEAN, s \in {"accepted", "failed", "tempfail"} :
        /\ Bump(msg, IF got THEN {rcpt} ELSE {})
        /\ lost' = IF got /\ s # "accepted" THEN lost \union {msg} ELSE lost
        /\ env' = [SetStatus(env, rcpt, s) EXCEPT !.delivered = rcpt = NRcpt]
        /\ s = "accepted" => got
  <2>1. ASSUME NEW got \in BOOLEAN, NEW s \in {"accepted", "failed", "tempfail"},
               b[1] = got, b[2] = s, s = "accepted" => got
        PROVE  /\ Bump(msg, IF got THEN {rcpt} ELSE {})
               /\ lost' = IF got /\ s # "accepted" THEN lost \union {msg} ELSE lost
               /\ env' = [SetStatus(env, rcpt, s) EXCEPT !.delivered = rcpt = NRcpt]
               /\ s = "accepted" => got
    BY <1>3, <2>1
  <2>2. CASE b = <<TRUE, "accepted">>
    <3>1. b[1] = TRUE /\ b[2] = "accepted"
      BY <2>2
    <3> QED  BY <2>1, <3>1
  <2>3. CASE b = <<TRUE, "tempfail">>
    <3>1. b[1] = TRUE /\ b[2] = "tempfail"
      BY <2>3
    <3> QED  BY <2>1, <3>1
  <2>4. CASE b = <<FALSE, "tempfail">>
    <3>1. b[1] = FALSE /\ b[2] = "tempfail"
      BY <2>4
    <3> QED  BY <2>1, <3>1
  <2>5. CASE b = <<FALSE, "failed">>
    <3>1. b[1] = FALSE /\ b[2] = "failed"
      BY <2>5
    <3> QED  BY <2>1, <3>1
  <2> QED  BY <1>3, <2>2, <2>3, <2>4, <2>5 DEF deliver_binary
<1> DEFINE f == SetStatus(env, rcpt, s)
<1>5. /\ f \in EnvType /\ Tally(f) /\ f.status[rcpt] = s /\ f.flags = {}
      /\ \A r \in Rcpt : r # rcpt => f.status[r] = env.status[r]
  BY <1>1, <1>2, SetStatusCounts
<1>6. env' = [f EXCEPT !.delivered = rcpt = NRcpt]
  BY <1>4
<1> HIDE DEF f
<1>7. /\ env' \in EnvType /\ env'.status = f.status /\ env'.flags = {}
      /\ env'.accepted = f.accepted /\ env'.failed = f.failed
      /\ env'.delivered = (rcpt = NRcpt)
  <2>1. (rcpt = NRcpt) \in BOOLEAN
    OBVIOUS
  <2> QED  BY <1>5, <1>6, <2>1 DEF EnvType
<1>8. Tally(env')
  BY <1>5, <1>7 DEF Tally, With
<1>9. env'.status[rcpt] = s /\ \A r \in Rcpt : r # rcpt => env'.status[r] = env.status[r]
  BY <1>5, <1>7
<1> DEFINE R == IF got THEN {rcpt} ELSE {}
<1>10. Bump(msg, R)
  BY <1>4
<1> HIDE DEF R
<1>11. /\ copies' \in [1..N -> [Rcpt -> 0..2]]
       /\ \A m \in 1..N : m # msg => copies'[m] = copies[m]
       /\ \A r \in Rcpt : copies'[msg][r] =
               IF r \in R /\ copies[msg][r] < 2 THEN copies[msg][r] + 1
               ELSE copies[msg][r]
  BY <1>1, <1>10, BumpIs
<1>12. /\ copies'[msg][rcpt] = IF got THEN 1 ELSE 0
       /\ \A r \in Rcpt : r # rcpt => copies'[msg][r] = copies[msg][r]
  BY <1>1, <1>2, <1>11 DEF R, Rcpt
<1>13. OnceUnlessLost'
  <2>1. \A m : m \in lost => m \in lost'
    BY <1>4
  <2> SUFFICES ASSUME NEW m \in 1..N, NEW r \in Rcpt, copies'[m][r] > 1
               PROVE  m \in lost'
    BY DEF OnceUnlessLost, Unheard
  <2>2. copies[m][r] > 1
    BY <1>1, <1>11, <1>12
  <2> QED  BY <1>1, <1>2, <2>1, <2>2 DEF OnceUnlessLost, Unheard
<1>14. \A r \in Rcpt : r <= rcpt =>
            /\ env'.status[r] = "accepted" => copies'[msg][r] > 0
            /\ msg \in lost' \/ (copies'[msg][r] > 0 => env'.status[r] = "accepted")
  BY <1>1, <1>2, <1>4, <1>9, <1>12 DEF Rcpt
<1>15. ASSUME rcpt' \in Rcpt, pc' \in {"local", "returned"} PROVE TypeInv'
  <2>1. \A m \in 1..N : m > msg =>
            m \notin lost' \union cut' /\ \A r \in Rcpt : copies'[m][r] = 0
    BY <1>1, <1>4, <1>11 DEF TypeInv
  <2> QED  BY <1>1, <1>7, <1>11, <1>15, <2>1 DEF TypeInv, StatusOK
<1>16. RemoteInv'
  BY <1>1 DEF RemoteInv, deliver_local, Walking, Talking
<1>17. CASE rcpt < NRcpt
  <2>1. rcpt' = rcpt + 1 /\ pc' = "local" /\ rcpt' \in Rcpt
    BY <1>1, <1>17, DeliveryAssumption DEF deliver_local, Rcpt
  <2>2. \A r \in Rcpt : r >= rcpt' => env'.status[r] = "none" /\ copies'[msg][r] = 0
    BY <1>1, <1>2, <1>9, <1>12, <2>1 DEF Rcpt
  <2>3. \A r \in Rcpt : r < rcpt' =>
            /\ env'.status[r] = "accepted" => copies'[msg][r] > 0
            /\ msg \in lost' \/ (copies'[msg][r] > 0 => env'.status[r] = "accepted")
    BY <1>1, <1>14, <2>1 DEF Rcpt
  <2>4. LocalInv' /\ WithinContract'
    BY <1>1, <1>2, <1>7, <1>8, <2>1, <2>2, <2>3 DEF LocalInv, WithinContract
  <2> QED  BY <1>13, <1>15, <1>16, <2>1, <2>4 DEF DeliveryInv
<1>18. CASE ~(rcpt < NRcpt)
  <2>1. rcpt' = rcpt /\ pc' = "returned" /\ rcpt = NRcpt
    BY <1>1, <1>18, DeliveryAssumption DEF deliver_local, Rcpt
  <2>2. WithinContract'
    <3>1. /\ env'.delivered /\ msg' = msg /\ queue' = "LOCAL" /\ hq_status' = "LOCAL"
          /\ Unheard(msg)' <=> msg \in lost'
      BY <1>1, <1>2, <1>7, <2>1 DEF Unheard
    <3>2. \A r \in Rcpt : r <= rcpt
      BY <2>1, DeliveryAssumption DEF Rcpt
    <3>3. /\ With(env', "accepted") \subseteq Handed'
          /\ Unheard(msg)' \/ Handed' = With(env', "accepted")
      BY <1>14, <3>1, <3>2 DEF Handed, With
    <3>4. Report(queue', env', Handed', ~Unheard(msg)')
      BY <1>7, <1>8, <3>1, <3>3, HostReports
    <3>5. Report(queue, env, Handed, ~Unheard(msg))'
      BY <3>4 DEF Report
    <3>6. Contract'
      BY <3>1, <3>5 DEF Contract
    <3> QED  BY <3>6, ContractIs, PTL
  <2>3. LocalInv'
    BY <2>1 DEF LocalInv
  <2> QED  BY <1>1, <1>13, <1>15, <1>16, <2>1, <2>2, <2>3 DEF DeliveryInv
<1> QED  BY <1>17, <1>18

---------------------------------------------------------------------------

\* DeliveryInv is inductive.
LEMMA DeliveryNext == DeliveryInv /\ [Next]_vars => DeliveryInv'
<1> SUFFICES ASSUME DeliveryInv, [Next]_vars PROVE DeliveryInv'
  OBVIOUS
<1>1. CASE deliver_remote
  BY <1>1, WalkSteps, GreetSteps, SendStep, MailStep, RcptStep, DataStep,
     TextSteps
     DEF deliver_remote
<1>2. CASE UNCHANGED vars
  <2>1. UNCHANGED <<queue, hq_status, pc, msg, rcpt, d, env, copies, lost, cut>>
    BY <1>2 DEF vars, ghosts
  <2>2. TypeInv' /\ RemoteInv' /\ LocalInv'
    BY <2>1
       DEF DeliveryInv, TypeInv, StatusOK, RemoteInv, LocalInv, Tally, With,
           Unheard, Outstanding, Handed
  <2>3. WithinContract' /\ OnceUnlessLost'
    BY <2>1 DEF DeliveryInv, WithinContract, OnceUnlessLost, Handed, Unheard
  <2> QED  BY <2>2, <2>3 DEF DeliveryInv
<1> QED  BY <1>1, <1>2, StartStep, EndStep, LocalStep DEF Next

\* It holds before the first message.
LEMMA DeliveryInit == Init => DeliveryInv
<1> SUFFICES ASSUME Init PROVE DeliveryInv
  OBVIOUS
<1>1. 1 \in Rcpt /\ 0 \in 0..N
  BY DeliveryAssumption DEF Rcpt
<1>2. DeliverIs(d)
  BY DEF Init, DeliverIs, NewDeliver
<1>3. copies \in [1..N -> [Rcpt -> 0..2]]
      /\ \A m \in 1..N : \A r \in Rcpt : copies[m][r] = 0
  BY DEF Init
<1>4. TypeInv
  BY <1>1, <1>2, <1>3, NewEnvType DEF Init, TypeInv, StatusOK
<1> QED
  BY <1>3, <1>4
     DEF Init, DeliveryInv, RemoteInv, LocalInv, WithinContract,
         OnceUnlessLost,
         Walking, Talking

\* The inductive invariant holds throughout: while deliver_remote is at a message
\* nobody has taken it, and the counters are the numbers of answers.
THEOREM DeliveryInvariant == Spec => []DeliveryInv
BY DeliveryInit, DeliveryNext, PTL DEF Spec

\* For any number of messages and recipients and any answers of the resolver and
\* of the hosts: a message that a host has taken is not offered to another,
\* unless the host's answer was lost, or a punt host's was cut short
\* (deliver_remote, smtp_cleanup, the connection kept for the next message).
THEOREM NotOfferedTwice == Spec => []OnceUnlessLost
<1>1. DeliveryInv => OnceUnlessLost
  BY DEF DeliveryInv
<1> QED  BY <1>1, DeliveryInvariant, PTL

\* Likewise, what deliver_local and deliver_remote report is an outcome that
\* _q_deliver expects, and names the recipients that were handed the message, or
\* fewer where an answer was lost or cut short.
THEOREM ReportsWhatHappened == Spec => []WithinContract
<1>1. DeliveryInv => WithinContract
  BY DEF DeliveryInv
<1> QED  BY <1>1, DeliveryInvariant, PTL

---------------------------------------------------------------------------
(* The walk: its invariant.  x is the struct deliver, p the place, h the status of
   the host and T the addresses tried: d, pc, hq_status and tried before a step
   or after it.                                                            *)

\* The addresses an entry of the answer leads to.
Yield(e) ==
    CASE e.type = "A" ->
            {e.addrs[1]} \ (IF queue = "PUNT" THEN {} ELSE {Loopback})
      [] e.type = "MX" /\ e.addrs # None ->
            IF e.glue THEN {e.addrs[1]} ELSE ToSet(e.addrs) \ {Loopback}
      [] OTHER -> {}

\* An answer of CNAMEs that lead from one to the next, without an MX: the A records
\* are looked up behind a single one only.
Chain ==
    /\ queue # "PUNT" /\ dns.mx # None /\ Mx = {}
    /\ dns.mx # << >> /\ ~(Len(dns.mx) = 1 /\ dns.mx[1].type = "CNAME")

NoChain(x) ==
    \/ x.mx = None
    \/ x.mx = << >>
    \/ Len(x.mx) = 1 /\ x.mx[1].type = "CNAME"
    \/ \E i \in DOMAIN x.mx : x.mx[i].type = "MX"

\* The addresses the walk comes to.
Reachable == IF Chain THEN {} ELSE Allowed

\* Entry i is in front of the one that ends the walk.
Usable(x, i) ==
    /\ i \in DOMAIN x.result
    /\ \A j \in DOMAIN x.result : j <= i =>
        ~(x.result[j].type = "MX" /\ x.cutoff # None /\ x.result[j].pref = x.cutoff)

EntryIs(e) ==
    /\ e.type \in {"A", "MX", "CNAME"}
    /\ e.type = "MX" => queue = "MX"
    /\ e.type # "A" => /\ e.addrs = None \/ IsSeq(e.addrs)
                       /\ e.glue => e.addrs # None /\ e.addrs # << >>

\* The answer is the one the addresses of the host come from.
AnswerIs(x) ==
    /\ IsSeq(x.result)
    /\ \A i \in DOMAIN x.result : EntryIs(x.result[i])
    /\ Reachable = UNION {Yield(x.result[i]) : i \in {j \in DOMAIN x.result : Usable(x, j)}}

\* What is left of the A list.
Pending(x) ==
    IF x.ip = None THEN {}
    ELSE {x.ip[j] : j \in {k \in DOMAIN x.ip : k > x.cur_ip}} \ {Loopback}

\* What is in front of the cursor was tried, is in the A list, or is in S.
Covered(x, T, S) ==
    \A i \in DOMAIN x.result :
        i <= x.cur /\ Usable(x, i) => Yield(x.result[i]) \subseteq T \union Pending(x) \union S

\* The walk has not met the entry that ends it.
NotCut(x) == \A i \in DOMAIN x.result : i <= x.cur => Usable(x, i)

\* The A list is through, and so is the answer if there is no A list.
Through(x, T) == Pending(x) = {} /\ (x.ip = None => Reachable \subseteq T)

\* The cursors are inside their lists, and the hosts to try again were tried.
CursorsIn(x, T) ==
    /\ x.result # None => AnswerIs(x) /\ x.cur \in 0..Len(x.result)
    /\ x.ip # None => IsSeq(x.ip) /\ x.cur_ip \in 0..Len(x.ip)
    /\ Pending(x) \subseteq Reachable
    /\ x.retry \in Seq(T) /\ x.retry_cur \in 0..Len(x.retry)

\* There is a connection where one is needed, to an address of the answer.
Seeking == {"lookup", "entry", "ip", "connect"}
Connected == (Walking \ Seeking) \union Talking

PlaceIs(x, p, T) ==
    /\ p = "entry" => x.ip = None
    /\ p = "ip" => x.ip # None
    /\ p \in {"entry", "ip"} => x.retry_cur = 0
    /\ p = "connect" => x.sin \in Reachable
    /\ p \in Seeking => ~x.snet
    /\ p \in Connected => x.snet
    /\ x.snet => x.sin \in T /\ x.result # None
    /\ x.movement => x.sin \in T
    /\ p \in Walking \ {"lookup"} => x.result # None

\* Nothing was tried before there was an answer; and a host that is given up has
\* no address left.
TriedIs(x, p, h, T) ==
    /\ T \subseteq Reachable
    /\ x.result = None /\ (h \in {"MX", "PUNT"} \/ p = "lookup") => T = {}
    /\ h \in {"DOWN", "PUNT_DOWN"} /\ p \notin Walking \union Talking => T = Reachable

WalkIs(x, p, h, T) ==
    /\ CursorsIn(x, T)
    /\ x.result # None => Covered(x, T, IF p = "connect" THEN {x.sin} ELSE {})
    /\ x.result # None /\ (x.retry_cur = 0 \/ x.ip # None) => NotCut(x)
    /\ x.retry_cur # 0 => Through(x, T)
    /\ PlaceIs(x, p, T) /\ TriedIs(x, p, h, T)

WalkInv == dns \in Dns /\ WalkIs(d, pc, hq_status, tried)

---------------------------------------------------------------------------
(* The answers.                                                            *)

\* A sequence, as IsSeq tells one.
LEMMA IsSeqIs ==
    ASSUME NEW s, IsSeq(s)
    PROVE  DOMAIN s = 1..Len(s) /\ Len(s) \in Nat
BY LenProperties DEF IsSeq

\* A records are tried as they come, but for the loopback address, which only the
\* punt host may have.
LEMMA AListAllowed ==
    ASSUME dns \in Dns, dns.a # None,
           queue = "PUNT" \/ (dns.mx # None /\ Mx = {}),
           NEW r, r = [i \in DOMAIN dns.a |-> A(dns.a[i])]
    PROVE  /\ IsSeq(r) /\ \A i \in DOMAIN r : EntryIs(r[i]) /\ r[i].type = "A"
           /\ Allowed = UNION {Yield(r[i]) : i \in DOMAIN r}
<1>1. IsSeq(dns.a)
  BY AnswersAssumption DEF AnswersSorted
<1>2. DOMAIN dns.a = 1..Len(dns.a) /\ Len(dns.a) \in Nat
  BY <1>1, IsSeqIs
<1>3. IsSeq(r)
  <2> DEFINE S == {r[i] : i \in DOMAIN r}
  <2>1. DOMAIN r = 1..Len(dns.a) /\ \A i \in DOMAIN r : r[i] \in S
    BY <1>2
  <2>2. r = [i \in 1..Len(dns.a) |-> r[i]]
    BY <1>2
  <2>3. r \in [1..Len(dns.a) -> S]
    BY <2>1, <2>2
  <2>4. r \in Seq(S)
    BY <1>2, <2>3, SeqDef
  <2> QED  BY <2>4 DEF IsSeq
<1>4. \A i \in DOMAIN r : /\ r[i].type = "A" /\ r[i].addrs[1] = dns.a[i]
                          /\ EntryIs(r[i])
  BY DEF A, EntryIs
<1>5. \A i \in DOMAIN r : Yield(r[i]) =
            {dns.a[i]} \ (IF queue = "PUNT" THEN {} ELSE {Loopback})
  BY <1>4 DEF Yield
<1>6. Allowed = ToSet(dns.a) \ (IF queue = "PUNT" THEN {} ELSE {Loopback})
  BY DEF Allowed
<1>7. DOMAIN r = DOMAIN dns.a
  OBVIOUS
<1>8. UNION {Yield(r[i]) : i \in DOMAIN r} =
            ToSet(dns.a) \ (IF queue = "PUNT" THEN {} ELSE {Loopback})
  <2> HIDE DEF Yield
  <2> QED  BY <1>5, <1>7 DEF ToSet
<1> QED  BY <1>3, <1>4, <1>6, <1>8

\* The records that name this host, and the preference of the first.
Own == {i \in DOMAIN dns.mx : dns.mx[i].type = "MX" /\ dns.mx[i].own}

OwnPref ==
    IF Own = {} THEN None ELSE dns.mx[CHOOSE i \in Own : \A j \in Own : i <= j].pref

\* MX records are tried up to the first that is not preferred to us.
LEMMA MxListAllowed ==
    ASSUME dns \in Dns, dns.mx # None, Mx # {}, queue = "MX",
           NEW c, c = OwnPref
    PROVE  /\ IsSeq(dns.mx) /\ \A i \in DOMAIN dns.mx : EntryIs(dns.mx[i])
           /\ Allowed = UNION {Yield(dns.mx[i]) : i \in {k \in DOMAIN dns.mx :
                \A j \in DOMAIN dns.mx : j <= k =>
                    ~(dns.mx[j].type = "MX" /\ c # None /\ dns.mx[j].pref = c)}}
<1> DEFINE mx == dns.mx
           Before(i) == \A k \in Mx : mx[k].own => mx[i].pref < mx[k].pref
           Reached(i) == \A j \in DOMAIN mx : j <= i =>
                            ~(mx[j].type = "MX" /\ c # None /\ mx[j].pref = c)
<1>1. /\ IsSeq(mx)
      /\ \A i \in DOMAIN mx :
            /\ mx[i].type \in {"MX", "CNAME"}
            /\ mx[i].pref \in Int /\ mx[i].pref # None
            /\ mx[i].addrs = None \/ IsSeq(mx[i].addrs)
            /\ mx[i].glue => mx[i].addrs # None /\ mx[i].addrs # << >>
      /\ \A i, j \in DOMAIN mx : i < j /\ mx[i].type = "MX" /\ mx[j].type = "MX"
            => mx[i].pref <= mx[j].pref
  BY AnswersAssumption DEF AnswersSorted
<1>2. DOMAIN mx = 1..Len(mx) /\ Len(mx) \in Nat
  BY <1>1, IsSeqIs
<1>3. \A i \in DOMAIN mx : EntryIs(mx[i])
  BY <1>1 DEF EntryIs
<1>4. \A i \in Mx : Before(i) <=> Reached(i)
  <2> SUFFICES ASSUME NEW i \in Mx PROVE Before(i) <=> Reached(i)
    OBVIOUS
  <2>1. \A k : k \in Own <=> k \in Mx /\ mx[k].own
    BY DEF Mx, Own
  <2>2. CASE Own = {}
    BY <2>1, <2>2 DEF OwnPref
  <2>3. CASE Own # {}
    <3> DEFINE k0 == CHOOSE k \in Own : \A j \in Own : k <= j
    <3>1. k0 \in Own /\ \A j \in Own : k0 <= j
      <4>1. Own \in SUBSET Nat
        BY <1>2 DEF Own
      <4> QED  BY <2>3, <4>1, LeastNat
    <3>2. c = mx[k0].pref
      BY <2>3 DEF OwnPref
    <3> HIDE DEF k0
    <3>3. /\ k0 \in Mx /\ mx[k0].own /\ c \in Int /\ c # None
          /\ k0 \in DOMAIN mx /\ i \in DOMAIN mx /\ mx[k0].type = "MX"
          /\ mx[i].type = "MX" /\ i \in Int /\ k0 \in Int
          /\ mx[i].pref \in Int
      BY <1>1, <1>2, <2>1, <3>1, <3>2 DEF Mx
    <3>4. ASSUME Before(i), NEW j \in DOMAIN mx, j <= i, mx[j].type = "MX",
                 mx[j].pref = c
          PROVE  FALSE
      <4>1. mx[i].pref < c
        BY <3>2, <3>3, <3>4
      <4>2. j = i \/ j < i
        BY <1>2, <3>3, <3>4
      <4>3. mx[j].pref <= mx[i].pref
        BY <1>1, <3>3, <3>4, <4>2
      <4>4. c <= mx[i].pref
        BY <3>4, <4>3
      <4> QED
        <5> HIDE DEF mx
        <5> QED  BY <3>3, <4>1, <4>4
    <3>5. ASSUME Reached(i), NEW k \in Mx, mx[k].own PROVE mx[i].pref < mx[k].pref
      <4>1. k \in Own /\ k \in DOMAIN mx /\ mx[k].type = "MX" /\ k0 <= k /\ k \in Int
            /\ mx[k].pref \in Int
        BY <1>1, <1>2, <2>1, <3>1, <3>5 DEF Mx
      <4>2. c <= mx[k].pref
        <5>1. k0 = k \/ k0 < k
          BY <3>3, <4>1
        <5> QED  BY <1>1, <3>2, <3>3, <4>1, <5>1
      <4>3. ~(k0 <= i)
        BY <3>2, <3>3, <3>5
      <4>4. mx[i].pref <= c
        <5>1. i < k0
          BY <3>3, <4>3
        <5> QED  BY <1>1, <3>2, <3>3, <5>1
      <4>5. mx[i].pref # c
        <5>1. i <= i /\ i \in DOMAIN mx
          BY <3>3
        <5>2. ~(mx[i].type = "MX" /\ c # None /\ mx[i].pref = c)
          BY <3>5, <5>1, Zenon
        <5> QED  BY <3>3, <5>2
      <4> QED
        <5> DEFINE pi == mx[i].pref
                   pk == mx[k].pref
        <5>1. pi \in Int /\ pk \in Int /\ c \in Int /\ pi <= c /\ pi # c /\ c <= pk
          BY <3>3, <4>1, <4>2, <4>4, <4>5
        <5>2. pi < pk
          <6> HIDE DEF pi, pk
          <6> QED  BY <5>1
        <5> QED  BY <5>2
    <3> QED  BY <3>4, <3>5
  <2> QED  BY <2>2, <2>3
<1>5. \A i \in Mx : Yield(mx[i]) = Addresses(i)
  <2> SUFFICES ASSUME NEW i \in Mx PROVE Yield(mx[i]) = Addresses(i)
    OBVIOUS
  <2>1. mx[i].type = "MX"
    BY DEF Mx
  <2> QED  BY <2>1 DEF Yield, Addresses
<1>6. \A i \in DOMAIN mx : i \notin Mx => Yield(mx[i]) = {}
  <2> SUFFICES ASSUME NEW i \in DOMAIN mx, i \notin Mx PROVE Yield(mx[i]) = {}
    OBVIOUS
  <2>1. mx[i].type = "CNAME"
    BY <1>1 DEF Mx
  <2> QED  BY <2>1 DEF Yield
<1>7. Mx \subseteq DOMAIN mx
  BY DEF Mx
<1>8. Allowed = UNION {Addresses(i) : i \in {j \in Mx : Before(j)}}
  BY DEF Allowed
<1>9. UNION {Addresses(i) : i \in {j \in Mx : Before(j)}} =
      UNION {Yield(mx[i]) : i \in {k \in DOMAIN mx : Reached(k)}}
  <2> HIDE DEF mx, Before, Reached
  <2> QED  BY <1>4, <1>5, <1>6, <1>7
<1> QED  BY <1>1, <1>3, <1>8, <1>9


---------------------------------------------------------------------------
(* Steps.                                                                  *)

\* The answers do not change, so a step is what it makes of the walk.
LEMMA WalkFrame ==
    ASSUME dns \in Dns, UNCHANGED <<dns, queue>>,
           WalkIs(d', pc', hq_status', tried')
    PROVE  WalkInv'
<1>1. Reachable' = Reachable
  BY DEF Reachable, Chain, Allowed, Mx, Addresses
<1>2. AnswerIs(d') => AnswerIs(d)'
  BY <1>1 DEF AnswerIs, EntryIs, Yield, Usable, IsSeq
<1>3. Pending(d)' = Pending(d')
  BY DEF Pending
<1>4. \A S : Covered(d', tried', S) => Covered(d, tried, S)'
  BY <1>3 DEF Covered, Yield, Usable
<1>0. NotCut(d') => NotCut(d)'
  BY DEF NotCut, Usable
<1>5. Through(d', tried') => Through(d, tried)'
  BY <1>1, <1>3 DEF Through
<1>6. CursorsIn(d', tried') => CursorsIn(d, tried)'
  BY <1>1, <1>2, <1>3 DEF CursorsIn
<1>7. PlaceIs(d', pc', tried') => PlaceIs(d, pc, tried)'
  BY <1>1 DEF PlaceIs
<1>8. TriedIs(d', pc', hq_status', tried') => TriedIs(d, pc, hq_status, tried)'
  BY <1>1 DEF TriedIs
<1>9. WalkIs(d, pc, hq_status, tried)'
  BY <1>0, <1>4, <1>5, <1>6, <1>7, <1>8 DEF WalkIs
<1> QED  BY <1>9 DEF WalkInv

\* What the walk sees of the struct deliver.
Same(x, y) ==
    /\ x.result = y.result /\ x.cutoff = y.cutoff /\ x.cur = y.cur
    /\ x.ip = y.ip /\ x.cur_ip = y.cur_ip

\* Two structs the walk cannot tell apart.
LEMMA SameWalk ==
    ASSUME NEW x, NEW y, Same(x, y)
    PROVE  /\ AnswerIs(x) => AnswerIs(y)
           /\ Pending(y) = Pending(x)
           /\ \A T, S : Covered(x, T, S) => Covered(y, T, S)
           /\ NotCut(x) => NotCut(y)
           /\ \A T : Through(x, T) => Through(y, T)
<1>1. \A i : Usable(x, i) <=> Usable(y, i)
  BY DEF Same, Usable
<1>2. AnswerIs(x) => AnswerIs(y)
  BY <1>1 DEF AnswerIs, Same
<1>3. Pending(y) = Pending(x)
  BY DEF Pending, Same
<1>4. \A T, S : Covered(x, T, S) => Covered(y, T, S)
  BY <1>1, <1>3 DEF Covered, Same
<1>5. NotCut(x) => NotCut(y)
  BY <1>1 DEF NotCut, Same
<1> QED  BY <1>2, <1>3, <1>4, <1>5 DEF Through, Same


\* A step that walks on with x.
Walks(x) ==
    /\ DOMAIN x = DOMAIN NewDeliver
    /\ CursorsIn(x, tried) /\ x.result # None /\ ~x.snet
    /\ tried \subseteq Reachable
    /\ dns \in Dns /\ UNCHANGED <<dns, queue, tried>>

\* The next host is found.
LEMMA FoundKeeps ==
    ASSUME NEW x, Walks(x), Found(x), Covered(x, tried, {x.sin}), x.sin \in Reachable,
           x.retry_cur # 0 => Through(x, tried),
           x.retry_cur = 0 \/ x.ip # None => NotCut(x)
    PROVE  WalkInv'
<1>1. /\ d' = [x EXCEPT !.movement = FALSE] /\ pc' = "connect"
      /\ tried' = tried
  BY DEF Found, Walks
<1>2. /\ Same(x, d') /\ d'.retry = x.retry /\ d'.retry_cur = x.retry_cur
      /\ d'.sin = x.sin /\ d'.snet = x.snet /\ ~d'.movement
  BY <1>1 DEF Walks, NewDeliver, Same
<1>3. d'.result # None /\ ~d'.snet
  BY <1>2 DEF Walks, Same
<1>4. CursorsIn(d', tried')
  BY <1>1, <1>2, SameWalk DEF CursorsIn, Same, Walks
<1>5. /\ Covered(d', tried', {d'.sin}) /\ (d'.retry_cur # 0 => Through(d', tried'))
      /\ d'.retry_cur = 0 \/ d'.ip # None => NotCut(d')
  BY <1>1, <1>2, SameWalk DEF Same
<1>6. PlaceIs(d', pc', tried')
  BY <1>1, <1>2, <1>3 DEF PlaceIs, Connected, Seeking, Talking
<1>7. TriedIs(d', pc', hq_status', tried')
  BY <1>1, <1>3 DEF TriedIs, Walks, Walking
<1>8. WalkIs(d', pc', hq_status', tried')
  BY <1>1, <1>4, <1>5, <1>6, <1>7 DEF WalkIs
<1> QED  BY <1>8, WalkFrame DEF Walks

\* A host is tried again.
LEMMA RetryKeeps ==
    ASSUME NEW x, Walks(x), NEW i \in 1..Len(x.retry), Retry(x, i),
           Covered(x, tried, {}), Through(x, tried), x.ip # None => NotCut(x)
    PROVE  WalkInv'
<1> DEFINE y == [x EXCEPT !.retry_cur = i, !.sin = x.retry[i]]
<1>1. /\ Same(x, y) /\ y.retry = x.retry /\ y.retry_cur = i /\ y.sin = x.retry[i]
      /\ y.snet = x.snet /\ DOMAIN y = DOMAIN NewDeliver
  BY DEF Walks, NewDeliver, Same
<1>2. Found(y)
  BY DEF Retry
<1> HIDE DEF y
<1>3. x.retry \in Seq(tried) /\ Len(x.retry) \in Nat
  BY DEF Walks, CursorsIn
<1>4. y.sin \in tried
  BY <1>1, <1>3
<1>5. Walks(y)
  BY <1>1, <1>3, SameWalk DEF Walks, CursorsIn, Same
<1>6. /\ Covered(y, tried, {y.sin}) /\ Through(y, tried)
      /\ y.retry_cur # 0 /\ (y.ip # None => NotCut(y))
  <2>1. /\ Covered(y, tried, {}) /\ Through(y, tried) /\ y.retry_cur # 0
        /\ y.ip # None => NotCut(y)
    BY <1>1, SameWalk DEF Same
  <2> QED  BY <2>1 DEF Covered
<1> QED  BY <1>2, <1>4, <1>5, <1>6, FoundKeeps DEF Walks

\* No host is left in the A list, or in the answer.
LEMMA ExhaustedKeeps ==
    ASSUME NEW x, Walks(x), Exhausted(x), x.movement => x.sin \in tried,
           Covered(x, tried, {}), Through(x, tried), x.retry_cur = 0,
           x.ip # None => NotCut(x),
           hq_status' \in {"DOWN", "PUNT_DOWN"}
    PROVE  WalkInv'
<1>1. CASE x.ip # None
  <2>1. d' = [x EXCEPT !.ip = None] /\ pc' = "lookup" /\ tried' = tried
    BY <1>1 DEF Exhausted, Walks
  <2>2. /\ d'.result = x.result /\ d'.cutoff = x.cutoff /\ d'.cur = x.cur
        /\ d'.ip = None /\ d'.retry = x.retry /\ d'.retry_cur = 0
        /\ d'.sin = x.sin /\ d'.snet = x.snet /\ d'.movement = x.movement
    BY <2>1 DEF Walks, NewDeliver
  <2>3. Pending(d') = {} /\ Pending(x) = {}
    BY <2>2 DEF Pending, Through
  <2>4. AnswerIs(d') /\ Covered(d', tried', {})
    BY <2>1, <2>2, <2>3 DEF AnswerIs, Covered, Usable, Walks, CursorsIn
  <2>9. NotCut(d')
    BY <1>1, <2>2 DEF NotCut, Usable
  <2>5. CursorsIn(d', tried')
    BY <2>1, <2>2, <2>3, <2>4 DEF CursorsIn, Walks
  <2>6. PlaceIs(d', pc', tried')
    BY <2>1, <2>2 DEF PlaceIs, Walks, Connected, Seeking, Walking, Talking
  <2>7. TriedIs(d', pc', hq_status', tried')
    BY <2>1, <2>2 DEF TriedIs, Walks, Walking
  <2> HIDE DEF Walks
  <2>8. WalkIs(d', pc', hq_status', tried')
    BY <2>1, <2>2, <2>4, <2>5, <2>6, <2>7, <2>9 DEF WalkIs
  <2> QED  BY <2>8, WalkFrame DEF Walks
<1>2. CASE x.ip = None
  <2>1. d' = [x EXCEPT !.result = None] /\ pc' = "returned" /\ tried' = tried
    BY <1>2 DEF Exhausted, Walks
  <2>2. /\ d'.result = None /\ d'.ip = None
        /\ d'.retry = x.retry /\ d'.retry_cur = 0
        /\ d'.sin = x.sin /\ d'.snet = x.snet /\ d'.movement = x.movement
    BY <1>2, <2>1 DEF Walks, NewDeliver
  <2>3. Pending(d') = {}
    BY <2>2 DEF Pending
  <2>4. CursorsIn(d', tried')
    BY <2>1, <2>2, <2>3 DEF CursorsIn, Walks
  <2>5. PlaceIs(d', pc', tried')
    BY <2>1, <2>2 DEF PlaceIs, Walks, Connected, Seeking, Walking, Talking
  <2>6. tried = Reachable
    BY <1>2 DEF Through, Walks
  <2>7. TriedIs(d', pc', hq_status', tried')
    BY <2>1, <2>2, <2>6 DEF TriedIs
  <2>8. WalkIs(d', pc', hq_status', tried')
    BY <2>1, <2>2, <2>4, <2>5, <2>7 DEF WalkIs
  <2> QED  BY <2>8, WalkFrame DEF Walks
<1> QED  BY <1>1, <1>2

\* The hosts that moved mail come next, if there are any.
LEMMA NoMoreKeeps ==
    ASSUME NEW x, Walks(x), NoMore(x), x.movement => x.sin \in tried,
           Covered(x, tried, {}), Through(x, tried), x.retry_cur = 0,
           x.ip # None => NotCut(x),
           hq_status' \in {"DOWN", "PUNT_DOWN"}
    PROVE  WalkInv'
<1>1. CASE x.retry # << >>
  <2>1. x.retry \in Seq(tried)
    BY DEF Walks, CursorsIn
  <2>2. 1 \in 1..Len(x.retry)
    BY <1>1, <2>1
  <2> QED  BY <1>1, <2>2, RetryKeeps DEF NoMore
<1>2. CASE x.retry = << >>
  BY <1>2, ExhaustedKeeps DEF NoMore
<1> QED  BY <1>1, <1>2

\* The loop goes on.
LEMMA GoesOn ==
    ASSUME NEW x, Walks(x), d' = x, pc' \in {"lookup", "entry", "ip"},
           pc' = "entry" => x.ip = None, pc' = "ip" => x.ip # None,
           x.retry_cur = 0, Covered(x, tried, {}), NotCut(x),
           x.movement => x.sin \in tried
    PROVE  WalkInv'
<1>1. CursorsIn(d', tried') /\ Covered(d', tried', {}) /\ tried' = tried
  BY DEF Walks
<1>2. PlaceIs(d', pc', tried')
  BY DEF PlaceIs, Walks, Connected, Seeking, Walking, Talking
<1>3. TriedIs(d', pc', hq_status', tried')
  BY DEF TriedIs, Walks, Walking
<1>4. WalkIs(d', pc', hq_status', tried')
  BY <1>1, <1>2, <1>3 DEF WalkIs
<1> QED  BY <1>4, WalkFrame DEF Walks

\* What a step of the walk starts from.
LEMMA Starts ==
    ASSUME DeliveryInv, WalkInv, pc \in Seeking
    PROVE  /\ hq_status \in {"DOWN", "PUNT_DOWN"}
           /\ queue = "MX" <=> hq_status = "DOWN"
           /\ queue = "PUNT" <=> hq_status = "PUNT_DOWN"
           /\ DOMAIN d = DOMAIN NewDeliver /\ (d.result = None => d.ip = None)
           /\ d.result # None /\ UNCHANGED <<dns, queue, tried>> => Walks(d)
           /\ d.movement => d.sin \in tried
           /\ d.result # None /\ pc # "connect" => Covered(d, tried, {})
           /\ d.retry_cur # 0 => Through(d, tried)
           /\ d.result # None /\ (d.retry_cur = 0 \/ d.ip # None) => NotCut(d)
<1>1. /\ hq_status \in {"DOWN", "PUNT_DOWN"} /\ StatusOK /\ DeliverIs(d)
  BY DEF DeliveryInv, RemoteInv, TypeInv, Seeking, Walking
<1>2. /\ DOMAIN d = DOMAIN NewDeliver /\ (d.result = None => d.ip = None)
      /\ queue = "MX" <=> hq_status = "DOWN"
      /\ queue = "PUNT" <=> hq_status = "PUNT_DOWN"
  BY <1>1 DEF StatusOK, DeliverIs
<1>3. /\ dns \in Dns /\ CursorsIn(d, tried) /\ ~d.snet /\ tried \subseteq Reachable
      /\ d.movement => d.sin \in tried
      /\ d.result # None /\ pc # "connect" => Covered(d, tried, {})
      /\ d.retry_cur # 0 => Through(d, tried)
      /\ d.result # None /\ (d.retry_cur = 0 \/ d.ip # None) => NotCut(d)
  BY DEF WalkInv, WalkIs, PlaceIs, TriedIs
<1> QED  BY <1>1, <1>2, <1>3 DEF Walks

\* The list of retries goes round; the host that moved nothing leaves it.
LEMMA RetryStep ==
    ASSUME DeliveryInv, WalkInv, LookupRetry
    PROVE  WalkInv'
<1>1. /\ pc = "lookup" /\ d.result # None /\ d.retry_cur # 0
      /\ UNCHANGED <<dns, queue, tried, hq_status>>
  BY DEF LookupRetry, ghosts
<1>2. /\ Walks(d) /\ Covered(d, tried, {}) /\ Through(d, tried)
      /\ d.ip # None => NotCut(d)
      /\ hq_status' \in {"DOWN", "PUNT_DOWN"}
  BY <1>1, Starts DEF Seeking
<1>3. /\ d.retry \in Seq(tried) /\ Len(d.retry) \in Nat
      /\ d.retry_cur \in 1..Len(d.retry)
  BY <1>1, <1>2 DEF Walks, CursorsIn
<1>4. CASE d.movement
  <2> DEFINE i == IF d.retry_cur < Len(d.retry) THEN d.retry_cur + 1 ELSE 1
  <2>1. Retry(d, i)
    BY <1>4 DEF LookupRetry
  <2>2. i \in 1..Len(d.retry)
    BY <1>3
  <2> QED  BY <1>2, <2>1, <2>2, RetryKeeps
<1>5. CASE ~d.movement
  <2> DEFINE left == RemoveAt(d.retry, d.retry_cur)
             x == [d EXCEPT !.retry = left, !.retry_cur = 0]
             i == IF d.retry_cur <= Len(left) THEN d.retry_cur ELSE 1
  <2>1. left \in Seq(tried) /\ Len(left) = Len(d.retry) - 1
    BY <1>3, RemoveAtIs
  <2>2. IF left = << >> THEN Exhausted(x) ELSE Retry(x, i)
    BY <1>5 DEF LookupRetry
  <2> HIDE DEF left
  <2>3. /\ Same(d, x) /\ x.retry = left /\ x.retry_cur = 0 /\ ~x.movement
        /\ x.snet = d.snet /\ DOMAIN x = DOMAIN NewDeliver
    BY <1>2, <1>5 DEF Walks, NewDeliver, Same
  <2> HIDE DEF x
  <2>4. /\ Covered(x, tried, {}) /\ Through(x, tried) /\ (x.ip # None => NotCut(x))
        /\ Pending(x) = Pending(d) /\ (AnswerIs(d) => AnswerIs(x))
    BY <1>2, <2>3, SameWalk DEF Same
  <2>5. Walks(x)
    BY <1>2, <2>1, <2>3, <2>4 DEF Walks, CursorsIn, Same
  <2>6. CASE left = << >>
    BY <1>2, <2>2, <2>3, <2>4, <2>5, <2>6, ExhaustedKeeps
  <2>7. CASE left # << >>
    <3>1. i \in 1..Len(x.retry)
      BY <1>3, <2>1, <2>3, <2>7
    <3> QED  BY <2>2, <2>4, <2>5, <2>7, <3>1, RetryKeeps
  <2> QED  BY <2>6, <2>7
<1> QED  BY <1>4, <1>5

\* A host that moved mail was connected to, and joins the list of retries.
LEMMA FirstStep ==
    ASSUME DeliveryInv, WalkInv, LookupFirst
    PROVE  WalkInv'
<1>1. /\ pc = "lookup" /\ d.result # None /\ d.retry_cur = 0
      /\ UNCHANGED <<dns, queue, tried, hq_status>>
      /\ d' = [d EXCEPT !.retry = IF Aggressive /\ d.movement
                                  THEN Append(@, d.sin) ELSE @]
      /\ pc' = IF d.ip # None THEN "ip" ELSE "entry"
  BY DEF LookupFirst, ghosts
<1>2. /\ Walks(d) /\ Covered(d, tried, {}) /\ NotCut(d)
      /\ d.movement => d.sin \in tried
  BY <1>1, Starts DEF Seeking
<1>3. /\ Same(d, d') /\ d'.retry_cur = 0 /\ d'.movement = d.movement
      /\ d'.sin = d.sin /\ d'.snet = d.snet /\ DOMAIN d' = DOMAIN NewDeliver
      /\ d'.retry = IF Aggressive /\ d.movement THEN Append(d.retry, d.sin)
                    ELSE d.retry
  BY <1>1, <1>2 DEF Walks, NewDeliver, Same
<1>4. d'.retry \in Seq(tried) /\ 0 \in 0..Len(d'.retry)
  <2>1. d.retry \in Seq(tried)
    BY <1>2 DEF Walks, CursorsIn
  <2> QED  BY <1>2, <1>3, <2>1
<1>5. /\ Covered(d', tried, {}) /\ NotCut(d')
      /\ Pending(d') = Pending(d) /\ (AnswerIs(d) => AnswerIs(d'))
  BY <1>2, <1>3, SameWalk
<1>6. Walks(d')
  BY <1>2, <1>3, <1>4, <1>5 DEF Walks, CursorsIn, Same
<1> QED  BY <1>1, <1>2, <1>3, <1>5, <1>6, GoesOn DEF Same

\* The entry the walk comes to: it ends the walk, or its addresses are among
\* those that may be tried.
LEMMA EntryFacts ==
    ASSUME DeliveryInv, WalkInv, pc = "entry", d.cur < Len(d.result),
           UNCHANGED <<dns, queue, tried>>,
           NEW e, e = d.result[d.cur + 1],
           NEW x, x = [d EXCEPT !.cur = d.cur + 1]
    PROVE  /\ Walks(x) /\ x.retry_cur = 0 /\ x.ip = None /\ Pending(x) = {}
           /\ x.movement => x.sin \in tried
           /\ EntryIs(e)
           /\ e.type = "MX" /\ Cutoff(e) => Covered(x, tried, {}) /\ Through(x, tried)
           /\ ~(e.type = "MX" /\ Cutoff(e)) =>
                /\ NotCut(x) /\ Yield(e) \subseteq Reachable
                /\ Covered(x, tried, Yield(e))
<1>1. /\ d.result # None /\ d.ip = None /\ d.retry_cur = 0
      /\ CursorsIn(d, tried)
  BY DEF WalkInv, WalkIs, PlaceIs, Walking
<1>2. /\ Walks(d) /\ Covered(d, tried, {}) /\ NotCut(d)
      /\ d.movement => d.sin \in tried
  BY <1>1, Starts DEF Seeking
<1>3. /\ IsSeq(d.result) /\ d.cur \in 0..Len(d.result)
      /\ \A i \in DOMAIN d.result : EntryIs(d.result[i])
      /\ Reachable = UNION {Yield(d.result[i]) :
                            i \in {j \in DOMAIN d.result : Usable(d, j)}}
  BY <1>1 DEF CursorsIn, AnswerIs
<1>4. /\ DOMAIN d.result = 1..Len(d.result) /\ Len(d.result) \in Nat
      /\ d.cur \in Nat /\ d.cur + 1 \in DOMAIN d.result
  BY <1>3, IsSeqIs
<1>5. /\ x.result = d.result /\ x.cutoff = d.cutoff /\ x.ip = d.ip
      /\ x.cur_ip = d.cur_ip /\ x.cur = d.cur + 1
      /\ x.retry = d.retry /\ x.retry_cur = d.retry_cur /\ x.snet = d.snet
      /\ x.sin = d.sin /\ x.movement = d.movement
      /\ DOMAIN x = DOMAIN NewDeliver
  BY <1>2 DEF Walks, NewDeliver
<1>6. \A i : Usable(x, i) <=> Usable(d, i)
  BY <1>5 DEF Usable
<1>7. Pending(x) = {} /\ Pending(d) = {}
  BY <1>1, <1>5 DEF Pending
<1>8. Walks(x)
  <2>1. AnswerIs(x)
    BY <1>3, <1>5, <1>6 DEF AnswerIs
  <2>2. x.cur \in 0..Len(x.result)
    BY <1>3, <1>4, <1>5
  <2> QED  BY <1>1, <1>2, <1>5, <1>7, <2>1, <2>2 DEF Walks, CursorsIn
<1>9. ASSUME NEW i \in DOMAIN d.result, Usable(d, i), i <= d.cur
      PROVE  Yield(d.result[i]) \subseteq tried
  BY <1>2, <1>7, <1>9 DEF Covered
<1>10. ASSUME NEW i \in DOMAIN d.result
       PROVE  i <= d.cur + 1 <=> i <= d.cur \/ i = d.cur + 1
  BY <1>4
<1>11. ASSUME e.type = "MX" /\ Cutoff(e)
       PROVE  Covered(x, tried, {}) /\ Through(x, tried)
  <2>1. ASSUME NEW i \in DOMAIN d.result, Usable(d, i) PROVE i <= d.cur
    <3>1. ~(d.cur + 1 <= i)
      BY <1>4, <1>11, <2>1 DEF Usable, Cutoff
    <3> QED  BY <1>4, <3>1
  <2>2. \A i \in DOMAIN d.result : Usable(d, i) => Yield(d.result[i]) \subseteq tried
    BY <1>9, <2>1
  <2>3. Reachable \subseteq tried
    <3> HIDE DEF Usable, Yield
    <3> QED  BY <1>3, <2>2
  <2> QED  BY <1>5, <1>6, <1>7, <2>2, <2>3 DEF Covered, Through
<1>12. ASSUME ~(e.type = "MX" /\ Cutoff(e))
       PROVE  NotCut(x) /\ Yield(e) \subseteq Reachable /\ Covered(x, tried, Yield(e))
  <2>1. Usable(d, d.cur + 1)
    <3>1. \A j \in DOMAIN d.result : j <= d.cur => Usable(d, j)
      BY <1>2 DEF NotCut
    <3>2. \A j \in DOMAIN d.result : j <= d.cur =>
            ~(d.result[j].type = "MX" /\ d.cutoff # None /\ d.result[j].pref = d.cutoff)
      <4>1. \A j \in DOMAIN d.result : j <= j
        BY <1>4
      <4> QED  BY <3>1, <4>1 DEF Usable
    <3> QED  BY <1>4, <1>10, <1>12, <3>2 DEF Usable, Cutoff
  <2>2. NotCut(x)
    BY <1>2, <1>5, <1>6, <1>10, <2>1 DEF NotCut
  <2>3. Yield(e) \subseteq Reachable
    BY <1>3, <1>4, <2>1
  <2>4. Covered(x, tried, Yield(e))
    BY <1>5, <1>6, <1>9, <1>10 DEF Covered
  <2> QED  BY <2>2, <2>3, <2>4
<1>13. EntryIs(e)
  BY <1>3, <1>4
<1> QED  BY <1>1, <1>2, <1>5, <1>7, <1>8, <1>11, <1>12, <1>13

\* An entry with one address, which is tried.
LEMMA EntryFound ==
    ASSUME NEW x, Walks(x), x.retry_cur = 0, NotCut(x),
           NEW addr, Found([x EXCEPT !.sin = addr]), NEW S,
           Covered(x, tried, S), S \subseteq {addr} \union Pending(x), addr \in Reachable
    PROVE  WalkInv'
<1> DEFINE y == [x EXCEPT !.sin = addr]
<1>1. /\ Same(x, y) /\ y.retry = x.retry /\ y.retry_cur = 0 /\ y.sin = addr
      /\ y.snet = x.snet /\ DOMAIN y = DOMAIN NewDeliver
  BY DEF Walks, NewDeliver, Same
<1> HIDE DEF y
<1>2. Walks(y)
  BY <1>1, SameWalk DEF Walks, CursorsIn, Same
<1>3. NotCut(y) /\ Covered(y, tried, {y.sin})
  <2>1. NotCut(y) /\ Covered(y, tried, S) /\ Pending(y) = Pending(x)
    BY <1>1, SameWalk
  <2> QED  BY <1>1, <2>1 DEF Covered
<1> QED  BY <1>1, <1>2, <1>3, FoundKeeps DEF y

\* The loop over the answer comes to each entry, and stops at our own preference.
LEMMA EntryStep ==
    ASSUME DeliveryInv, WalkInv, NextEntry
    PROVE  WalkInv'
<1>1. /\ pc = "entry" /\ UNCHANGED <<dns, queue, hq_status, tried>>
      /\ d.result # None /\ d.ip = None /\ d.retry_cur = 0
  BY DEF NextEntry, ghosts, WalkInv, WalkIs, PlaceIs, Walking
<1>2. /\ hq_status' \in {"DOWN", "PUNT_DOWN"}
      /\ queue = "MX" <=> hq_status = "DOWN"
      /\ queue = "PUNT" <=> hq_status = "PUNT_DOWN"
      /\ Walks(d) /\ Covered(d, tried, {}) /\ NotCut(d)
      /\ d.movement => d.sin \in tried
  BY <1>1, Starts DEF Seeking
<1>3. /\ IsSeq(d.result) /\ d.cur \in 0..Len(d.result) /\ Len(d.result) \in Nat
      /\ DOMAIN d.result = 1..Len(d.result)
  BY <1>1, <1>2, IsSeqIs DEF Walks, CursorsIn, AnswerIs
<1>4. CASE d.cur >= Len(d.result)
  <2>1. NoMore(d)
    BY <1>4 DEF NextEntry
  <2>2. Pending(d) = {}
    BY <1>1 DEF Pending
  <2>3. \A i \in DOMAIN d.result : Usable(d, i) => Yield(d.result[i]) \subseteq tried
    <3>1. \A i \in DOMAIN d.result : i <= d.cur
      BY <1>3, <1>4
    <3> QED  BY <1>2, <2>2, <3>1 DEF Covered
  <2>4. Reachable \subseteq tried
    <3>1. Reachable = UNION {Yield(d.result[i]) :
                            i \in {j \in DOMAIN d.result : Usable(d, j)}}
      BY <1>1, <1>2 DEF Walks, CursorsIn, AnswerIs
    <3> QED  BY <2>3, <3>1
  <2> QED  BY <1>1, <1>2, <2>1, <2>2, <2>4, NoMoreKeeps DEF Through
<1>5. CASE ~(d.cur >= Len(d.result))
  <2> DEFINE e == d.result[d.cur + 1]
             x == [d EXCEPT !.cur = @ + 1]
  <2>0. d.cur < Len(d.result) /\ x = [d EXCEPT !.cur = d.cur + 1]
    BY <1>3, <1>5
  <2>1. /\ Walks(x) /\ x.retry_cur = 0 /\ x.ip = None /\ Pending(x) = {}
        /\ x.movement => x.sin \in tried
        /\ EntryIs(e)
        /\ e.type = "MX" /\ Cutoff(e) => Covered(x, tried, {}) /\ Through(x, tried)
        /\ ~(e.type = "MX" /\ Cutoff(e)) =>
             /\ NotCut(x) /\ Yield(e) \subseteq Reachable
             /\ Covered(x, tried, Yield(e))
    BY <1>1, <2>0, EntryFacts
  <2>2. (CASE e.type = "A" /\ Valid(e.addrs[1]) -> Found([x EXCEPT !.sin = e.addrs[1]])
            [] e.type = "MX" /\ hq_status = "DOWN" /\ Cutoff(e) -> NoMore(x)
            [] e.type = "MX" /\ hq_status = "DOWN" /\ ~Cutoff(e) /\ e.glue ->
                Found([x EXCEPT !.sin = e.addrs[1]])
            [] e.type = "MX" /\ hq_status = "DOWN" /\ ~Cutoff(e) /\ ~e.glue
                /\ e.addrs # None /\ e.addrs # << >> ->
                d' = [x EXCEPT !.ip = e.addrs, !.cur_ip = 0] /\ pc' = "ip"
            [] OTHER -> d' = x /\ UNCHANGED pc)
    BY <1>5 DEF NextEntry
  <2> HIDE DEF e, x
  <2>3. CASE e.type = "A" /\ Valid(e.addrs[1])
    <3>1. Found([x EXCEPT !.sin = e.addrs[1]])
      BY <2>2, <2>3
    <3>2. Yield(e) = {e.addrs[1]}
      BY <1>1, <1>2, <2>3 DEF Yield, Valid
    <3> QED  BY <2>1, <2>3, <3>1, <3>2, EntryFound
  <2>4. CASE e.type = "MX" /\ hq_status = "DOWN" /\ Cutoff(e)
    <3>1. NoMore(x)
      BY <2>2, <2>4
    <3> QED  BY <1>2, <2>1, <2>4, <3>1, NoMoreKeeps
  <2>5. CASE e.type = "MX" /\ hq_status = "DOWN" /\ ~Cutoff(e) /\ e.glue
    <3>1. Found([x EXCEPT !.sin = e.addrs[1]])
      BY <2>2, <2>5
    <3>2. Yield(e) = {e.addrs[1]}
      BY <2>1, <2>5 DEF Yield, EntryIs
    <3> QED  BY <2>1, <2>5, <3>1, <3>2, EntryFound
  <2>6. CASE e.type = "MX" /\ hq_status = "DOWN" /\ ~Cutoff(e) /\ ~e.glue
               /\ e.addrs # None /\ e.addrs # << >>
    <3> DEFINE y == [x EXCEPT !.ip = e.addrs, !.cur_ip = 0]
    <3>1. d' = y /\ pc' = "ip"
      BY <2>2, <2>6
    <3>2. IsSeq(e.addrs) /\ Yield(e) = ToSet(e.addrs) \ {Loopback}
      BY <2>1, <2>6 DEF Yield, EntryIs
    <3>3. /\ y.result = x.result /\ y.cutoff = x.cutoff /\ y.cur = x.cur
          /\ y.ip = e.addrs /\ y.cur_ip = 0
          /\ y.retry = x.retry /\ y.retry_cur = x.retry_cur /\ y.snet = x.snet
          /\ y.sin = x.sin /\ y.movement = x.movement
          /\ DOMAIN y = DOMAIN NewDeliver
      BY <2>1 DEF Walks, NewDeliver
    <3> HIDE DEF y
    <3>4. Pending(y) = Yield(e)
      <4>1. DOMAIN e.addrs = 1..Len(e.addrs) /\ Len(e.addrs) \in Nat
        BY <3>2, IsSeqIs
      <4>2. \A k \in DOMAIN e.addrs : k > 0
        BY <4>1
      <4> QED  BY <2>6, <3>2, <3>3, <4>2 DEF Pending, ToSet
    <3>5. \A i : Usable(x, i) <=> Usable(y, i)
      BY <3>3 DEF Usable
    <3>6. Covered(y, tried, {}) /\ NotCut(y)
      BY <2>1, <2>6, <3>3, <3>4, <3>5 DEF Covered, NotCut
    <3>7. Walks(y)
      <4>1. AnswerIs(y)
        BY <2>1, <3>3, <3>5 DEF Walks, CursorsIn, AnswerIs
      <4>2. y.cur_ip \in 0..Len(y.ip)
        BY <3>2, <3>3, IsSeqIs
      <4> QED  BY <2>1, <2>6, <3>2, <3>3, <3>4, <4>1, <4>2 DEF Walks, CursorsIn
    <3> QED  BY <2>1, <2>6, <3>1, <3>3, <3>6, <3>7, GoesOn
  <2>7. CASE /\ ~(e.type = "A" /\ Valid(e.addrs[1]))
             /\ ~(e.type = "MX" /\ hq_status = "DOWN" /\ Cutoff(e))
             /\ ~(e.type = "MX" /\ hq_status = "DOWN" /\ ~Cutoff(e) /\ e.glue)
             /\ ~(e.type = "MX" /\ hq_status = "DOWN" /\ ~Cutoff(e) /\ ~e.glue
                    /\ e.addrs # None /\ e.addrs # << >>)
    <3>1. d' = x /\ UNCHANGED pc
      BY <2>2, <2>7
    <3>2. ~(e.type = "MX" /\ Cutoff(e))
      BY <1>2, <2>1, <2>7 DEF EntryIs
    <3>3. Yield(e) = {}
      <4>1. CASE e.type = "A"
        BY <1>2, <2>7, <4>1 DEF Yield, Valid
      <4>2. CASE e.type = "MX"
        <5>1. e.addrs = None \/ (e.addrs = << >> /\ ~e.glue)
          BY <1>2, <2>1, <2>7, <4>2 DEF EntryIs
        <5> QED  BY <4>2, <5>1 DEF Yield, ToSet
      <4> QED  BY <2>1, <4>1, <4>2 DEF Yield, EntryIs
    <3> QED  BY <1>1, <2>1, <3>1, <3>2, <3>3, GoesOn
  <2> QED  BY <2>3, <2>4, <2>5, <2>6, <2>7
<1> QED  BY <1>4, <1>5

\* The loop over the A list leaves out nothing but the loopback address.
LEMMA IpStep ==
    ASSUME DeliveryInv, WalkInv, NextIp
    PROVE  WalkInv'
<1>1. /\ pc = "ip" /\ UNCHANGED <<dns, queue, hq_status, tried>>
      /\ d.result # None /\ d.ip # None /\ d.retry_cur = 0
  BY DEF NextIp, ghosts, WalkInv, WalkIs, PlaceIs, Walking
<1>2. /\ hq_status' \in {"DOWN", "PUNT_DOWN"}
      /\ Walks(d) /\ Covered(d, tried, {}) /\ NotCut(d)
      /\ d.movement => d.sin \in tried
  BY <1>1, Starts DEF Seeking
<1>3. /\ d.cur_ip \in 0..Len(d.ip) /\ Len(d.ip) \in Nat /\ d.cur_ip \in Nat
      /\ DOMAIN d.ip = 1..Len(d.ip) /\ IsSeq(d.ip)
      /\ Pending(d) \subseteq Reachable
  BY <1>1, <1>2, IsSeqIs DEF Walks, CursorsIn
<1>4. CASE d.cur_ip >= Len(d.ip)
  <2>1. NoMore(d)
    BY <1>4 DEF NextIp
  <2>2. Pending(d) = {}
    <3>1. \A k \in DOMAIN d.ip : ~(k > d.cur_ip)
      BY <1>3, <1>4
    <3> QED  BY <3>1 DEF Pending
  <2> QED  BY <1>1, <1>2, <2>1, <2>2, NoMoreKeeps DEF Through
<1>5. CASE ~(d.cur_ip >= Len(d.ip))
  <2> DEFINE addr == d.ip[d.cur_ip + 1]
             x == [d EXCEPT !.cur_ip = @ + 1]
  <2>1. IF addr # Loopback THEN Found([x EXCEPT !.sin = addr])
        ELSE d' = x /\ UNCHANGED pc
    BY <1>5 DEF NextIp
  <2>2. /\ x.result = d.result /\ x.cutoff = d.cutoff /\ x.ip = d.ip
        /\ x.cur_ip = d.cur_ip + 1 /\ x.cur = d.cur
        /\ x.retry = d.retry /\ x.retry_cur = d.retry_cur /\ x.snet = d.snet
        /\ x.sin = d.sin /\ x.movement = d.movement
        /\ DOMAIN x = DOMAIN NewDeliver
    BY <1>2 DEF Walks, NewDeliver
  <2>3. d.cur_ip + 1 \in DOMAIN d.ip /\ d.cur_ip + 1 \in 0..Len(d.ip)
    BY <1>3, <1>5
  <2> HIDE DEF x
  <2>4. Pending(d) = ({addr} \ {Loopback}) \union Pending(x)
    <3>1. \A k \in DOMAIN d.ip : k > d.cur_ip <=> k = d.cur_ip + 1 \/ k > d.cur_ip + 1
      BY <1>3
    <3> QED  BY <1>1, <2>2, <2>3, <3>1 DEF Pending
  <2> HIDE DEF addr
  <2>5. \A i : Usable(x, i) <=> Usable(d, i)
    BY <2>2 DEF Usable
  <2>6. NotCut(x) /\ Covered(x, tried, {addr} \ {Loopback})
    BY <1>2, <2>2, <2>4, <2>5 DEF NotCut, Covered
  <2>7. Walks(x)
    <3>1. AnswerIs(x)
      BY <1>1, <1>2, <2>2, <2>5 DEF Walks, CursorsIn, AnswerIs
    <3> QED  BY <1>1, <1>2, <1>3, <2>2, <2>3, <2>4, <3>1 DEF Walks, CursorsIn
  <2>8. CASE addr # Loopback
    <3>1. Found([x EXCEPT !.sin = addr]) /\ addr \in Reachable
      BY <1>3, <2>1, <2>4, <2>8
    <3> QED  BY <1>1, <2>2, <2>6, <2>7, <3>1, EntryFound
  <2>9. CASE addr = Loopback
    <3>1. d' = x /\ pc' = "ip" /\ Covered(x, tried, {})
      BY <1>1, <2>1, <2>6, <2>9
    <3> QED  BY <1>1, <1>2, <2>2, <2>6, <2>7, <3>1, GoesOn
  <2> QED  BY <2>8, <2>9
<1> QED  BY <1>4, <1>5

\* The address that is connected to is the one that was found.
LEMMA ConnectStep ==
    ASSUME DeliveryInv, WalkInv, Connect
    PROVE  WalkInv'
<1>1. /\ pc = "connect" /\ UNCHANGED <<dns, queue, hq_status>>
      /\ tried' = tried \union {d.sin}
      /\ \/ pc' = "lookup" /\ d' = d
         \/ pc' = "banner" /\ d' = [d EXCEPT !.snet = TRUE]
  BY DEF Connect
<1>2. /\ d.result # None /\ ~d.snet /\ d.sin \in Reachable
      /\ CursorsIn(d, tried) /\ Covered(d, tried, {d.sin})
      /\ d.retry_cur = 0 \/ d.ip # None => NotCut(d)
      /\ d.retry_cur # 0 => Through(d, tried)
      /\ tried \subseteq Reachable /\ dns \in Dns /\ DOMAIN d = DOMAIN NewDeliver
  <2>1. DOMAIN d = DOMAIN NewDeliver
    BY <1>1, Starts DEF Seeking
  <2> QED  BY <1>1, <2>1 DEF WalkInv, WalkIs, PlaceIs, TriedIs, Walking,
      Seeking
<1>3. /\ Same(d, d') /\ d'.retry = d.retry /\ d'.retry_cur = d.retry_cur
      /\ d'.sin = d.sin /\ d'.movement = d.movement /\ d'.result # None
      /\ d'.snet <=> pc' = "banner"
  BY <1>1, <1>2 DEF NewDeliver, Same
<1>4. /\ AnswerIs(d) => AnswerIs(d')
      /\ Pending(d') = Pending(d)
      /\ Covered(d', tried, {d.sin})
      /\ NotCut(d) => NotCut(d')
      /\ Through(d, tried) => Through(d', tried)
  BY <1>2, <1>3, SameWalk
<1>5. d'.retry \in Seq(tried')
  <2>1. d.retry \in Seq(tried) /\ Seq(tried) \subseteq Seq(tried')
    BY <1>1, <1>2 DEF CursorsIn
  <2> QED  BY <1>3, <2>1
<1>6. CursorsIn(d', tried')
  BY <1>1, <1>2, <1>3, <1>4, <1>5 DEF CursorsIn, Same
<1>7. /\ Covered(d', tried', {}) /\ (Through(d', tried) => Through(d', tried'))
  BY <1>1, <1>4 DEF Covered, Through
<1>8. PlaceIs(d', pc', tried')
  BY <1>1, <1>3 DEF PlaceIs, Connected, Seeking, Walking, Talking
<1>9. TriedIs(d', pc', hq_status', tried')
  BY <1>1, <1>2, <1>3 DEF TriedIs, Walking
<1>10. WalkIs(d', pc', hq_status', tried')
  BY <1>1, <1>2, <1>3, <1>4, <1>6, <1>7, <1>8, <1>9 DEF WalkIs, Same
<1> QED  BY <1>1, <1>2, <1>10, WalkFrame

\* Before there is an answer, nothing was tried.
LEMMA NothingYet ==
    ASSUME DeliveryInv, WalkInv, pc = "lookup", d.result = None
    PROVE  /\ tried = {} /\ d.ip = None /\ d.retry = << >> /\ d.retry_cur = 0
           /\ ~d.snet /\ ~d.movement /\ dns \in Dns /\ DOMAIN d = DOMAIN NewDeliver
<1>1. tried = {} /\ ~d.snet /\ dns \in Dns /\ CursorsIn(d, tried)
      /\ (d.movement => d.sin \in tried)
  BY DEF WalkInv, WalkIs, TriedIs, PlaceIs, Seeking
<1>2. d.retry \in Seq({}) /\ d.retry_cur \in 0..Len(d.retry)
  BY <1>1 DEF CursorsIn
<1>3. d.retry = << >> /\ d.retry_cur = 0
  BY <1>2
<1> QED  BY <1>1, <1>3, Starts DEF Seeking

\* The resolver gives an answer.
LEMMA AnswerKeeps ==
    ASSUME DeliveryInv, WalkInv, pc = "lookup", d.result = None,
           UNCHANGED <<dns, queue, tried, pc>>,
           DOMAIN d' = DOMAIN NewDeliver, d'.cur = 0, d'.ip = d.ip,
           d'.retry = d.retry, d'.retry_cur = d.retry_cur, d'.snet = d.snet,
           d'.movement = d.movement, AnswerIs(d')
    PROVE  WalkInv'
<1>1. /\ tried = {} /\ d'.ip = None /\ d'.retry = << >> /\ d'.retry_cur = 0
      /\ ~d'.snet /\ ~d'.movement /\ dns \in Dns
  BY NothingYet
<1>2. Len(d'.result) \in Nat /\ DOMAIN d'.result = 1..Len(d'.result)
  BY IsSeqIs DEF AnswerIs
<1>3. \A i \in DOMAIN d'.result : ~(i <= d'.cur)
  BY <1>2
<1>4. Covered(d', tried', {}) /\ NotCut(d')
  BY <1>3 DEF Covered, NotCut
<1>5. CursorsIn(d', tried')
  <2>1. Pending(d') = {}
    BY <1>1 DEF Pending
  <2>2. d'.retry \in Seq(tried') /\ d'.retry_cur \in 0..Len(d'.retry)
    BY <1>1
  <2> QED  BY <1>1, <1>2, <2>1, <2>2 DEF CursorsIn
<1>6. PlaceIs(d', pc', tried')
  BY <1>1 DEF PlaceIs, Connected, Seeking, Walking, Talking
<1>7. TriedIs(d', pc', hq_status', tried')
  BY <1>1 DEF TriedIs, Walking
<1>8. WalkIs(d', pc', hq_status', tried')
  BY <1>1, <1>4, <1>5, <1>6, <1>7 DEF WalkIs
<1> QED  BY <1>1, <1>8, WalkFrame

\* It gives none: the host is given up, or has no address.
LEMMA NoAnswerKeeps ==
    ASSUME DeliveryInv, WalkInv, pc = "lookup", d.result = None,
           UNCHANGED <<dns, queue, tried>>,
           NEW x, x = d \/ \E b : x = [d EXCEPT !.no_punt = b], Exhausted(x),
           hq_status' \in {"DOWN", "PUNT_DOWN"} => Reachable = {}
    PROVE  WalkInv'
<1>1. /\ tried = {} /\ d.ip = None /\ d.retry = << >> /\ d.retry_cur = 0
      /\ ~d.snet /\ ~d.movement /\ dns \in Dns /\ DOMAIN d = DOMAIN NewDeliver
  BY NothingYet
<1>2. /\ x.ip = None /\ x.retry = << >> /\ x.retry_cur = 0
      /\ ~x.snet /\ ~x.movement /\ DOMAIN x = DOMAIN NewDeliver
  BY <1>1 DEF NewDeliver
<1>3. d' = [x EXCEPT !.result = None] /\ pc' = "returned"
  BY <1>2 DEF Exhausted
<1>4. /\ d'.result = None /\ d'.ip = None /\ d'.retry = << >> /\ d'.retry_cur = 0
      /\ ~d'.snet /\ ~d'.movement
  BY <1>2, <1>3 DEF NewDeliver
<1>5. CursorsIn(d', tried')
  <2>1. Pending(d') = {}
    BY <1>4 DEF Pending
  <2>2. d'.retry \in Seq(tried') /\ d'.retry_cur \in 0..Len(d'.retry)
    BY <1>4
  <2> QED  BY <1>4, <2>1, <2>2 DEF CursorsIn
<1>6. PlaceIs(d', pc', tried')
  BY <1>3, <1>4 DEF PlaceIs, Connected, Seeking, Walking, Talking
<1>7. TriedIs(d', pc', hq_status', tried')
  BY <1>1 DEF TriedIs
<1>8. WalkIs(d', pc', hq_status', tried')
  BY <1>3, <1>4, <1>5, <1>6, <1>7 DEF WalkIs
<1> QED  BY <1>1, <1>8, WalkFrame

\* The lookup gives the whole answer, or there is no address to try.
LEMMA DnsStep ==
    ASSUME DeliveryInv, WalkInv, LookupDns
    PROVE  WalkInv'
<1>1. /\ pc = "lookup" /\ d.result = None /\ UNCHANGED <<dns, queue, tried>>
  BY DEF LookupDns, ghosts
<1>2. /\ tried = {} /\ d.ip = None /\ d.retry = << >> /\ d.retry_cur = 0
      /\ ~d.snet /\ ~d.movement /\ dns \in Dns /\ DOMAIN d = DOMAIN NewDeliver
  BY <1>1, NothingYet
<1>3. /\ queue = "MX" <=> hq_status = "DOWN"
      /\ queue = "PUNT" <=> hq_status = "PUNT_DOWN"
  BY <1>1, Starts DEF Seeking
<1> DEFINE as == [i \in DOMAIN dns.a |-> A(dns.a[i])]
<1>4. ASSUME UNCHANGED pc, dns.a # None,
             queue = "PUNT" \/ (dns.mx # None /\ Mx = {}), ~Chain,
             d'.result = as, d'.cutoff = None, d'.cur = 0,
             DOMAIN d' = DOMAIN NewDeliver, d'.ip = d.ip,
             d'.retry = d.retry, d'.retry_cur = d.retry_cur, d'.snet = d.snet,
             d'.movement = d.movement
      PROVE  WalkInv'
  <2>1. /\ IsSeq(as) /\ \A i \in DOMAIN as : EntryIs(as[i]) /\ as[i].type = "A"
        /\ Reachable = UNION {Yield(as[i]) : i \in DOMAIN as}
    BY <1>2, <1>4, AListAllowed DEF Reachable
  <2> HIDE DEF as
  <2>2. {j \in DOMAIN as : Usable(d', j)} = DOMAIN as
    BY <1>4, <2>1 DEF Usable
  <2>3. AnswerIs(d')
    BY <1>4, <2>1, <2>2 DEF AnswerIs
  <2> QED  BY <1>1, <1>4, <2>3, AnswerKeeps
<1>5. CASE hq_status = "DOWN" /\ get_outboud_dns(env)
  <2> DEFINE bare == dns.mx = << >> \/ (Len(dns.mx) = 1 /\ dns.mx[1].type = "CNAME")
             own  == {i \in DOMAIN dns.mx : dns.mx[i].type = "MX" /\ dns.mx[i].own}
             c    == IF own = {} THEN None
                     ELSE dns.mx[CHOOSE i \in own : \A j \in own : i <= j].pref
  <2>1. CASE dns.mx = None
    <3>1. Exhausted([d EXCEPT !.no_punt = TRUE])
      BY <1>5, <2>1 DEF get_outboud_dns
    <3>2. Reachable = {}
      BY <1>3, <1>5, <2>1 DEF Reachable, Allowed
    <3> QED  BY <1>1, <3>1, <3>2, NoAnswerKeeps
  <2>2. CASE dns.mx # None /\ ~bare
    <3>1. /\ d' = [d EXCEPT !.result = dns.mx, !.cur = 0, !.no_punt = own # {},
                            !.cutoff = c]
          /\ UNCHANGED pc
      BY <1>5, <2>2 DEF get_outboud_dns
    <3> HIDE DEF own, c
    <3>2. /\ d'.result = dns.mx /\ d'.cutoff = c /\ d'.cur = 0
          /\ DOMAIN d' = DOMAIN NewDeliver /\ d'.ip = d.ip
          /\ d'.retry = d.retry /\ d'.retry_cur = d.retry_cur /\ d'.snet = d.snet
          /\ d'.movement = d.movement
      BY <1>2, <3>1 DEF NewDeliver
    <3>3. IsSeq(dns.mx) /\ \A i \in DOMAIN dns.mx : EntryIs(dns.mx[i])
      BY <1>2, <1>3, <1>5, <2>2, AnswersAssumption DEF AnswersSorted, EntryIs
    <3>4. Reachable = UNION {Yield(dns.mx[i]) : i \in {k \in DOMAIN dns.mx :
               \A j \in DOMAIN dns.mx : j <= k =>
                   ~(dns.mx[j].type = "MX" /\ c # None /\ dns.mx[j].pref = c)}}
      <4>1. CASE Mx = {}
        <5>1. Chain
          BY <1>3, <1>5, <2>2, <4>1 DEF Chain
        <5>2. \A i \in DOMAIN dns.mx : dns.mx[i].type = "CNAME"
          BY <1>2, <2>2, <4>1, AnswersAssumption DEF AnswersSorted, Mx
        <5>3. \A i \in DOMAIN dns.mx : Yield(dns.mx[i]) = {}
          BY <5>2 DEF Yield
        <5> HIDE DEF Yield
        <5> QED  BY <5>1, <5>3 DEF Reachable
      <4>2. CASE Mx # {}
        <5>1. c = OwnPref
          BY DEF c, own, OwnPref, Own
        <5>2. queue = "MX" /\ dns.mx # None /\ Reachable = Allowed
          BY <1>3, <1>5, <2>2, <4>2 DEF Reachable, Chain
        <5> QED  BY <1>2, <4>2, <5>1, <5>2, MxListAllowed
      <4> QED  BY <4>1, <4>2
    <3>5. AnswerIs(d')
      BY <3>2, <3>3, <3>4 DEF AnswerIs, Usable
    <3> QED  BY <1>1, <3>1, <3>2, <3>5, AnswerKeeps
  <2>3. ASSUME bare, dns.mx # None PROVE Mx = {} /\ ~Chain
    <3>1. DOMAIN dns.mx = 1..Len(dns.mx)
      BY <1>2, <2>3, IsSeqIs, AnswersAssumption DEF AnswersSorted
    <3>2. \A i \in DOMAIN dns.mx : dns.mx[i].type # "MX"
      <4>1. CASE dns.mx = << >>
        BY <4>1
      <4>2. CASE Len(dns.mx) = 1 /\ dns.mx[1].type = "CNAME"
        BY <3>1, <4>2
      <4> QED  BY <2>3, <4>1, <4>2
    <3> QED  BY <2>3, <3>2 DEF Mx, Chain
  <2>4. CASE dns.mx # None /\ bare /\ dns.a = None
    <3>1. Exhausted([d EXCEPT !.no_punt = FALSE])
      BY <1>5, <2>4 DEF get_outboud_dns
    <3>2. Reachable = {}
      BY <1>3, <1>5, <2>3, <2>4 DEF Reachable, Allowed
    <3> QED  BY <1>1, <3>1, <3>2, NoAnswerKeeps
  <2>5. CASE dns.mx # None /\ bare /\ dns.a # None /\ dns.a = << >>
    <3>1. Exhausted([d EXCEPT !.no_punt = FALSE]) /\ hq_status' = "BOUNCE"
      BY <1>5, <2>5 DEF get_outboud_dns
    <3> QED  BY <1>1, <3>1, NoAnswerKeeps
  <2>6. CASE dns.mx # None /\ bare /\ dns.a # None /\ dns.a # << >>
    <3>1. /\ d' = [d EXCEPT !.result = as, !.cur = 0, !.cutoff = None,
                            !.no_punt = FALSE]
          /\ UNCHANGED pc
      BY <1>5, <2>6 DEF get_outboud_dns
    <3>2. /\ d'.result = as /\ d'.cutoff = None /\ d'.cur = 0
          /\ DOMAIN d' = DOMAIN NewDeliver /\ d'.ip = d.ip
          /\ d'.retry = d.retry /\ d'.retry_cur = d.retry_cur /\ d'.snet = d.snet
          /\ d'.movement = d.movement
      <4> HIDE DEF as
      <4> QED  BY <1>2, <3>1 DEF NewDeliver
    <3> QED  BY <1>4, <2>3, <2>6, <3>1, <3>2
  <2> QED  BY <2>1, <2>2, <2>4, <2>5, <2>6
<1>6. CASE /\ hq_status = "PUNT_DOWN" /\ UNCHANGED hq_status
           /\ IF dns.a = None \/ dns.a = << >> THEN Exhausted(d)
              ELSE /\ d' = [d EXCEPT !.result = as, !.cur = 0, !.cutoff = None]
                   /\ UNCHANGED pc
  <2>1. CASE dns.a = None \/ dns.a = << >>
    <3>1. Reachable = {}
      BY <1>3, <1>6, <2>1 DEF Reachable, Allowed, ToSet
    <3> QED  BY <1>1, <1>6, <2>1, <3>1, NoAnswerKeeps
  <2>2. CASE ~(dns.a = None \/ dns.a = << >>)
    <3>1. d' = [d EXCEPT !.result = as, !.cur = 0, !.cutoff = None] /\ UNCHANGED pc
      BY <1>6, <2>2
    <3>2. /\ d'.result = as /\ d'.cutoff = None /\ d'.cur = 0
          /\ DOMAIN d' = DOMAIN NewDeliver /\ d'.ip = d.ip
          /\ d'.retry = d.retry /\ d'.retry_cur = d.retry_cur /\ d'.snet = d.snet
          /\ d'.movement = d.movement
      <4> HIDE DEF as
      <4> QED  BY <1>2, <3>1 DEF NewDeliver
    <3> QED  BY <1>3, <1>4, <1>6, <2>2, <3>1, <3>2 DEF Chain
  <2> QED  BY <2>1, <2>2
<1> QED
  <2>1. \/ hq_status = "DOWN" /\ get_outboud_dns(env)
        \/ /\ hq_status = "PUNT_DOWN" /\ UNCHANGED hq_status
           /\ IF dns.a = None \/ dns.a = << >> THEN Exhausted(d)
              ELSE /\ d' = [d EXCEPT !.result = as, !.cur = 0, !.cutoff = None]
                   /\ UNCHANGED pc
    BY DEF LookupDns
  <2> QED  BY <1>5, <1>6, <2>1

\* Greetings and replies: the connection is kept, or closed and the next address
\* looked for; or the message is left with the host up, or refused.
LEMMA ConnectedKeeps ==
    ASSUME WalkInv, pc \in Connected, UNCHANGED <<dns, queue, tried>>,
           Same(d, d'), d'.retry = d.retry, d'.retry_cur = d.retry_cur, d'.sin = d.sin,
           \/ pc' \in Connected /\ d'.snet
           \/ pc' = "lookup" /\ ~d'.snet
           \/ pc' = "returned" /\ hq_status' \notin {"DOWN", "PUNT_DOWN"}
    PROVE  WalkInv'
<1>1. /\ CursorsIn(d, tried) /\ d.snet /\ d.sin \in tried /\ d.result # None
      /\ Covered(d, tried, {}) /\ tried \subseteq Reachable /\ dns \in Dns
      /\ d.retry_cur = 0 \/ d.ip # None => NotCut(d)
      /\ d.retry_cur # 0 => Through(d, tried)
  BY DEF WalkInv, WalkIs, PlaceIs, TriedIs, Connected, Seeking, Walking,
     Talking
<1>2. CursorsIn(d', tried')
  BY <1>1, SameWalk DEF CursorsIn, Same
<1>3. /\ Covered(d', tried', {}) /\ (Through(d, tried) => Through(d', tried'))
      /\ NotCut(d) => NotCut(d')
  BY <1>1, SameWalk
<1>4. d'.result # None /\ pc' # "connect"
  BY <1>1 DEF Same, Connected, Seeking, Walking, Talking
<1>5. PlaceIs(d', pc', tried')
  BY <1>1, <1>4 DEF PlaceIs, Connected, Seeking, Walking, Talking
<1>6. TriedIs(d', pc', hq_status', tried')
  BY <1>1, <1>4 DEF TriedIs, Connected, Walking, Talking
<1>7. WalkIs(d', pc', hq_status', tried')
  BY <1>1, <1>2, <1>3, <1>4, <1>5, <1>6 DEF WalkIs, Same
<1> QED  BY <1>1, <1>7, WalkFrame

\* smtp_cleanup closes the connection; the cursors stay.
LEMMA CleanupKeeps ==
    ASSUME DeliveryInv, WalkInv, pc \in Connected, UNCHANGED <<dns, queue, tried>>,
           NEW mv, NEW x, x = d \/ x = [d EXCEPT !.movement = mv],
           NEW e, NEW st, smtp_cleanup(x, e, st)
    PROVE  WalkInv'
<1>1. DOMAIN d = DOMAIN NewDeliver
  BY DEF DeliveryInv, TypeInv, DeliverIs
<1>2. /\ Same(d, x) /\ x.retry = d.retry /\ x.retry_cur = d.retry_cur
      /\ x.sin = d.sin /\ DOMAIN x = DOMAIN NewDeliver
  BY <1>1 DEF NewDeliver, Same
<1>3. /\ d' = [x EXCEPT !.snet = FALSE]
      /\ \/ pc' = "lookup"
         \/ pc' = "returned" /\ hq_status' \in {"BOUNCE", "MX"}
  BY DEF smtp_cleanup
<1>4. /\ Same(x, d') /\ d'.retry = x.retry /\ d'.retry_cur = x.retry_cur
      /\ d'.sin = x.sin /\ ~d'.snet
  BY <1>2, <1>3 DEF NewDeliver, Same
<1>5. Same(d, d')
  BY <1>2, <1>4 DEF Same
<1> QED  BY <1>2, <1>3, <1>4, <1>5, ConnectedKeeps

\* The session goes on.
LEMMA StaysConnected ==
    ASSUME WalkInv, pc \in Connected, pc' \in Connected, UNCHANGED <<dns, queue, tried, d>>
    PROVE  WalkInv'
<1>1. d.snet /\ Same(d, d')
  BY DEF WalkInv, WalkIs, PlaceIs, Same
<1> QED  BY <1>1, ConnectedKeeps

\* smtp_send returns: the connection is kept for the next message, or closed.
LEMMA SentWalk ==
    ASSUME DeliveryInv, WalkInv, pc \in Talking, UNCHANGED <<dns, queue, tried>>,
           NEW e, NEW res, Sent(e, res)
    PROVE  WalkInv'
<1> DEFINE moved == e.failed > 0 \/ (e.delivered /\ e.accepted > 0)
           e1    == [e EXCEPT !.movement = @ \/ moved]
           d1    == [d EXCEPT !.movement = @ \/ moved]
<1>1. pc \in Connected /\ hq_status \in {"DOWN", "PUNT_DOWN"}
  BY DEF Connected, DeliveryInv, RemoteInv
<1>2. d1 = [d EXCEPT !.movement = d.movement \/ moved]
  OBVIOUS
<1>3. CASE res = "OK"
  <2>1. /\ pc' = "returned" /\ d' = d1
        /\ hq_status' = IF hq_status = "DOWN" THEN "MX" ELSE "PUNT"
    BY <1>3 DEF Sent
  <2>2. DOMAIN d = DOMAIN NewDeliver
    BY DEF DeliveryInv, TypeInv, DeliverIs
  <2> HIDE DEF moved
  <2>3. /\ Same(d, d') /\ d'.retry = d.retry /\ d'.retry_cur = d.retry_cur
        /\ d'.sin = d.sin
    BY <2>1, <2>2 DEF NewDeliver, Same
  <2> QED  BY <1>1, <2>1, <2>3, ConnectedKeeps
<1>4. CASE res # "OK"
  <2>1. smtp_cleanup(d1, e1, hq_status)
    BY <1>4 DEF Sent
  <2> HIDE DEF moved, e1
  <2> QED  BY <1>1, <2>1, CleanupKeeps
<1> QED  BY <1>3, <1>4

\* Greetings, one case for each reply that is waited for.
LEMMA GreetWalk ==
    ASSUME DeliveryInv, WalkInv, smtp_connect \/ smtp_rset
    PROVE  WalkInv'
<1>1. ASSUME NEW here \in Walking \ Seeking, NEW good,
             NEW next \in SUBSET Connected, Greet(here, good, next)
      PROVE  WalkInv'
  <2>1. pc \in Connected /\ UNCHANGED <<dns, queue, tried>>
    BY <1>1 DEF Greet, ghosts, Connected
  <2>2. \/ pc' \in Connected /\ UNCHANGED d
        \/ \E st : smtp_cleanup(d, env, st)
    <3>1. "helo" \in Connected
      BY DEF Connected, Walking, Seeking
    <3> QED  BY <1>1, <3>1 DEF Greet
  <2> QED  BY <2>1, <2>2, StaysConnected, CleanupKeeps
<1>2. ASSUME Handshake PROVE WalkInv'
  <2>1. pc \in Connected /\ UNCHANGED <<dns, queue, tried>>
    BY <1>2 DEF Handshake, ghosts, Connected, Walking, Seeking
  <2>2. \/ pc' \in Connected /\ UNCHANGED d
        \/ smtp_cleanup(d, env, hq_status)
    BY <1>2 DEF Handshake, Connected, Walking, Seeking
  <2> QED  BY <2>1, <2>2, StaysConnected, CleanupKeeps
<1>3. /\ {"banner", "ehlo", "starttls", "ehlo2", "helo", "rset"} \subseteq Walking \ Seeking
      /\ {"ehlo"} \subseteq Connected /\ {"send", "starttls"} \subseteq Connected
      /\ {"handshake"} \subseteq Connected /\ {"send"} \subseteq Connected
  BY DEF Connected, Walking, Seeking
<1>4. CASE Greet("banner", {"2"}, {"ehlo"})
  BY <1>1, <1>3, <1>4
<1>5. CASE Greet("ehlo", {"2"}, {"send", "starttls"})
  BY <1>1, <1>3, <1>5
<1>6. CASE Greet("starttls", {"2"}, {"handshake"})
  BY <1>1, <1>3, <1>6
<1>7. CASE Greet("ehlo2", {"2"}, {"send"})
  BY <1>1, <1>3, <1>7
<1>8. CASE Greet("helo", {"2"}, {"send"})
  BY <1>1, <1>3, <1>8
<1>9. CASE Greet("rset", {"2"}, {"send"})
  BY <1>1, <1>3, <1>9
<1> QED  BY <1>2, <1>4, <1>5, <1>6, <1>7, <1>8, <1>9 DEF smtp_connect,
    smtp_rset

\* The steps of smtp_send.
LEMMA TalkWalk ==
    ASSUME DeliveryInv, WalkInv,
           smtp_send \/ SendMail \/ SendRcpt \/ SendData \/ TextFails \/ SendEof
    PROVE  WalkInv'
<1>1. /\ UNCHANGED <<dns, queue, tried>> /\ pc \in Connected
      /\ {"mail", "rcpt", "data", "text"} \subseteq Connected
      /\ ~smtp_send => pc \in Talking
  BY DEF smtp_send, SendMail, SendRcpt, SendData, TextFails, SendEof, ghosts,
         Connected, Walking, Seeking, Talking
<1>2. CASE smtp_send
  <2>1. pc' = "mail" /\ UNCHANGED d
    BY <1>2 DEF smtp_send
  <2> QED  BY <1>1, <2>1, StaysConnected
<1>3. CASE pc \in Talking /\ pc' \in Talking /\ UNCHANGED d
  BY <1>1, <1>3, StaysConnected DEF Connected
<1>4. CASE pc \in Talking /\ \E e, res : Sent(e, res)
  BY <1>1, <1>4, SentWalk
<1>5. CASE SendMail
  <2>1. (pc' = "rcpt" /\ UNCHANGED d) \/ \E e, res : Sent(e, res)
    BY <1>5 DEF SendMail, Going
  <2> QED  BY <1>3, <1>4, <1>5, <2>1 DEF SendMail, Talking
<1>6. CASE SendData
  <2>1. (pc' = "text" /\ UNCHANGED d) \/ \E e, res : Sent(e, res)
    BY <1>6 DEF SendData, Going
  <2> QED  BY <1>3, <1>4, <1>6, <2>1 DEF SendData, Talking
<1>7. CASE SendRcpt
  <2>1. (pc' \in {"rcpt", "data"} /\ UNCHANGED d) \/ \E e, res : Sent(e, res)
    BY <1>7 DEF SendRcpt, Going
  <2> QED  BY <1>3, <1>4, <1>7, <2>1 DEF SendRcpt, Talking
<1>8. CASE TextFails \/ SendEof
  <2>1. \E e, res : Sent(e, res)
    BY <1>8 DEF TextFails, SendEof
  <2> QED  BY <1>4, <1>8, <2>1 DEF TextFails, SendEof, Talking
<1> QED  BY <1>2, <1>5, <1>6, <1>7, <1>8

\* Between messages and in local queues the walk stands still.
LEMMA StandsStill ==
    ASSUME WalkInv, UNCHANGED <<dns, queue, d, tried>>,
           pc \notin Walking \union Talking,
           \/ /\ pc' \notin Walking \union Talking /\ UNCHANGED hq_status
           \/ pc' = "rset" /\ d.snet
           \/ pc' = "lookup" /\ ~d.snet /\ hq_status \in {"MX", "PUNT"}
    PROVE  WalkInv'
<1>1. /\ CursorsIn(d, tried) /\ dns \in Dns
      /\ d.result # None => Covered(d, tried, {})
      /\ d.result # None /\ (d.retry_cur = 0 \/ d.ip # None) => NotCut(d)
      /\ d.retry_cur # 0 => Through(d, tried)
      /\ PlaceIs(d, pc, tried) /\ TriedIs(d, pc, hq_status, tried)
  BY DEF WalkInv, WalkIs, Walking, Talking
<1>2. pc' # "connect"
  BY DEF Walking
<1>3. PlaceIs(d', pc', tried')
  BY <1>1 DEF PlaceIs, Connected, Seeking, Walking, Talking
<1>4. TriedIs(d', pc', hq_status', tried')
  <2>1. CASE pc' \notin Walking \union Talking /\ UNCHANGED hq_status
    BY <1>1, <2>1 DEF TriedIs, Walking, Talking
  <2>2. CASE pc' = "rset" /\ d.snet
    BY <1>1, <2>2 DEF TriedIs, PlaceIs, Walking, Talking
  <2>3. CASE pc' = "lookup" /\ hq_status \in {"MX", "PUNT"}
    BY <1>1, <2>3 DEF TriedIs, Walking, Talking
  <2> QED  BY <2>1, <2>2, <2>3
<1>5. WalkIs(d', pc', hq_status', tried')
  BY <1>1, <1>2, <1>3, <1>4 DEF WalkIs
<1> QED  BY <1>1, <1>5, WalkFrame

\* It holds before the first message.
LEMMA WalkInit ==
    Init => WalkInv
<1> SUFFICES ASSUME Init PROVE WalkInv
  OBVIOUS
<1>1. /\ dns \in Dns /\ queue \in {"LOCAL", "MX", "PUNT", "SUPRESSED", "BITBUCKET"}
      /\ hq_status = queue /\ pc = "next" /\ d = NewDeliver /\ tried = {}
  BY DEF Init
<1>2. /\ d.result = None /\ d.ip = None /\ d.retry = << >> /\ d.retry_cur = 0
      /\ ~d.snet /\ ~d.movement
  BY <1>1 DEF NewDeliver
<1>3. CursorsIn(d, tried)
  <2>1. Pending(d) = {}
    BY <1>2 DEF Pending
  <2>2. d.retry \in Seq(tried) /\ d.retry_cur \in 0..Len(d.retry)
    BY <1>2
  <2> QED  BY <1>2, <2>1, <2>2 DEF CursorsIn
<1>4. PlaceIs(d, pc, tried) /\ TriedIs(d, pc, hq_status, tried)
  BY <1>1, <1>2 DEF PlaceIs, TriedIs, Connected, Seeking, Walking, Talking
<1> QED  BY <1>1, <1>2, <1>3, <1>4 DEF WalkInv, WalkIs

\* Every step keeps it, given what DeliveryProofs proves of the runner.
LEMMA WalkNext ==
    ASSUME DeliveryInv, WalkInv, [Next]_vars
    PROVE  WalkInv'
<1>1. CASE StartMessage
  <2>1. /\ UNCHANGED <<dns, queue, d, tried>> /\ pc = "next"
        /\ \/ /\ hq_status \in {"MX", "PUNT"}
              /\ pc' = IF d.snet THEN "rset" ELSE "lookup"
           \/ pc' \in {"local", "returned"} /\ UNCHANGED hq_status
    BY <1>1 DEF StartMessage, ghosts
  <2> QED  BY <2>1, StandsStill DEF Walking, Talking
<1>2. CASE EndMessage
  <2>1. /\ UNCHANGED <<dns, queue, d, tried, hq_status>> /\ pc = "returned"
        /\ pc' \in {"next", "done"}
    BY <1>2 DEF EndMessage, ghosts
  <2> QED  BY <2>1, StandsStill DEF Walking, Talking
<1>3. CASE deliver_local
  <2>1. /\ UNCHANGED <<dns, queue, d, tried, hq_status>> /\ pc = "local"
        /\ pc' \in {"local", "returned"}
    BY <1>3 DEF deliver_local
  <2> QED  BY <2>1, StandsStill DEF Walking, Talking
<1>4. CASE deliver_remote
  BY <1>4, DnsStep, RetryStep, FirstStep, EntryStep, IpStep, ConnectStep,
     GreetWalk,
     TalkWalk DEF deliver_remote
<1>5. CASE UNCHANGED vars
  <2>1. UNCHANGED <<dns, queue, d, tried, hq_status, pc>>
    BY <1>5 DEF vars, ghosts
  <2>2. WalkIs(d', pc', hq_status', tried') /\ dns \in Dns
    BY <2>1 DEF WalkInv
  <2> QED  BY <2>1, <2>2, WalkFrame
<1> QED  BY <1>1, <1>2, <1>3, <1>4, <1>5 DEF Next

---------------------------------------------------------------------------

\* The inductive invariant holds throughout: what is in front of the cursors was
\* tried, and what is behind them may be.
THEOREM WalkInvariant == Spec => []WalkInv
<1>1. DeliveryInv /\ WalkInv /\ [Next]_vars => WalkInv'
  BY WalkNext
<1> QED  BY <1>1, WalkInit, DeliveryInvariant, PTL DEF Spec

(* No host is connected to that is not preferred to us, so mail does not come round,
   whatever the resolver answers, as long as it sorts by preference
   (get_outboud_dns, next_dnsr_host). *)
THEOREM MailMovesOn == Spec => [](tried \subseteq Allowed)
<1>1. WalkInv => tried \subseteq Allowed
  BY DEF WalkInv, WalkIs, TriedIs, Reachable
<1> QED  BY <1>1, WalkInvariant, PTL

(* A host is given up for the rest of the queue only when every address of it was
   tried (next_dnsr_host_lookup, next_dnsr_host), unless an alias of an alias
   without an MX is its name: then get_outboud_dns looks up no A record. *)
THEOREM EveryAddressTried ==
    ASSUME \A x \in Dns : NoChain(x)
    PROVE  Spec => []AddressesTried
<1>1. ASSUME WalkInv PROVE AddressesTried
  <2>1. ~Chain
    BY <1>1 DEF WalkInv, NoChain, Chain, Mx
  <2> QED  BY <1>1, <2>1
           DEF WalkInv, WalkIs, TriedIs, Reachable, AddressesTried, Walking,
               Talking
<1> QED  BY <1>1, WalkInvariant, PTL
=============================================================================
