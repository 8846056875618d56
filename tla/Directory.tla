----------------------------- MODULE Directory -----------------------------
(* The LDAP handle of a queue runner and the searches it makes
   (simta_ldap.c).  The handle is opened by the first lookup, lives as long
   as the process and is shared by all messages it expands; the server may
   close it at any time, answer late, or refuse the bind.  What a search
   finds is given by the module that uses this one. *)
EXTENDS Naturals

CONSTANTS
    NSearch,       \* number of search URIs in simta_ldap.conf
    MaxRetries,    \* MAXRETRIES
    StartTls,      \* ldap_starttls: 0 off, 1 if the server can, 2 required
    MaxFaults      \* bound on what goes wrong with the server

ASSUME DirectoryAssumption ==
    /\ NSearch \in Nat \ {0}
    /\ MaxRetries \in Nat
    /\ StartTls \in 0..2
    /\ MaxFaults \in Nat

VARIABLES
    conn,      \* ldap_ld: NULL, bound, opened but not bound, closed by the server
    faults,    \* what may still go wrong with the server
    ask        \* the lookup in progress

dirVars == <<conn, faults, ask>>

Conns == {"none", "bound", "unbound", "dead"}

\* What a lookup says: LDAP_EXCLUDE after an entry was found ("entry"), after
\* several were ("ambiguous") or after a member was found missing ("absent"),
\* LDAP_NOT_FOUND and LDAP_SYSERROR.
Answers == {"entry", "ambiguous", "absent", "LDAP_NOT_FOUND", "LDAP_SYSERROR"}

NoAsk == [st |-> "off", dn |-> FALSE, lds |-> 0, retrycnt |-> 0, late |-> FALSE,
          blind |-> FALSE]

DirTypeOK ==
    /\ conn \in Conns
    /\ faults \in 0..MaxFaults
    /\ ask \in [st : {"off", "init", "search"} \union Answers, dn : BOOLEAN,
                lds : 0..NSearch, retrycnt : 0..MaxRetries + 1, late : BOOLEAN,
                blind : BOOLEAN]

DirInit(n) ==
    /\ conn = "none"
    /\ faults = n
    /\ ask = NoAsk

\* simta_ldap_expand: open the handle if there is none, then search for the
\* dn, or with every URI in turn for the name.
simta_ldap_expand(dn) ==
    /\ ask.st = "off"
    /\ ask' = [NoAsk EXCEPT !.dn = dn, !.lds = 1,
                            !.st = IF conn = "none" THEN "init" ELSE "search"]
    /\ UNCHANGED <<conn, faults>>

Fault == faults > 0 /\ faults' = faults - 1

Ends(answer) == ask' = [ask EXCEPT !.st = answer]

\* simta_ldap_init: connect, StartTLS, bind.  A failure before the handle
\* exists leaves none; a later one leaves a handle that is not bound, which
\* the next lookup takes for a good one.
simta_ldap_init ==
    /\ ask.st = "init"
    /\ \/ conn' = "bound" /\ Ends("search") /\ UNCHANGED faults
       \/ Fault /\ conn' \in {"none", "unbound"} /\ Ends("LDAP_SYSERROR")

\* StartTLS fails and is not required: unbind and begin again, StartTLS
\* included.
InitWithoutTls ==
    /\ ask.st = "init" /\ StartTls = 1
    /\ Fault
    /\ UNCHANGED <<conn, ask>>

\* The server closes an idle connection.
CloseIdle ==
    /\ ask.st = "search" /\ conn \in {"bound", "unbound"}
    /\ Fault
    /\ conn' = "dead"
    /\ UNCHANGED ask

\* A search is answered with the entries that URI number ask.lds has; a
\* server may show a client that is not bound fewer.
Answered(found) ==
    /\ ask.st = "search" /\ conn \in {"bound", "unbound"}
    /\ \E match \in (IF conn = "bound" THEN {found} ELSE {found, 0}) :
         ask' = [ask EXCEPT
           !.blind = @ \/ conn = "unbound",
           !.st = CASE match = 1 -> "entry"
                    [] match > 1 -> IF ask.dn THEN "entry" ELSE "ambiguous"
                    [] match = 0 /\ ask.dn -> "absent"
                    [] match = 0 /\ ~ask.dn /\ ask.lds < NSearch -> "search"
                    [] OTHER -> "LDAP_NOT_FOUND",
           !.lds = IF match = 0 /\ ~ask.dn /\ ask.lds < NSearch THEN @ + 1 ELSE @]
    /\ UNCHANGED <<conn, faults>>

\* Mutant: a search that ran out of time has simply found nothing.
TimesOutAsNotFound ==
    /\ ask.st = "search" /\ conn \in {"bound", "unbound"}
    /\ Fault
    /\ ask' = [ask EXCEPT !.late = TRUE,
                 !.st = IF ask.dn THEN "absent" ELSE "LDAP_NOT_FOUND"]
    /\ UNCHANGED conn

\* LDAP_TIMELIMIT_EXCEEDED without entries: a temporary failure for a name,
\* a missing member for a dn.
TimesOut ==
    /\ ask.st = "search" /\ conn \in {"bound", "unbound"}
    /\ Fault
    /\ ask' = [ask EXCEPT !.late = TRUE,
                 !.st = IF ask.dn THEN "absent" ELSE "LDAP_SYSERROR"]
    /\ UNCHANGED conn

\* Any other error of the search, or a result that does not parse.
SearchFails ==
    /\ ask.st = "search" /\ conn \in {"bound", "unbound"}
    /\ Fault
    /\ Ends("LDAP_SYSERROR")
    /\ UNCHANGED conn

\* LDAP_SERVER_DOWN in simta_ldap_name_search: reconnect and search again, at
\* most MAXRETRIES times in one lookup.
simta_ldap_retry ==
    /\ ask.st = "search" /\ conn = "dead" /\ ~ask.dn
    /\ ask' = [ask EXCEPT !.retrycnt = @ + 1,
                 !.st = IF ask.retrycnt + 1 > MaxRetries
                        THEN "LDAP_SYSERROR" ELSE "init"]
    /\ conn' = IF ask.retrycnt + 1 > MaxRetries THEN conn ELSE "none"
    /\ UNCHANGED faults

\* LDAP_SERVER_DOWN in simta_ldap_dn_expand: the dead handle is kept.
DnServerDown ==
    /\ ask.st = "search" /\ conn = "dead" /\ ask.dn
    /\ Ends("LDAP_SYSERROR")
    /\ UNCHANGED <<conn, faults>>

\* LDAP_FILTER_ERROR: a name that LDAP does not allow cannot be found.
BadFilter ==
    /\ ask.st = "search" /\ ~ask.dn
    /\ Ends("LDAP_NOT_FOUND")
    /\ UNCHANGED <<conn, faults>>

\* The steps of a lookup of an address that URI i finds found[i] times.
DirStep(found, illegal) ==
    \/ illegal /\ BadFilter
    \/ simta_ldap_init
    \/ InitWithoutTls
    \/ CloseIdle
    \/ ~illegal /\ Answered(found[ask.lds])
    \/ TimesOut
    \/ SearchFails
    \/ simta_ldap_retry
    \/ DnServerDown
=============================================================================
