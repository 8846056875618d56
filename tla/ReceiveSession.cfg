SPECIFICATION Spec
CONSTANTS
    MaxMail = 2
    MaxFailedRcpts = 2
    MaxFaults = 1
    Killable = TRUE
    Confs <- MCConfs
    FilterResults <- MCFilterResults
INVARIANTS AnsweredIsKept RefusedIsGone AuthBeforeAccept TlsStartsAfresh EhloWellFormed DigestOwn
PROPERTIES PunishedForGood AllRun
