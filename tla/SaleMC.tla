------------------------------ MODULE SaleMC -------------------------------
(* Small instances of the parts of a sale that share no row: the ledger,    *)
(* the booking's file, the registration case and the lists that show the    *)
(* rows.  They never read or wait for each other, so interleaving two of    *)
(* them shows nothing that each does not show alone: a behaviour is one of  *)
(* a single `part`.                                                         *)
EXTENDS BookingLedgerMC, BookingFile, Registration, ListsMC

VARIABLE part

SaleInit ==
    /\ part \in {"LEDGER", "FILE", "REGISTRATION", "LISTS", "REPORTS"}
    /\ LedgerInit /\ FileInit /\ RegistrationInit /\ ListsInit /\ ReportsInit
    \* one initial state is enough of a part that rests
    /\ part # "LISTS" => kind = "LEADS"
    /\ part \notin {"LISTS", "REPORTS"} => context = Manager

SaleNext ==
    /\ UNCHANGED part
    /\ \/ part = "LEDGER" /\ LedgerNext /\ UNCHANGED <<fileVars, caseVars, listVars, reportVars>>
       \/ part = "FILE" /\ FileNext /\ UNCHANGED <<ledgerVars, caseVars, listVars, reportVars>>
       \/ part = "REGISTRATION" /\ RegistrationNext /\ UNCHANGED <<ledgerVars, fileVars, listVars, reportVars>>
       \/ part = "LISTS" /\ ListsNext /\ UNCHANGED <<ledgerVars, fileVars, caseVars, reportVars>>
       \/ part = "REPORTS" /\ ReportsNext /\ UNCHANGED <<ledgerVars, fileVars, caseVars>>

SaleSpec == SaleInit /\ [][SaleNext]_<<part, ledgerVars, fileVars, caseVars, listVars, reportVars>>

-----------------------------------------------------------------------------
AllItems == Item

(* Bounds.  A booking's exchange case goes through its file on its own:     *)
(* nothing else reads it.                                                   *)
FileBound == (\E x \in TradeIn : tradeIns[x] # NoRow) => \A p \in Paper : papers[p] = NoRow

(* Every vehicle is written twice at most, the external one while there is  *)
(* no case, and a case takes one command more than its status needs.        *)
Stage ==
    [DOCUMENTS_READY |-> 1, REGISTRATION_STARTED |-> 2, RTO_SUBMITTED |-> 3,
     NUMBER_ALLOTTED |-> 4, RC_PENDING |-> 4, RC_RECEIVED |-> 5,
     RC_SHARED_COLLECTED |-> 6, CASE_CLOSED |-> 7, REOPENED |-> 8]
CaseBound ==
    /\ \A v \in Case \cup ExternalCar : cars[v].version <= 2
    /\ \A v \in ExternalCar : cars[v] # NoCar => \A c \in Case : cases[c] = NoCase
    /\ delivered # {} => \A d \in Copy : copies[d] = NoCopy
    /\ \A c \in Case : cases[c] # NoCase => cases[c].version <= Stage[cases[c].status] + 1

Bounds ==
    /\ FileBound /\ CaseBound
    /\ part = "LISTS" => ListsBound
    /\ part = "REPORTS" => ReportsBound

(* The configuration gives the rows of the parts the same two model   *)
(* values, and their callers another two: they are permuted together.       *)
SaleSymmetry == RowSymmetry
=============================================================================
