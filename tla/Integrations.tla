---------------------------- MODULE Integrations -----------------------------
(***************************************************************************)
(* The integration centre: integrations.service.ts.                        *)
(*                                                                         *)
(* Connections to providers, the onboarding checklist, creative assets and *)
(* transcript suggestions that a person reviews.  Every command is one     *)
(* statement that writes a row and, outside any transaction, a second one  *)
(* that tells of it in audit_events; the process may die between the two,  *)
(* and two commands may tell in the other order than they wrote.           *)
(***************************************************************************)
EXTENDS Naturals, Sequences

CONSTANTS
    Provider,       \* connections, one of a provider
    ChecklistItem,  \* ONBOARDING_ITEMS
    Asset,          \* generated creative assets
    Recording,      \* recordings, each with one transcript suggestion at most
    Manager,        \* requests
    MaxTold         \* events of a row

Entity == Provider \cup ChecklistItem \cup Asset \cup Recording

ASSUME IntegrationsAssumption ==
    /\ MaxTold \in Nat
    /\ Provider \cap (ChecklistItem \cup Asset \cup Recording) = {}
    /\ ChecklistItem \cap (Asset \cup Recording) = {}
    /\ Asset \cap Recording = {}

VARIABLES
    centre,     \* the status of the rows
    telling,    \* what a request has written and not told of yet
    told,       \* audit_events: the status that each event of a row tells of
    untold,     \* rows with a change whose request died before it told of it
    overtaken   \* rows written by a request while another had not told of its write

centreVars == <<centre, telling, told, untold, overtaken>>

-----------------------------------------------------------------------------
Decision == {"APPROVED", "REJECTED", "ACCEPTED"}
Stand == {"NONE", "PENDING_APPROVAL", "DISCONNECTED", "COMPLETE", "OPEN",
          "MODERATION_PENDING", "REVIEW_PENDING"} \cup Decision
Done == [row |-> "NONE"]

CentreTypeOK ==
    /\ centre \in [Entity -> Stand]
    /\ telling \in [Manager -> {Done} \cup [row: Entity, as: Stand]]
    /\ told \in [Entity -> Seq(Stand)]
    /\ untold \subseteq Entity /\ overtaken \subseteq Entity

CentreInit ==
    /\ centre = [e \in Entity |-> "NONE"]
    /\ telling = [w \in Manager |-> Done]
    /\ told = [e \in Entity |-> <<>>]
    /\ untold = {} /\ overtaken = {}

-----------------------------------------------------------------------------
BeingTold(e) == \E w \in Manager : telling[w] # Done /\ telling[w].row = e

(* A command's statement, atomic by itself. *)
Write(w, e, s) ==
    /\ telling[w] = Done
    /\ Len(told[e]) < MaxTold
    /\ centre' = [centre EXCEPT ![e] = s]
    /\ telling' = [telling EXCEPT ![w] = [row |-> e, as |-> s]]
    /\ overtaken' = IF BeingTold(e) THEN overtaken \cup {e} ELSE overtaken
    /\ UNCHANGED <<told, untold>>

(* Configuring again makes a disconnected provider pending.                  *)
connect(w, p) == Write(w, p, "PENDING_APPROVAL")

disconnect(w, p) == centre[p] # "NONE" /\ Write(w, p, "DISCONNECTED")

(* An item is ticked and unticked. *)
updateOnboarding(w, i) == \E s \in {"COMPLETE", "OPEN"} : Write(w, i, s)

requestCreative(w, a) == centre[a] = "NONE" /\ Write(w, a, "MODERATION_PENDING")

(* Provider generation and moderation. *)
Moderated(a) ==
    /\ centre[a] = "MODERATION_PENDING"
    /\ centre' = [centre EXCEPT ![a] = "REVIEW_PENDING"]
    /\ UNCHANGED <<telling, told, untold, overtaken>>

(* Whoever reviews. *)
FaultyReviewCreative(w, a) ==
    \E s \in {"APPROVED", "REJECTED"} :
        centre[a] \in {"REVIEW_PENDING", "APPROVED", "REJECTED"} /\ Write(w, a, s)

(* One statement asks for the status and sets it. *)
reviewCreative(w, a) ==
    \E s \in {"APPROVED", "REJECTED"} : centre[a] = "REVIEW_PENDING" /\ Write(w, a, s)

(* A recording has one suggestion: onConflictDoNothing. *)
createTranscriptSuggestion(w, r) == centre[r] = "NONE" /\ Write(w, r, "REVIEW_PENDING")

reviewTranscriptSuggestion(w, r) ==
    \E s \in {"ACCEPTED", "REJECTED"} : centre[r] = "REVIEW_PENDING" /\ Write(w, r, s)

(* The second statement. *)
audit(w) ==
    /\ telling[w] # Done
    /\ told' = [told EXCEPT ![telling[w].row] = Append(@, telling[w].as)]
    /\ telling' = [telling EXCEPT ![w] = Done]
    /\ UNCHANGED <<centre, untold, overtaken>>

Dies(w) ==
    /\ telling[w] # Done
    /\ untold' = untold \cup {telling[w].row}
    /\ telling' = [telling EXCEPT ![w] = Done]
    /\ UNCHANGED <<centre, told, overtaken>>

CentreNext ==
    \/ \E w \in Manager :
          \/ \E p \in Provider : connect(w, p) \/ disconnect(w, p)
          \/ \E i \in ChecklistItem : updateOnboarding(w, i)
          \/ \E a \in Asset : requestCreative(w, a) \/ reviewCreative(w, a)
          \/ \E r \in Recording :
                createTranscriptSuggestion(w, r) \/ reviewTranscriptSuggestion(w, r)
          \/ audit(w) \/ Dies(w)
    \/ \E a \in Asset : Moderated(a)

CentreSpec == CentreInit /\ [][CentreNext]_centreVars

-----------------------------------------------------------------------------
(* What a person decided stands: it is decided once, whoever reviews at the  *)
(* same time, and every event that tells of a decision tells of this one.    *)
DecidedOnce ==
    \A e \in Asset \cup Recording : \A i \in DOMAIN told[e] :
        told[e][i] \in Decision =>
            /\ told[e][i] = centre[e]
            /\ \A j \in DOMAIN told[e] : told[e][j] \in Decision => i = j

LastOf(s) == s[Len(s)]

(* Where no command overtook another and none died, the last event tells of  *)
(* the row as it is, or as it was before its moderation.                     *)
LastTold ==
    \A e \in Entity \ (untold \cup overtaken) :
        centre[e] # "NONE" /\ ~BeingTold(e) =>
            /\ told[e] # <<>>
            /\ \/ LastOf(told[e]) = centre[e]
               \/ e \in Asset /\ centre[e] = "REVIEW_PENDING" /\ LastOf(told[e]) = "MODERATION_PENDING"

(* The audit events of the integration centre tell what became of a row,     *)
(* although they are written outside the transaction of the command.         *)
CentreIsAudited == DecidedOnce /\ LastTold
=============================================================================
