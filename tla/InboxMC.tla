------------------------------ MODULE InboxMC ------------------------------
(* Small instances of the two sides of the inbox: messages on their way to  *)
(* the provider, and conversations with what customers write.  An outbound  *)
(* message is a row of both, but neither side waits for what the other does *)
(* with it, so a behaviour is one of a single `part`.                       *)
EXTENDS MessagingMC, Conversations

VARIABLE part

InboxInit == part \in {"DISPATCH", "THREADS"} /\ Init /\ ConversationsInit

InboxNext ==
    /\ UNCHANGED part
    /\ \/ part = "DISPATCH" /\ Next /\ UNCHANGED convVars
       \/ part = "THREADS" /\ ConversationsNext /\ UNCHANGED vars

InboxSpec == InboxInit /\ [][InboxNext]_<<part, vars, convVars>>

-----------------------------------------------------------------------------
OneSender == [e \in Inbound |-> CHOOSE c \in Customer : TRUE]
Instants == {[ms |-> 1, us |-> 0], [ms |-> 1, us |-> 1], [ms |-> 2, us |-> 0]}

(* Bounds.  Handlers that race or fail, agents who hand a conversation over *)
(* and agents who write or read it are taken one at a time: a race of       *)
(* handlers needs two messages and no agent, a hand-over needs only that    *)
(* the conversation is open, and one agent reads while messages arrive,     *)
(* which is all that the time of their reception matters to.  An event that *)
(* is claimed again is of a message that was sent once.                     *)
Arrived == {e \in Inbound : receipts[e].status # "NONE"}
Noted == \E m \in Outbound : Kept(m)
Readers == {a \in Agent : reader[a] # NoPage}
Drafts == {a \in Agent : draft[a] # NoDraft}
Assigning ==
    \/ \E a \in Agent : draft[a].step \in {"OPENED", "ASSIGNING"}
    \/ \E c \in Customer : handovers[c] # <<>>
Racing ==
    \/ \E g, h \in Handler : g # h /\ desk[g] # AtRest /\ desk[h] # AtRest
    \/ \E h \in Handler : desk[h].step \in {"UNIQUE", "ERROR"}
    \/ \E e \in Arrived :
         \/ receipts[e].attempts > 1 \/ receipts[e].status \in {"FAILED", "DEAD_LETTER", "DUPLICATE"}
         \/ receipts[e].status = "PROCESSING" /\ \A h \in Handler : desk[h].event # e
ReadBySomeone ==
    \E c \in Customer : threads[c].unread < Cardinality({i \in Received(c) : timeline[i].kind = "INBOUND"})

Timed == \E i \in DOMAIN timeline : timeline[i].received # [ms |-> 1, us |-> 0]

Repeated == \E e \in Event : webhook[e] # NoWebhook /\ webhook[e].attempts > 1

ConversationsBound ==
    /\ Repeated => \A m \in Message : outbox[m].attempts <= 1
    /\ Racing \/ ReadBySomeone => hour = 0 /\ ~Noted /\ Readers \cup Drafts = {} /\ ~Assigning
    /\ Racing => ~ReadBySomeone /\ Cardinality(Arrived) <= 2
    /\ Assigning => hour = 0 /\ ~Noted /\ Cardinality(Arrived) <= 1 /\ Readers = {}
    /\ Assigning \/ Cardinality(Drafts) <= 1
    /\ Assigning => \A a \in Drafts : draft[a].step # "CHECKED"
    /\ Readers # {} => Drafts = {} /\ Cardinality(Readers) = 1
    /\ Timed => /\ hour = MaxHour /\ Drafts = {} /\ ~Racing /\ ~ReadBySomeone /\ ~Assigning /\ ~Noted
                /\ \A c \in Customer : threads[c].owner = None
                /\ Cardinality({e \in Arrived : ~Kept(e)}) <= 1
=============================================================================
