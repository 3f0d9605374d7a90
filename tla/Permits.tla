------------------------------ MODULE Permits ------------------------------
(* How many sends to a provider are under way at once:                       *)
(* withOutboundPermit of                                                     *)
(* src/apps/api/src/messaging/messaging-rate-limiter.ts.  A send needs a     *)
(* permit of its provider and one of its tenant; each is taken from a map of *)
(* the process first and then from a sorted set in Redis, by a script.  Redis*)
(* may be down, or run the script and lose the answer: the process then goes *)
(* on with its own permit alone.  A permit is a lease.  The budget of sends  *)
(* per minute, checked before, leaves nothing the permits read.              *)
EXTENDS Integers, FiniteSets

CONSTANTS
    Send,           \* sends; each asks for its permits once
    Process,
    ProcessOf,      \* [Send -> Process]
    Bucket,         \* "provider" and one bucket for each tenant
    TenantOf,       \* [Send -> Bucket]
    Limit,          \* [Bucket -> Nat]: OUTBOUND_..._CONCURRENCY
    Lease,          \* OUTBOUND_CONCURRENCY_LEASE_MS
    LeaseEnd        \* bound on time

ASSUME PermitsAssumption ==
    /\ IsFiniteSet(Send)
    /\ ProcessOf \in [Send -> Process]
    /\ "provider" \in Bucket
    /\ TenantOf \in [Send -> Bucket \ {"provider"}]
    /\ Limit \in [Bucket -> Nat \ {0}]
    /\ {Lease, LeaseEnd} \subseteq Nat \ {0}

VARIABLES
    leaseTime,
    own,            \* localConcurrency: bucket -> send -> end of its lease in its process, or 0
    shared,         \* the sorted sets in Redis: bucket -> send -> end of its lease, or 0
    sends,          \* send -> where its call is
    orphaned        \* history: permits Redis holds without the process knowing it must give them back

permitVars == <<leaseTime, own, shared, sends, orphaned>>

-----------------------------------------------------------------------------
(* "ASKED": its process has granted permit `bucket` and asks Redis for it.   *)
(* `permits` are those it will give back, `distributed` those among them     *)
(* that Redis is known to have granted.                                      *)
NewSend == [at |-> "NEW", bucket |-> "provider", permits |-> {}, distributed |-> {}]

PermitsTypeOK ==
    /\ leaseTime \in 1 .. LeaseEnd
    /\ own \in [Bucket -> [Send -> 0 .. LeaseEnd + Lease]]
    /\ shared \in [Bucket -> [Send -> 0 .. LeaseEnd + Lease]]
    /\ sends \in [Send -> [at : {"NEW", "ASKED", "NEXT", "SENDING", "RELEASING", "DONE"},
                           bucket : Bucket, permits : SUBSET Bucket, distributed : SUBSET Bucket]]
    /\ orphaned \in SUBSET (Bucket \X Send)

PermitsInit ==
    /\ leaseTime = 1
    /\ own = [b \in Bucket |-> [s \in Send |-> 0]]
    /\ shared = [b \in Bucket |-> [s \in Send |-> 0]]
    /\ sends = [s \in Send |-> NewSend]
    /\ orphaned = {}

-----------------------------------------------------------------------------
Colleagues(s) == {t \in Send : ProcessOf[t] = ProcessOf[s]}

(* Leases that are over are dropped when the next permit is asked for.       *)
Live(held, among) == {t \in among : held[t] > leaseTime}
Full(b, held, among) == Cardinality(Live(held, among)) >= Limit[b]
Granted(held, among, s) ==
    [t \in Send |->
        CASE t = s -> leaseTime + Lease
          [] t # s /\ t \in among /\ held[t] <= leaseTime -> 0
          [] OTHER -> held[t]]

(* acquireLocal, and the request to Redis goes out; the process is full and  *)
(* the send fails, giving back what it has.                                  *)
acquireLocal(s, b) ==
    IF Full(b, own[b], Colleagues(s))
    THEN /\ own' = [own EXCEPT ![b] = [t \in Send |->
                        IF t \in Colleagues(s) /\ @[t] <= leaseTime THEN 0 ELSE @[t]]]
         /\ sends' = [sends EXCEPT ![s].at = "RELEASING"]
    ELSE /\ own' = [own EXCEPT ![b] = Granted(@, Colleagues(s), s)]
         /\ sends' = [sends EXCEPT ![s].at = "ASKED", ![s].bucket = b]

withOutboundPermit(s) ==
    /\ sends[s].at = "NEW"
    /\ acquireLocal(s, "provider")
    /\ UNCHANGED <<leaseTime, shared, orphaned>>

SecondPermit(s) ==
    /\ sends[s].at = "NEXT"
    /\ acquireLocal(s, TenantOf[s])
    /\ UNCHANGED <<leaseTime, shared, orphaned>>

(* The send has the permit: it asks for the next or calls the provider.     *)
Acquired(s, known) ==
    sends' = [sends EXCEPT ![s] =
        [at |-> IF @.bucket = "provider" THEN "NEXT" ELSE "SENDING",
         bucket |-> @.bucket,
         permits |-> @.permits \cup {@.bucket},
         distributed |-> IF known THEN @.distributed \cup {@.bucket} ELSE @.distributed]]

(* The script runs in Redis and its answer arrives.                          *)
acquireConcurrency(s) ==
    LET b == sends[s].bucket
    IN  /\ sends[s].at = "ASKED"
        /\ IF Full(b, shared[b], Send)
           THEN /\ own' = [own EXCEPT ![b][s] = 0]
                /\ sends' = [sends EXCEPT ![s].at = "RELEASING"]
                /\ shared' = [shared EXCEPT ![b] =
                     [t \in Send |-> IF @[t] <= leaseTime THEN 0 ELSE @[t]]]
           ELSE /\ shared' = [shared EXCEPT ![b] = Granted(@, Send, s)]
                /\ Acquired(s, TRUE)
                /\ UNCHANGED own
        /\ UNCHANGED <<leaseTime, orphaned>>

(* Redis cannot be reached, or its answer is lost after the script ran.     *)
RedisFails(s) ==
    /\ sends[s].at = "ASKED"
    /\ Acquired(s, FALSE)
    /\ UNCHANGED <<leaseTime, own, shared, orphaned>>

RedisAnswerLost(s) ==
    LET b == sends[s].bucket
    IN  /\ sends[s].at = "ASKED"
        /\ ~Full(b, shared[b], Send)
        /\ shared' = [shared EXCEPT ![b] = Granted(@, Send, s)]
        /\ orphaned' = orphaned \cup {<<b, s>>}
        /\ Acquired(s, FALSE)
        /\ UNCHANGED <<leaseTime, own>>

(* The provider has answered, or has failed.                                 *)
Sent(s) ==
    /\ sends[s].at = "SENDING"
    /\ sends' = [sends EXCEPT ![s].at = "RELEASING"]
    /\ UNCHANGED <<leaseTime, own, shared, orphaned>>

(* Every permit the send has is given back, to the process and to Redis; a  *)
(* failure of Redis is ignored.                                              *)
FaultyToRelease(s) == sends[s].permits \cap {sends[s].bucket}
ToRelease(s) == sends[s].permits

releasePermit(s) ==
    /\ sends[s].at = "RELEASING"
    /\ own' = [b \in Bucket |-> IF b \in ToRelease(s) THEN [own[b] EXCEPT ![s] = 0] ELSE own[b]]
    /\ \E reached \in SUBSET (ToRelease(s) \cap sends[s].distributed) :
         /\ shared' = [b \in Bucket |->
                IF b \in reached THEN [shared[b] EXCEPT ![s] = 0] ELSE shared[b]]
         /\ orphaned' = orphaned \cup
                {<<b, s>> : b \in (ToRelease(s) \cap sends[s].distributed) \ reached}
    /\ sends' = [sends EXCEPT ![s] = [NewSend EXCEPT !.at = "DONE"]]
    /\ UNCHANGED leaseTime

LeaseTick ==
    /\ leaseTime < LeaseEnd
    /\ leaseTime' = leaseTime + 1
    /\ UNCHANGED <<own, shared, sends, orphaned>>

-----------------------------------------------------------------------------
PermitsNext ==
    \/ LeaseTick
    \/ \E s \in Send :
         \/ withOutboundPermit(s) \/ SecondPermit(s) \/ acquireConcurrency(s)
         \/ RedisFails(s) \/ RedisAnswerLost(s) \/ Sent(s) \/ releasePermit(s)

PermitsSpec == PermitsInit /\ [][PermitsNext]_permitVars

-----------------------------------------------------------------------------
(* Among the sends under way whose leases run, those that have Redis' word   *)
(* are within the limit of every bucket, and those of one process are even   *)
(* while Redis is down; and a permit that runs without a send has been left  *)
(* behind only by an answer of Redis that was lost or a release that failed. *)
(* (withOutboundPermit, acquirePermit, releasePermit)                        *)
PermitsWithinLimit ==
    LET sending(b) == {s \in Send : sends[s].at = "SENDING" /\ b \in sends[s].permits}
    IN  \A b \in Bucket :
          /\ Cardinality(Live(shared[b], {s \in sending(b) : b \in sends[s].distributed}))
               <= Limit[b]
          /\ \A p \in Process :
               Cardinality(Live(own[b], {s \in sending(b) : ProcessOf[s] = p})) <= Limit[b]
          /\ \A s \in Live(shared[b], Send) :
               sends[s].at = "DONE" => <<b, s>> \in orphaned
          /\ \A s \in Live(own[b], Send) : sends[s].at # "DONE"
=============================================================================
