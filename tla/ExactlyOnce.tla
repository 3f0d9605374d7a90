---------------------------- MODULE ExactlyOnce ----------------------------
(***************************************************************************)
(* What an idempotency key promises the person who issued a command: the   *)
(* command takes effect at most once, and who is told that it is done has  *)
(* been told the truth.  The mobile screens say so in as many words:       *)
(* "Saved safely for exactly-once replay."                                 *)
(* (apps/mobile/src/screens/mobile-test-ride-detail-screen.tsx).           *)
(***************************************************************************)
EXTENDS Naturals

CONSTANT Op                \* commands, each with a key of its own

VARIABLES effects,         \* how often a command took effect
          told             \* what its issuer has been told

Init ==
    /\ effects = [o \in Op |-> 0]
    /\ told = [o \in Op |-> "WAITING"]

TakeEffect(o) ==
    /\ effects[o] = 0
    /\ effects' = [effects EXCEPT ![o] = 1]
    /\ UNCHANGED told

(* "DONE" is told only of a command that took effect, and is the last word. *)
Tell(o, news) ==
    /\ told[o] # "DONE"
    /\ news = "DONE" => effects[o] = 1
    /\ told' = [told EXCEPT ![o] = news]
    /\ UNCHANGED effects

Next == \E o \in Op : TakeEffect(o) \/ \E news \in {"WAITING", "CONFLICT", "DONE"} : Tell(o, news)

Spec == Init /\ [][Next]_<<effects, told>>
=============================================================================
