------------------------------ MODULE Delivery ------------------------------
(***************************************************************************)
(* What a client is promised of its jobs, without requests, children, rows *)
(* and messages: a job is submitted once, is open from then on while its   *)
(* task may still run, and is closed only when it has succeeded or ended   *)
(* otherwise.  Nothing happens to a job that is closed, and an answer is   *)
(* given only about a job that was submitted.                              *)
(***************************************************************************)
EXTENDS Naturals

CONSTANTS Jobs, Keys, Ends,   \* the jobs, their keys, and the ends other than success
          None                \* no key

VARIABLES keyOf,     \* the key under which each job was submitted, if it was
          open,      \* jobs whose task may still run
          effects,   \* how many times a task succeeded under each key
          fates,     \* the other ends each job came to
          answered   \* jobs that a client was told of

vars == <<keyOf, open, effects, fates, answered>>

Init == /\ keyOf = [j \in Jobs |-> None]
        /\ open = {}
        /\ effects = [key \in Keys |-> 0]
        /\ fates = [j \in Jobs |-> {}]
        /\ answered = {}

Submit(j, key) == /\ keyOf[j] = None
                  /\ keyOf' = [keyOf EXCEPT ![j] = key]
                  /\ open' = open \cup {j}
                  /\ UNCHANGED <<effects, fates, answered>>

Answer(j) == /\ keyOf[j] # None
             /\ answered' = answered \cup {j}
             /\ UNCHANGED <<keyOf, open, effects, fates>>

Succeed(j) == /\ j \in open
              /\ effects' = [effects EXCEPT ![keyOf[j]] = @ + 1]
              /\ UNCHANGED <<keyOf, open, fates, answered>>

\* The job may be closed by its end, or go on: a duplicate of its message is left.
End(j, fate) == /\ j \in open
                /\ fates' = [fates EXCEPT ![j] = @ \cup {fate}]
                /\ open' \in {open, open \ {j}}
                /\ UNCHANGED <<keyOf, effects, answered>>

\* A restart of the worker closes several at once.
Close(js) == /\ js \subseteq open
             /\ \A j \in js : effects[keyOf[j]] > 0 \/ fates[j] # {}
             /\ open' = open \ js
             /\ UNCHANGED <<keyOf, effects, fates, answered>>

Next == \/ \E j \in Jobs : \/ \E key \in Keys : Submit(j, key)
                           \/ \E fate \in Ends : End(j, fate)
                           \/ Answer(j) \/ Succeed(j)
        \/ \E js \in SUBSET open : Close(js)

Spec == Init /\ [][Next]_vars
=============================================================================
