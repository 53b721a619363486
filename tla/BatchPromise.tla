---------------------------- MODULE BatchPromise -----------------------------
(***************************************************************************)
(* What a batch of operations promises to the clients that share it: the   *)
(* operations reach the model in their order, each of them once; what a    *)
(* client is told is so; and what is over stays over, but for operations   *)
(* that were on their way.  All but the "once" holds also when two clients *)
(* get in each other's way, or the service cannot keep its record.         *)
(***************************************************************************)
EXTENDS Naturals

CONSTANTS Ops,      \* numbers: the operations, in their order
          Clients

VARIABLES landed,   \* how often the model took each operation (2: or more)
          dirty,    \* operations that failed, of which it keeps a part
          refused,  \* operations that were refused
          late,     \* operations on their way that nobody waits for
          told,     \* the last answer of each client
          clean,    \* clients came one at a time, and all was recorded
          over      \* nobody is at work on the batch, and nobody will be

batch == <<landed, dirty, refused, late, told, clean, over>>

Done(i) == landed[i] > 0 \/ i \in refused
Turn(i) == \A j \in Ops : j < i => Done(j)
Unlanded == late = {} /\ \A i \in Ops : landed[i] = 0

\* left: it failed, and something of the operation it failed with stays.
\* unknown: it failed with an operation that may have landed, or may land.
Stops == {"succeeded", "partial", "failed", "left", "unknown", "abandoned"}
Answers == Stops \union {"none", "validated", "chunked", "no_journal", "mismatch",
                         "not_resumable", "nothing_to_continue"}

PromiseInit ==
    /\ landed = [i \in Ops |-> 0]
    /\ dirty = {} /\ refused = {} /\ late = {}
    /\ told = [c \in Clients |-> "none"]
    /\ clean = TRUE /\ over = FALSE

\* In its turn; once; and when it is over, only what was on its way.
Land(i) ==
    /\ Turn(i) /\ (clean => landed[i] = 0) /\ (over => i \in late)
    /\ landed' = [landed EXCEPT ![i] = IF @ = 0 THEN 1 ELSE 2]
    /\ late' \in {late, late \ {i}}
    /\ UNCHANGED <<dirty, refused, told, clean, over>>

Soil(i) ==
    /\ Turn(i) /\ ~over
    /\ dirty' = dirty \union {i}
    /\ UNCHANGED <<landed, refused, late, told, clean, over>>

Refuse(i) ==
    /\ Turn(i) /\ ~over
    /\ refused' = refused \union {i}
    /\ UNCHANGED <<landed, dirty, late, told, clean, over>>

\* Their sender gives up on them, or dies.
Strand ==
    /\ ~over /\ over' \in BOOLEAN
    /\ \E S \in SUBSET {i \in Ops : Turn(i)} : late' = late \union S
    /\ UNCHANGED <<landed, dirty, refused, told, clean>>

\* A client is told how it stands, or "none" when it is at work.
Tell(c, answer) ==
    /\ answer = "succeeded" => \A i \in Ops : Done(i)
    /\ answer = "failed" => Unlanded /\ dirty = {} /\ over'
    /\ answer = "left" => Unlanded /\ (\E i \in Ops : dirty = {i}) /\ over'
    /\ answer = "chunked" => \E i \in Ops : landed[i] > 0
    /\ answer \in Stops /\ clean' => over'
    /\ told' = [told EXCEPT ![c] = answer]
    /\ clean' \in {clean, FALSE} /\ over' \in {over, TRUE}
    /\ UNCHANGED <<landed, dirty, refused, late>>

\* The record is lost: with it, perhaps, the way to go on.
Lose ==
    /\ clean' \in {clean, FALSE} /\ over' \in {over, TRUE}
    /\ UNCHANGED <<landed, dirty, refused, late, told>>

PromiseNext ==
    \/ \E i \in Ops : Land(i) \/ Soil(i) \/ Refuse(i)
    \/ Strand \/ Lose
    \/ \E c \in Clients, answer \in Answers : Tell(c, answer)

PromiseSpec == PromiseInit /\ [][PromiseNext]_batch
==============================================================================
