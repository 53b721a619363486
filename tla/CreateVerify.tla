---------------------------- MODULE CreateVerify -----------------------------
(***************************************************************************)
(* Creating a node through the bridge (service/core.py):                   *)
(* _create_with_verify and the composite bridge_add_bound_widget, with its *)
(* rollback through bridge_delete_node.                                    *)
(*                                                                         *)
(* All calls are about one path.  A create is POSTed once; when its answer *)
(* is lost the path is read back, and a timeout that the reads could not   *)
(* settle is remembered, so that a later name_exists can be told from a    *)
(* genuine duplicate.  The bridge accepts one connection at a time and     *)
(* answers it before the next one: queue holds the requests in that order, *)
(* also those whose client has given up, which it serves all the same.     *)
(*                                                                         *)
(* A read or a set that is given up on has no effect worth keeping and     *)
(* leaves the queue.  The sets of a composite repeat: there are five of    *)
(* them and a bind, each idempotent.                                       *)
(***************************************************************************)
EXTENDS Integers, Sequences, FiniteSets, SequencesExt

CONSTANTS
    Callers,       \* worker threads that run a call
    Studio,        \* the user of Studio; not a caller
    Classes,       \* node classes that a create can ask for, one operation each
    Attempts,      \* CREATE_VERIFY_ATTEMPTS: reads after a lost answer
    MaxLate,       \* bound: requests that nobody waits for when a call begins
    MaxEvents      \* bound: changes by the user of Studio, restarts of the service

ASSUME CreateAssumption ==
    /\ Studio \notin Callers
    /\ Attempts \in Nat \ {0}
    /\ MaxLate \in Nat /\ MaxEvents \in Nat

VARIABLES
    node,          \* the node at the path, with its creator
    queue,         \* the bridge's connections, oldest first
    remembered,    \* _RECENT_CREATE_TIMEOUTS, by operation
    call,          \* per caller: the call in progress
    answer,        \* the answer that the last step gave, if it gave one
    overlap,       \* history: a call came while another caller had requests out
    events         \* changes by the user of Studio and restarts so far

vars == <<node, queue, remembered, call, answer, overlap, events>>

(* Of a node and of a create: was tells whether it belongs to the call in   *)
(* progress ("now"), to a call that ended in an unsettled timeout which is  *)
(* still remembered ("lost"), to a call that ended with any other answer    *)
(* ("done"), or to anything before ("past").                                *)
Ages    == {"now", "lost", "done", "past"}
Nodes   == [by : Callers \cup {Studio}, class : Classes, was : Ages]
NoNode  == [by |-> Studio, class |-> "none", was |-> "past"]
Ops     == {"create", "read", "set", "delete"}
Requests == [by : Callers, op : Ops, class : Classes, was : Ages, waits : BOOLEAN]
Pcs     == {"idle", "create", "read", "set", "delete", "check", "redelete"}
Whys    == {"none", "timeout", "unreachable", "exists"}
Calls   == [pc : Pcs, class : Classes \cup {"none"}, composite : BOOLEAN, why : Whys, reads : Nat,
            landed : Nat]
Answers == {"created", "verified", "exists", "other", "timeout", "unreachable",
            "failed", "configured", "rolled_back", "orphaned", "loading"}

Silence == [to |-> Studio, what |-> "nothing"]

Idle == [pc |-> "idle", class |-> "none", composite |-> FALSE,
         why |-> "none", reads |-> 0, landed |-> 0]

Init ==
    /\ node = NoNode
    /\ queue = <<>>
    /\ remembered = {}
    /\ call = [c \in Callers |-> Idle]
    /\ answer = Silence
    /\ overlap = FALSE
    /\ events = 0

------------------------------------------------------------------------------
(* The queue.                                                              *)

Request(c, op, class) ==
    [by |-> c, op |-> op, class |-> class, waits |-> TRUE,
     was |-> IF op = "create" THEN "now" ELSE "past"]

\* The oldest connection is caller c's, which awaits the answer at pc.
Serving(c, pc) ==
    /\ call[c].pc = pc
    /\ queue # <<>> /\ Head(queue).by = c /\ Head(queue).waits

\* The connections whose client has closed its end.
Abandoned == {i \in DOMAIN queue : ~queue[i].waits}

\* Where the request is whose answer caller c awaits.
Awaited(c) == CHOOSE i \in DOMAIN queue : queue[i].by = c /\ queue[i].waits

\* Caller c's request never got through, or does nothing worth keeping.
Without(c) == RemoveAt(queue, Awaited(c))

\* Caller c gives up: the request stays where it is.
Left(c) == [i \in DOMAIN queue |->
                IF queue[i].by = c THEN [queue[i] EXCEPT !.waits = FALSE] ELSE queue[i]]

Created(c, class, was) == [by |-> c, class |-> class, was |-> was]

------------------------------------------------------------------------------
(* How a call goes on and ends.                                            *)

\* The call of c goes on at pc and sends a request behind the queue q.
Sends(c, pc, op, q) ==
    /\ call' = [call EXCEPT ![c].pc = pc]
    /\ queue' = Append(q, Request(c, op, call[c].class))
    /\ answer' = Silence

\* _read_node, n polls.
ReadsBack(c, why, n, q) ==
    /\ call' = [call EXCEPT ![c].pc = "read", ![c].why = why, ![c].reads = n]
    /\ queue' = Append(q, Request(c, "read", call[c].class))
    /\ answer' = Silence

Aged(x, c, was) == IF x.by = c /\ x.was = "now" THEN [x EXCEPT !.was = was] ELSE x

\* The call of c ends.  Its node or its create is "lost" when it is unsettled and
\* remembered; a call that used up what was remembered leaves nothing "lost".
EndsOver(c, a, q, n) ==
    LET lost == a = "timeout"
        used == call[c].why = "exists" /\ n.class = call[c].class
        seen == IF used /\ n.was = "lost" THEN [n EXCEPT !.was = "past"] ELSE n
    IN  /\ call' = [call EXCEPT ![c] = Idle]
        /\ answer' = [to |-> c, what |-> a]
        /\ queue' = [i \in DOMAIN q |-> Aged(q[i], c, IF lost THEN "lost" ELSE "done")]
        /\ node' = Aged(seen, c, IF lost THEN "lost" ELSE "past")

Ends(c, a, q) == EndsOver(c, a, q, node)

------------------------------------------------------------------------------
(* _create_with_verify.                                                    *)

\* bridge_create_widget and its like, or the composite: the one POST.
Call(c, class, composite) ==
    /\ call[c].pc = "idle"
    /\ Cardinality(Abandoned) < MaxLate
    /\ call' = [call EXCEPT ![c] = [Idle EXCEPT !.pc = "create", !.class = class,
                                                !.composite = composite]]
    /\ queue' = Append(queue, Request(c, "create", class))
    /\ overlap' = (overlap \/ \E i \in DOMAIN queue : queue[i].by # c)
    /\ answer' = Silence
    /\ UNCHANGED <<node, remembered, events>>

\* The answer "ok", or the name is free and the operation is refused.
CreateServed(c) ==
    /\ Serving(c, "create") /\ node = NoNode
    /\ LET class == call[c].class
           q == Tail(queue)
       IN  \/ /\ remembered' = remembered \ {class}
              /\ IF call[c].composite
                 THEN /\ node' = Created(c, class, "now")
                      /\ call' = [call EXCEPT ![c].pc = "set", ![c].landed = @ + 1]
                      /\ queue' = Append(q, Request(c, "set", class))
                      /\ answer' = Silence
                 ELSE EndsOver(c, "created", q, Created(c, class, "now"))
           \/ /\ Ends(c, "failed", q)
              /\ UNCHANGED remembered
    /\ UNCHANGED <<overlap, events>>

\* The answer name_exists: a genuine duplicate, or perhaps the node of a create
\* that timed out moments ago.
NameExists(c) ==
    /\ Serving(c, "create") /\ node # NoNode
    /\ remembered' = remembered \ {call[c].class}
    /\ IF call[c].class \in remembered
       THEN ReadsBack(c, "exists", 2, Tail(queue)) /\ UNCHANGED node
       ELSE Ends(c, "exists", Tail(queue))
    /\ UNCHANGED <<overlap, events>>

\* Slip: the create is sent again when its answer does not come.
CreateTimesOutResending(c) ==
    /\ call[c].pc = "create"
    /\ \E i \in DOMAIN queue : queue[i].by = c /\ queue[i].waits
    /\ Cardinality(Abandoned) < MaxLate
    /\ Sends(c, "create", "create", Left(c))
    /\ UNCHANGED <<node, remembered, overlap, events>>

\* Slip: a timeout is taken for a request that was never sent.
CreateTimesOutUnsent(c) ==
    /\ call[c].pc = "create"
    /\ \E i \in DOMAIN queue : queue[i].by = c /\ queue[i].waits
    /\ ReadsBack(c, "unreachable", 1, Left(c))
    /\ UNCHANGED <<node, remembered, overlap, events>>

\* BridgeWriteTimeout: never sent again, read back instead.
CreateTimesOut(c) ==
    /\ call[c].pc = "create"
    /\ \E i \in DOMAIN queue : queue[i].by = c /\ queue[i].waits
    /\ ReadsBack(c, "timeout", Attempts, Left(c))
    /\ UNCHANGED <<node, remembered, overlap, events>>

\* Slip: a dropped connection is read back as no particular outcome.
CreateDroppedUnclassified(c) ==
    /\ Serving(c, "create")
    /\ ReadsBack(c, "none", Attempts, Tail(queue))
    /\ UNCHANGED <<node, remembered, overlap, events>>

\* BridgeLoading: the connection is dropped while the bridge handles the request.
CreateDropped(c) ==
    /\ Serving(c, "create")
    /\ \/ UNCHANGED node /\ ReadsBack(c, "timeout", Attempts, Tail(queue))
       \/ /\ node = NoNode
          /\ node' = Created(c, call[c].class, "now")
          /\ call' = [call EXCEPT ![c].pc = "read", ![c].why = "timeout",
                                  ![c].reads = Attempts, ![c].landed = @ + 1]
          /\ queue' = Append(Tail(queue), Request(c, "read", call[c].class))
          /\ answer' = Silence
    /\ UNCHANGED <<remembered, overlap, events>>

\* BridgeUnavailable: nothing reached the bridge; the path is read once.
CreateUnreachable(c) ==
    /\ call[c].pc = "create"
    /\ ReadsBack(c, "unreachable", 1, Without(c))
    /\ UNCHANGED <<node, remembered, overlap, events>>

\* _settle: what is there is what was asked for, as far as its class tells.
ReadPresent(c) ==
    /\ Serving(c, "read") /\ node # NoNode
    /\ IF node.class # call[c].class THEN Ends(c, "other", Tail(queue))
       ELSE IF call[c].composite
       THEN Sends(c, "set", "set", Tail(queue)) /\ UNCHANGED node
       ELSE Ends(c, "verified", Tail(queue))
    /\ UNCHANGED <<remembered, overlap, events>>

\* Slip: a timeout is not remembered.
ReadMissesForgetting(c, q) ==
    IF call[c].reads > 1
    THEN /\ call' = [call EXCEPT ![c].reads = @ - 1]
         /\ queue' = Append(q, Request(c, "read", call[c].class))
         /\ answer' = Silence
         /\ UNCHANGED <<node, remembered>>
    ELSE /\ Ends(c, call[c].why, q)
         /\ UNCHANGED remembered

\* A poll that did not find the node.  After the last one the call fails with what
\* it had: a timeout is remembered.
ReadMisses(c, q) ==
    IF call[c].reads > 1
    THEN /\ call' = [call EXCEPT ![c].reads = @ - 1]
         /\ queue' = Append(q, Request(c, "read", call[c].class))
         /\ answer' = Silence
         /\ UNCHANGED <<node, remembered>>
    ELSE /\ Ends(c, call[c].why, q)
         /\ remembered' = IF call[c].why = "timeout"
                          THEN remembered \cup {call[c].class} ELSE remembered

ReadAbsent(c) ==
    /\ Serving(c, "read") /\ node = NoNode
    /\ ReadMisses(c, Tail(queue))
    /\ UNCHANGED <<overlap, events>>

ReadUnanswered(c) ==
    /\ call[c].pc = "read"
    /\ ReadMisses(c, Without(c))
    /\ UNCHANGED <<overlap, events>>

------------------------------------------------------------------------------
(* bridge_add_bound_widget, once the node is there.                        *)

SetServed(c) ==
    /\ Serving(c, "set") /\ node # NoNode
    /\ \/ Sends(c, "set", "set", Tail(queue)) /\ UNCHANGED node
       \/ Ends(c, "configured", Tail(queue))
    /\ UNCHANGED <<remembered, overlap, events>>

\* BridgeWriteFailed or BridgeUnavailable: the rollback begins.
SetFails(c) ==
    /\ call[c].pc = "set"
    /\ \/ Serving(c, "set") /\ Sends(c, "delete", "delete", Tail(queue))
       \/ Sends(c, "delete", "delete", Without(c))
    /\ UNCHANGED <<node, remembered, overlap, events>>

\* BridgeLoading is neither of the two: the exception leaves the composite.
SetDropped(c) ==
    /\ Serving(c, "set")
    /\ Ends(c, "loading", Tail(queue))
    /\ UNCHANGED <<remembered, overlap, events>>

------------------------------------------------------------------------------
(* _fail: the rollback, through _delete_node_post.                         *)

\* node_not_found in the first answer is an error like any other, and the rollback
\* has failed.
DeleteServed(c) ==
    /\ Serving(c, "delete")
    /\ \/ node # NoNode /\ EndsOver(c, "rolled_back", Tail(queue), NoNode)
       \/ Ends(c, "orphaned", Tail(queue))
    /\ UNCHANGED <<remembered, overlap, events>>

\* No answer: the outcome is read back.
DeleteUnanswered(c) ==
    /\ call[c].pc = "delete"
    /\ \E q \in {Left(c), Without(c)} : Sends(c, "check", "read", q)
    /\ UNCHANGED <<node, remembered, overlap, events>>

DeleteDropped(c) ==
    /\ Serving(c, "delete")
    /\ node' \in {node, NoNode}
    /\ Sends(c, "check", "read", Tail(queue))
    /\ UNCHANGED <<remembered, overlap, events>>

\* Slip: a node that is still there counts as one that is on its way out.
CheckTrusting(c) ==
    /\ Serving(c, "check")
    /\ Ends(c, "rolled_back", Tail(queue))
    /\ UNCHANGED <<remembered, overlap, events>>

\* The node is gone, or the delete is sent once more.
Check(c) ==
    /\ Serving(c, "check")
    /\ IF node = NoNode THEN Ends(c, "rolled_back", Tail(queue))
       ELSE Sends(c, "redelete", "delete", Tail(queue)) /\ UNCHANGED node
    /\ UNCHANGED <<remembered, overlap, events>>

CheckUnanswered(c) ==
    /\ call[c].pc = "check"
    /\ Sends(c, "redelete", "delete", Without(c))
    /\ UNCHANGED <<node, remembered, overlap, events>>

\* node_not_found is now a success; the bridge may still refuse.
Redelete(c) ==
    /\ Serving(c, "redelete")
    /\ \/ EndsOver(c, "rolled_back", Tail(queue), NoNode)
       \/ node # NoNode /\ Ends(c, "orphaned", Tail(queue))
    /\ UNCHANGED <<remembered, overlap, events>>

RedeleteUnanswered(c) ==
    /\ call[c].pc = "redelete"
    /\ \E q \in {Left(c), Without(c)} : Ends(c, "orphaned", q)
    /\ UNCHANGED <<remembered, overlap, events>>

------------------------------------------------------------------------------
(* The bridge, Studio and time.                                            *)

\* A request that nobody waits for any more is served in its turn.
ServesAbandoned ==
    /\ queue # <<>> /\ ~Head(queue).waits
    /\ LET r == Head(queue)
           lands == r.op = "create" /\ node = NoNode
       IN  /\ node' = IF lands THEN Created(r.by, r.class, r.was)
                      ELSE IF r.op = "delete" THEN NoNode ELSE node
           /\ call' = IF lands /\ r.was = "now"
                      THEN [call EXCEPT ![r.by].landed = @ + 1] ELSE call
    /\ queue' = Tail(queue)
    /\ answer' = Silence
    /\ UNCHANGED <<remembered, overlap, events>>

\* The listener is stopped and started: what was given up on is gone, and what is
\* awaited is sent again, in any order, for nothing of it was handled.
ListenerRestarts ==
    /\ Abandoned # {}
    /\ LET again == {queue[i] : i \in DOMAIN queue \ Abandoned}
       IN  queue' \in Bijection(1..Cardinality(again), again)
    /\ answer' = Silence
    /\ UNCHANGED <<node, remembered, call, overlap, events>>

StudioEdits ==
    /\ events < MaxEvents
    /\ events' = events + 1
    /\ \/ /\ node = NoNode
          /\ \E class \in Classes : node' = Created(Studio, class, "past")
       \/ node # NoNode /\ node' = NoNode
    /\ answer' = Silence
    /\ UNCHANGED <<queue, remembered, call, overlap>>

Forgotten(x) == IF x.was = "lost" THEN [x EXCEPT !.was = "past"] ELSE x

\* CREATE_TIMEOUT_MEMORY_SECONDS go by.
MemoryExpires ==
    /\ remembered # {}
    /\ remembered' = {}
    /\ node' = Forgotten(node)
    /\ queue' = [i \in DOMAIN queue |-> Forgotten(queue[i])]
    /\ answer' = Silence
    /\ UNCHANGED <<call, overlap, events>>

Past(x) == [x EXCEPT !.was = "past"]

\* The service dies; its requests stay with the bridge.
Restart ==
    /\ events < MaxEvents
    /\ events' = events + 1
    /\ remembered' = {}
    /\ call' = [c \in Callers |-> Idle]
    /\ answer' = Silence
    /\ node' = Past(node)
    /\ queue' = [i \in DOMAIN queue |-> [Past(queue[i]) EXCEPT !.waits = FALSE]]
    /\ UNCHANGED overlap

CreateStep(c) ==
    \/ \E class \in Classes, composite \in BOOLEAN : Call(c, class, composite)
    \/ CreateServed(c) \/ NameExists(c)
    \/ CreateTimesOut(c) \/ CreateDropped(c) \/ CreateUnreachable(c)
    \/ ReadPresent(c) \/ ReadAbsent(c) \/ ReadUnanswered(c)

CompositeStep(c) ==
    \/ SetServed(c) \/ SetFails(c) \/ SetDropped(c)
    \/ DeleteServed(c) \/ DeleteUnanswered(c) \/ DeleteDropped(c)
    \/ Check(c) \/ CheckUnanswered(c) \/ Redelete(c) \/ RedeleteUnanswered(c)

Next ==
    \/ \E c \in Callers : CreateStep(c) \/ CompositeStep(c)
    \/ ServesAbandoned
    \/ ListenerRestarts
    \/ StudioEdits
    \/ MemoryExpires
    \/ Restart

Spec == Init /\ [][Next]_vars

------------------------------------------------------------------------------
(* Properties.                                                             *)

\* Type invariant: every variable stays in the set its code counterpart ranges over.
TypeOK ==
    /\ node \in Nodes \cup {NoNode}
    /\ queue \in Seq(Requests)
    /\ remembered \subseteq Classes
    /\ call \in [Callers -> Calls]
    /\ answer \in [to : Callers, what : Answers] \cup {Silence}
    /\ overlap \in BOOLEAN
    /\ events \in Nat

\* However its answers are lost, one call creates the node at most once, also when
\* somebody deletes the node while the call is still settling its outcome.
OncePerCall == \A c \in Callers : call[c].landed <= 1

\* An answer other than the timeout is final: no create of that call is still on
\* its way to the bridge, where it would make the node appear later.
AnswerIsFinal ==
    \A i \in DOMAIN queue : queue[i].op = "create" => queue[i].was # "done"

\* The call of c ends in this step with answer a.
Answered(c, a) == call[c].pc # "idle" /\ call'[c].pc = "idle" /\ answer' = [to |-> c, what |-> a]

\* The node is what the caller's own earlier create, lost and remembered, has made.
OwnLostNode(c) == node.by = c /\ node.was = "lost" /\ node.class = call[c].class

\* As long as calls come one at a time, a node that the caller's own timed-out
\* create made is reported as a bare duplicate only after the match test, when its
\* reads went unanswered.
DuplicateOnlyUnread ==
    [][\A c \in Callers :
         ~overlap /\ Answered(c, "exists") /\ OwnLostNode(c) => call[c].why = "exists"]_vars

\* "Instead of surfacing a bare duplicate error for a node the first request
\* created": a retry is never answered name_exists for a remembered timeout.
NeverBareDuplicate ==
    [][\A c \in Callers : Answered(c, "exists") => ~OwnLostNode(c)]_vars

\* rolled_back: true is told only when the composite's node is gone.
RolledBackIsGone ==
    [][\A c \in Callers : Answered(c, "rolled_back") => node' = NoNode]_vars

\* "No orphaned half-configured widgets": a composite that fails after creating
\* the node removes it or names it.
NoSilentOrphan ==
    [][\A c \in Callers : Answered(c, "loading") => node'.by # c]_vars
==============================================================================
