------------------------------ MODULE BatchEdit ------------------------------
(***************************************************************************)
(* The batched authoring path of the service: optix_bridge_edit with       *)
(* action "apply" and "continue" (service/core.py, bridge_edit and         *)
(* bridge_edit_continue) and the journal the two share, one JSON file per  *)
(* batch under <state_dir>/batches.                                        *)
(*                                                                         *)
(* One batch of NOps operations is followed from its submission.  Every    *)
(* caller is a client whose request runs in a worker thread of the one     *)
(* service process, so calls interleave between any two steps.  The live   *)
(* model belongs to FactoryTalk Optix Studio, which survives the service:  *)
(* landed, dirty and late are its state; the journal is a file; call is    *)
(* the memory of the service, lost when it restarts; resp is what each     *)
(* client last heard.  remaining_ops is always a suffix of the batch, so   *)
(* its first index, from, stands for it.                                   *)
(***************************************************************************)
EXTENDS Integers, FiniteSets

CONSTANTS
    NOps,         \* operations in the batch
    ChunkOps,     \* OPTIX_BATCH_CHUNK_OPS
    Callers,      \* clients of the service
    MaxRestarts   \* bound: how often the service process is replaced

ASSUME BatchAssumption ==
    /\ NOps \in Nat \ {0}
    /\ ChunkOps \in Nat \ {0}
    /\ MaxRestarts \in Nat

VARIABLES
    submitted,    \* bridge_edit accepted the batch and began to apply it
    preRefused,   \* operations the validation refused one by one
    journal,      \* the journal file
    pid,          \* the service process now running (counts restarts)
    call,         \* per caller: the request a worker thread is serving
    resp,         \* per caller: the last answer it received
    landed,       \* per operation: how often the live model took it (2: or more)
    dirty,        \* operations that failed and left a part of themselves
    late,         \* operations sent, given up on, and still able to land
    refusedOps,   \* history: operations some call recorded as refused
    mishaps       \* history: what went wrong around the batch so far

model == <<landed, dirty, late, refusedOps>>
vars  == <<submitted, preRefused, journal, pid, call, resp, model, mishaps>>

Ops    == 1 .. NOps
Froms  == 1 .. NOps + 1

JournalStates == {"absent", "torn", "applying", "chunked",
                  "succeeded", "partial", "failed"}
Pcs      == {"idle", "apply", "answer", "boundary", "open", "fill"}
Results  == {"none", "ok", "refused", "rejected", "partial", "left", "unknown"}
\* An operation that ends in one of these ends its batch.
Failures == {"rejected", "partial", "left", "unknown"}
Functions == {"bridge_edit", "bridge_edit_continue"}
Answers  == {"none", "validated", "chunked", "succeeded", "partial", "failed",
             "no_journal", "mismatch", "abandoned", "not_resumable",
             "nothing_to_continue"}
Mishaps  == {"crash", "overlap", "journal", "pruned"}

Docs  == [state : JournalStates, from : Froms, applied : Int, pid : Nat]
Calls == [pc : Pcs, fn : Functions, start : Froms, i : Froms, prior : Int,
          refused : Int, applied : Int, result : Results, doc : Docs, then : Pcs]
Resps == [state : Answers, result : Results, applied : Int]

Doc(s, f, a, p) == [state |-> s, from |-> f, applied |-> a, pid |-> p]
Absent == Doc("absent", 1, 0, 0)
Readable(j) == j.state \notin {"absent", "torn"}

Idle == [pc |-> "idle", fn |-> "bridge_edit", start |-> 1, i |-> 1, prior |-> 0,
         refused |-> 0, applied |-> 0, result |-> "none", doc |-> Absent,
         then |-> "idle"]
Silence == [state |-> "none", result |-> "none", applied |-> 0]

Busy(c)     == call[c].pc # "idle"
Quiet       == \A c \in Callers : ~Busy(c)
InFlight    == {call[c].i : c \in {d \in Callers : /\ call[d].pc = "apply"
                                                   /\ call[d].i \in Ops}}

Init ==
    /\ submitted = FALSE
    /\ preRefused = {}
    /\ journal = Absent
    /\ pid = 0
    /\ call = [c \in Callers |-> Idle]
    /\ resp = [c \in Callers |-> Silence]
    /\ landed = [i \in Ops |-> 0]
    /\ dirty = {}
    /\ late = {}
    /\ refusedOps = {}
    /\ mishaps = {}

------------------------------------------------------------------------------
(* The journal file.  A call that journals goes through "open" (write_text *)
(* opens and truncates the file) and "fill" (the text reaches the file),   *)
(* then to the step named by its field then.  Every error of the two is    *)
(* swallowed by _write_batch_journal.                                      *)

\* The call k of c, about to write the journal entry d and go on at next.
Journalling(k, d, next) == [k EXCEPT !.pc = "open", !.doc = d, !.then = next]

\* Once the write of its journal entry is over, successful or not, a call goes
\* on with its loop, or returns to the client what it has just journalled.
GoOn(c) ==
    LET k == call[c] IN
    \/ /\ k.then # "idle"
       /\ call' = [call EXCEPT ![c] = [@ EXCEPT !.pc = k.then, !.doc = Absent, !.then = "idle"]]
       /\ resp' = resp
    \/ /\ k.then = "idle"
       /\ call' = [call EXCEPT ![c] = Idle]
       /\ resp' = [resp EXCEPT ![c] = [state |-> k.doc.state, applied |-> k.doc.applied,
                                       result |-> k.result]]

OpenJournal(c) ==
    /\ call[c].pc = "open"
    /\ journal' = [journal EXCEPT !.state = "torn"]
    /\ call' = [call EXCEPT ![c].pc = "fill"]
    /\ UNCHANGED <<submitted, preRefused, pid, resp, model, mishaps>>

\* A file that another writer filled since this one truncated it may end up
\* holding a mixture of the two texts, which no reader can parse.
FillJournal(c) ==
    /\ call[c].pc = "fill"
    /\ \/ journal' = call[c].doc
       \/ /\ journal.state # "torn"
          /\ journal' = [journal EXCEPT !.state = "torn"]
    /\ GoOn(c)
    /\ UNCHANGED <<submitted, preRefused, pid, model, mishaps>>

\* mkdir, open or write fails: the batch goes on as if it had been written.
JournalError(c) ==
    /\ call[c].pc \in {"open", "fill"}
    /\ GoOn(c)
    /\ mishaps' = mishaps \cup {"journal"}
    /\ UNCHANGED <<submitted, preRefused, journal, pid, model>>

------------------------------------------------------------------------------
(* bridge_edit: validation, and the first journal entry.                   *)

\* Slip: the first of the operations to apply is passed over.
StartedOneLate(fn, start, prior) ==
    Journalling([Idle EXCEPT !.fn = fn, !.start = start, !.i = start + 1,
                             !.prior = prior, !.applied = prior],
                Doc("applying", start, prior, pid), "apply")

\* A call that has just decided to apply the operations from `start` on.
Started(fn, start, prior) ==
    Journalling([Idle EXCEPT !.fn = fn, !.start = start, !.i = start,
                             !.prior = prior, !.applied = prior],
                Doc("applying", start, prior, pid), "apply")

\* The report is clean but for the operations in preRefused.
Submit(c) ==
    /\ ~submitted
    /\ ~Busy(c)
    /\ submitted' = TRUE
    /\ preRefused' \in SUBSET Ops
    /\ call' = [call EXCEPT ![c] = Started("bridge_edit", 1, 0)]
    /\ resp' = [resp EXCEPT ![c] = Silence]
    /\ UNCHANGED <<journal, pid, model, mishaps>>

\* A dry run, or any other error in the report: nothing is applied or written.
SubmitRefused(c) ==
    /\ ~submitted
    /\ ~Busy(c)
    /\ resp' = [resp EXCEPT ![c].state = "validated"]
    /\ UNCHANGED <<submitted, preRefused, journal, pid, call, model, mishaps>>

------------------------------------------------------------------------------
(* bridge_edit_continue: the guards on the journal, and the restart.       *)

\* psutil.pid_exists, which a later process with the same number also satisfies.
PidAlive == IF journal.pid = pid THEN {TRUE} ELSE BOOLEAN

ContinueRefusals ==
    IF ~Readable(journal) THEN {"no_journal"}
    ELSE {"mismatch"} \cup
         CASE journal.state = "chunked"  -> {}
           [] journal.state = "applying" ->
                {IF alive THEN "not_resumable" ELSE "abandoned" : alive \in PidAlive}
           [] journal.state = "failed"   -> {"nothing_to_continue"}
           [] OTHER                      -> {"not_resumable"}

\* The client asked to continue and every guard but the last let it pass.
ContinueRefused(c) ==
    /\ ~Busy(c)
    /\ \E answer \in ContinueRefusals :
          resp' = [resp EXCEPT ![c] = [Silence EXCEPT !.state = answer]]
    /\ UNCHANGED <<submitted, preRefused, journal, pid, call, model, mishaps>>

\* Slip: a partial batch is continued too.
ContinueAlsoPartial(c) ==
    /\ ~Busy(c)
    /\ journal.state \in {"chunked", "partial"}
    /\ call' = [call EXCEPT ![c] = Started("bridge_edit_continue", journal.from, journal.applied)]
    /\ resp' = [resp EXCEPT ![c] = Silence]
    /\ UNCHANGED <<submitted, preRefused, journal, pid, model, mishaps>>

\* Only the loaded journal is consulted: nothing keeps a second call from
\* loading the same "chunked" entry before this one overwrites it.
Continue(c) ==
    /\ ~Busy(c)
    /\ journal.state = "chunked"
    /\ call' = [call EXCEPT ![c] = Started("bridge_edit_continue", journal.from, journal.applied)]
    /\ resp' = [resp EXCEPT ![c] = Silence]
    /\ mishaps' = mishaps \cup (IF Quiet THEN {} ELSE {"overlap"})
    /\ UNCHANGED <<submitted, preRefused, journal, pid, model>>

------------------------------------------------------------------------------
(* The apply loop, the same in both functions.                             *)

Skips(c) == call[c].fn = "bridge_edit" /\ call[c].i \in preRefused

NextOp(k) == [k EXCEPT !.pc = "apply", !.i = @ + 1, !.result = "none"]

\* A refused operation is recorded, and the loop goes on.
PastRefusal(k) == NextOp([k EXCEPT !.refused = @ + 1])

Bump(i) == [landed EXCEPT ![i] = IF @ = 0 THEN 1 ELSE 2]

\* Refused at validation: not sent.  Only bridge_edit knows these.
SkipOp(c) ==
    /\ call[c].pc = "apply" /\ call[c].i \in Ops
    /\ Skips(c)
    /\ call' = [call EXCEPT ![c] = PastRefusal(@)]
    /\ refusedOps' = refusedOps \cup {call[c].i}
    /\ UNCHANGED <<submitted, preRefused, journal, pid, resp, landed, dirty, late, mishaps>>

\* The bridge takes the operation.  Its answer arrives ("ok": also when a
\* timed out create is found in the model by the read-back) or is lost
\* ("unknown").
BridgeApplies(c) ==
    /\ call[c].pc = "apply" /\ call[c].i \in Ops /\ ~Skips(c)
    /\ \E r \in {"ok", "unknown"} :
          call' = [call EXCEPT ![c].pc = "answer", ![c].result = r]
    /\ landed' = Bump(call[c].i)
    /\ UNCHANGED <<submitted, preRefused, journal, pid, resp, dirty, late, refusedOps, mishaps>>

\* The operation fails and a part of it stays: rows that its answer counts ("partial"), or
\* something that it does not count ("left"): a node created in the wrong namespace, a
\* runtime NetLogic in place of a design-time one, the tag importer.
BridgeLeaves(c) ==
    /\ call[c].pc = "apply" /\ call[c].i \in Ops /\ ~Skips(c)
    /\ \E r \in {"partial", "left"} :
          call' = [call EXCEPT ![c].pc = "answer", ![c].result = r]
    /\ dirty' = dirty \cup {call[c].i}
    /\ UNCHANGED <<submitted, preRefused, journal, pid, resp, landed, late, refusedOps, mishaps>>

\* The operation changes nothing: a subtree refusal, or an error before it did anything.
BridgeRejects(c) ==
    /\ call[c].pc = "apply" /\ call[c].i \in Ops /\ ~Skips(c)
    /\ \E r \in {"refused", "rejected"} :
          call' = [call EXCEPT ![c].pc = "answer", ![c].result = r]
    /\ UNCHANGED <<submitted, preRefused, journal, pid, resp, model, mishaps>>

\* The POST times out while the operation still waits in the bridge.
BridgeTimesOut(c) ==
    /\ call[c].pc = "apply" /\ call[c].i \in Ops /\ ~Skips(c)
    /\ call' = [call EXCEPT ![c].pc = "answer", ![c].result = "unknown"]
    /\ late' = late \cup {call[c].i}
    /\ UNCHANGED <<submitted, preRefused, journal, pid, resp, landed, dirty, refusedOps, mishaps>>

\* Slip: refused operations are counted as applied.
AppliedWithRefused(k) == k.prior + (k.i - k.start + 1)

\* out["applied"] after a successful operation.
AppliedAfter(k) == k.prior + (k.i - k.start + 1) - k.refused

\* Slip: the journal drops one operation too many from remaining_ops.
OpAppliedDroppingNext(c) ==
    /\ call[c].pc = "answer" /\ call[c].result = "ok"
    /\ LET k == [call[c] EXCEPT !.applied = AppliedAfter(call[c])] IN
       call' = [call EXCEPT ![c] =
                  Journalling(k, Doc("applying", k.i + 2, k.applied, pid), "boundary")]
    /\ UNCHANGED <<submitted, preRefused, journal, pid, resp, model, mishaps>>

OpApplied(c) ==
    /\ call[c].pc = "answer" /\ call[c].result = "ok"
    /\ LET k == [call[c] EXCEPT !.applied = AppliedAfter(call[c])] IN
       call' = [call EXCEPT ![c] =
                  Journalling(k, Doc("applying", k.i + 1, k.applied, pid), "boundary")]
    /\ UNCHANGED <<submitted, preRefused, journal, pid, resp, model, mishaps>>

\* A per-item refusal: recorded, and the loop goes on without a journal write.
OpRefused(c) ==
    /\ call[c].pc = "answer" /\ call[c].result = "refused"
    /\ call' = [call EXCEPT ![c] = PastRefusal(@)]
    /\ refusedOps' = refusedOps \cup {call[c].i}
    /\ UNCHANGED <<submitted, preRefused, journal, pid, resp, landed, dirty, late, mishaps>>

\* Slip: rows a failed operation wrote do not count.
FailureStateIgnoringRows(k) == IF k.applied > 0 THEN "partial" ELSE "failed"

\* _apply_failure_outcome, with _op_partial_written.
FailureState(k) == IF k.result = "partial" \/ k.applied > 0 THEN "partial" ELSE "failed"

\* The call of c ends in state s with the operations from f on left over.
EndsWith(c, s, f) ==
    call' = [call EXCEPT ![c] = Journalling(@, Doc(s, f, @.applied, pid), "idle")]

\* Slip: the failed operation is not among the remaining ones.
OpFailedDroppingIt(c) ==
    /\ call[c].pc = "answer" /\ call[c].result \in Failures
    /\ EndsWith(c, FailureState(call[c]), call[c].i + 1)
    /\ UNCHANGED <<submitted, preRefused, journal, pid, resp, model, mishaps>>

\* Slip: an operation of unknown outcome is passed over like a refused one.
OpFailedGoingOn(c) ==
    /\ call[c].pc = "answer" /\ call[c].result \in Failures
    /\ IF call[c].result = "unknown" THEN call' = [call EXCEPT ![c] = PastRefusal(@)]
       ELSE EndsWith(c, FailureState(call[c]), call[c].i)
    /\ UNCHANGED <<submitted, preRefused, journal, pid, resp, model, mishaps>>

OpFailed(c) ==
    /\ call[c].pc = "answer" /\ call[c].result \in Failures
    /\ EndsWith(c, FailureState(call[c]), call[c].i)
    /\ UNCHANGED <<submitted, preRefused, journal, pid, resp, model, mishaps>>

\* Slip: the operation just applied is left among the remaining ones.
ChunkEndsReplaying(c) ==
    /\ call[c].pc = "boundary" /\ call[c].i < NOps
    /\ EndsWith(c, "chunked", call[c].i)
    /\ UNCHANGED <<submitted, preRefused, journal, pid, resp, model, mishaps>>

\* Slip: the boundary is checked even when no operation remains.
ChunkEndsEmpty(c) ==
    /\ call[c].pc = "boundary"
    /\ EndsWith(c, "chunked", call[c].i + 1)
    /\ UNCHANGED <<submitted, preRefused, journal, pid, resp, model, mishaps>>

\* After the journal write of a successful operation, when operations remain:
\* the time limit (any moment) or the operation limit of the chunk.
ChunkEnds(c) ==
    /\ call[c].pc = "boundary" /\ call[c].i < NOps
    /\ EndsWith(c, "chunked", call[c].i + 1)
    /\ UNCHANGED <<submitted, preRefused, journal, pid, resp, model, mishaps>>

LimitReached(k) == k.i - k.start + 1 >= ChunkOps

ChunkGoesOn(c) ==
    /\ call[c].pc = "boundary"
    /\ call[c].i < NOps => ~LimitReached(call[c])
    /\ call' = [call EXCEPT ![c] = NextOp(@)]
    /\ UNCHANGED <<submitted, preRefused, journal, pid, resp, model, mishaps>>

\* Slip: the last journal entry is not written.
FinishUnjournalled(c) ==
    /\ call[c].pc = "apply" /\ call[c].i = NOps + 1
    /\ call' = [call EXCEPT ![c] = Idle]
    /\ resp' = [resp EXCEPT ![c] = [Silence EXCEPT !.state = "succeeded",
                                                   !.applied = call[c].applied]]
    /\ UNCHANGED <<submitted, preRefused, journal, pid, model, mishaps>>

Finish(c) ==
    /\ call[c].pc = "apply" /\ call[c].i = NOps + 1
    /\ EndsWith(c, "succeeded", NOps + 1)
    /\ UNCHANGED <<submitted, preRefused, journal, pid, resp, model, mishaps>>

------------------------------------------------------------------------------
(* What happens around the calls.                                          *)

\* The service process dies and is started again.  A request that was on its
\* way to the bridge may still be carried out; so may nothing of it.
Restart ==
    /\ pid < MaxRestarts
    /\ pid' = pid + 1
    /\ call' = [c \in Callers |-> Idle]
    /\ \E S \in SUBSET InFlight : late' = late \cup S
    /\ mishaps' = mishaps \cup {"crash"}
    /\ UNCHANGED <<submitted, preRefused, journal, resp, landed, dirty, refusedOps>>

\* The bridge carries out an operation whose sender has given up.
LateLanding(i) ==
    /\ i \in late
    /\ late' = late \ {i}
    /\ landed' = Bump(i)
    /\ UNCHANGED <<submitted, preRefused, journal, pid, call, resp, dirty, refusedOps, mishaps>>

\* Another batch writes its journal more than OPTIX_BATCH_JOURNAL_DAYS later.
Prune ==
    /\ Quiet
    /\ journal.state # "absent"
    /\ journal' = Absent
    /\ mishaps' = mishaps \cup {"pruned"}
    /\ UNCHANGED <<submitted, preRefused, pid, call, resp, model>>

\* One step of the worker thread that serves c.
CallStep(c) ==
    \/ OpenJournal(c) \/ FillJournal(c)
    \/ SkipOp(c) \/ BridgeApplies(c) \/ BridgeLeaves(c)
    \/ BridgeRejects(c) \/ BridgeTimesOut(c)
    \/ OpApplied(c) \/ OpRefused(c) \/ OpFailed(c)
    \/ ChunkEnds(c) \/ ChunkGoesOn(c) \/ Finish(c)

Next ==
    \/ \E c \in Callers :
          \/ Submit(c) \/ SubmitRefused(c) \/ ContinueRefused(c) \/ Continue(c)
          \/ CallStep(c) \/ JournalError(c)
    \/ \E i \in Ops : LateLanding(i)
    \/ Restart
    \/ Prune

Spec == Init /\ [][Next]_vars

\* Worker threads run, and the client follows the nudge of a chunked answer.
FairSpec ==
    /\ Spec
    /\ \A c \in Callers : WF_vars(CallStep(c))
    /\ WF_vars(\E c \in Callers : Continue(c))
------------------------------------------------------------------------------
(* Properties.                                                             *)

\* Type invariant: every variable stays in the set its code counterpart ranges over.
TypeOK ==
    /\ submitted \in BOOLEAN
    /\ preRefused \subseteq Ops
    /\ journal \in Docs
    /\ pid \in Nat
    /\ call \in [Callers -> Calls]
    /\ resp \in [Callers -> Resps]
    /\ landed \in [Ops -> 0 .. 2]
    /\ dirty \subseteq Ops
    /\ late \subseteq Ops
    /\ refusedOps \subseteq Ops
    /\ mishaps \subseteq Mishaps

Settled(i) == landed[i] > 0 \/ i \in refusedOps

\* What the journal no longer lists in remaining_ops was applied or refused:
\* no interleaving, crash or failed write makes a batch skip an operation, and a
\* client that resumes from remaining_ops leaves nothing out.
JournalSound == \A i \in Ops : i < journal.from => Settled(i)

\* A caller is told "succeeded" only when every operation of the whole batch, the
\* chunks applied by other calls included, was applied or refused.
SucceededComplete ==
    (\E c \in Callers : resp[c].state = "succeeded") => \A i \in Ops : Settled(i)

Clean == mishaps \cap {"overlap", "journal"} = {}

LandedBelow(f) == {i \in Ops : i < f /\ landed[i] > 0}

\* The applied counter of the journal and of every answer never claims more than
\* the live model holds, and with one call at a time and every journal write
\* done it counts exactly the operations that landed before remaining_ops.
AppliedTruthful ==
    /\ journal.applied <= Cardinality(LandedBelow(journal.from))
    /\ \A c \in Callers : resp[c].applied <= Cardinality(LandedBelow(NOps + 1))
    /\ Clean => journal.applied = Cardinality(LandedBelow(journal.from))

\* An answer "failed" whose operation's outcome is known: no operation landed or can still
\* land, and the live model holds nothing of the batch but what the failed operation itself
\* has left there without counting it.
FailedTruthful ==
    \A c \in Callers : resp[c].state = "failed" /\ resp[c].result # "unknown" =>
        /\ late = {} /\ \A i \in Ops : landed[i] = 0
        /\ dirty \in IF resp[c].result = "left" THEN {{i} : i \in Ops} ELSE {{}}

\* However the service crashes, restarts and is asked to continue, an operation
\* lands once: no chunk is replayed, as long as two calls never continue the
\* batch at once and no journal write fails.
AtMostOnce == Clean => \A i \in Ops : landed[i] <= 1

\* A chunked journal has something to continue with and something applied, so the
\* empty-remainder branch of bridge_edit_continue is dead code and a continued
\* batch that fails is never called "failed".
ChunkedHasWork ==
    journal.state = "chunked" => journal.from \in Ops /\ journal.applied >= 1

Stopped == \E c \in Callers :
              resp[c].state \in {"partial", "failed", "succeeded", "abandoned"}

\* Once a caller was told the batch stopped, nobody gets it to go on, and only an
\* operation that was already on its way can still land.
StopsForGood ==
    [][Clean /\ Stopped => /\ \A c \in Callers : Busy(c)' => Busy(c)
                          /\ \A i \in Ops \ late : landed'[i] = landed[i]]_vars

\* A submitted batch whose client keeps continuing it comes to an end: chunking
\* always leaves progress behind.
Settles ==
    submitted ~> \/ mishaps # {}
                 \/ journal.state \in {"succeeded", "partial", "failed"}

\* The batch implements what it promises: whatever crashes, overlaps, lands late or is not
\* recorded, the operations reach the model in their order, answers are true, and a batch
\* that is over stays over.
Told(r) == IF r.state = "failed" /\ r.result \in {"left", "unknown"} THEN r.result ELSE r.state
Promise == INSTANCE BatchPromise WITH
             Clients <- Callers, refused <- refusedOps, clean <- Clean,
             told <- [c \in Callers |-> Told(resp[c])],
             over <- submitted /\ Quiet /\ journal.state # "chunked"
PromiseKept == Promise!PromiseSpec

\* "This batch failed before anything was applied; there is nothing to continue":
\* what bridge_edit_continue tells a client of a failed batch, whether its operation timed out
\* or failed and left something.
FailedContinueUntouched ==
    (\E c \in Callers : resp[c].state = "nothing_to_continue") =>
        dirty = {} /\ \A i \in Ops : landed[i] = 0
==============================================================================
