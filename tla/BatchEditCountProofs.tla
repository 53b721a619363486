------------------------ MODULE BatchEditCountProofs ------------------------
(***************************************************************************)
(* Proofs about what BatchEdit counts and answers, for every number of     *)
(* operations, every chunk size, every set of callers and any number of    *)
(* restarts.  However calls overlap and writes fail: a chunked journal has *)
(* something to continue with and something applied, no counter claims too *)
(* much, and an answer "failed" whose outcome is known means an untouched  *)
(* model.  While neither happens: no operation lands twice, the journal's  *)
(* counter is exact, and a batch that was told to have stopped has.  All   *)
(* of it together: the batch implements BatchPromise.                      *)
(*                                                                         *)
(* The counter of a call is what it started with, and one for each         *)
(* operation that it passed without recording a refusal; it never exceeds  *)
(* the operations that landed below the one at hand.  So a call that has   *)
(* passed an operation has a counter of at least one; and one that fails   *)
(* with a counter of zero is the first of the batch, and all by itself.    *)
(***************************************************************************)
EXTENDS BatchEditProofs, FiniteSetTheorems

Below(L, f) == {i \in Ops : i < f /\ L[i] > 0}
Count(L, f) == Cardinality(Below(L, f))

Grows(L, M) == \A j \in Ops : L[j] > 0 => M[j] > 0

\* Where a call is in the loop: at an operation, past it, or about to return.
Working(k) == k.pc = "apply" \/ (Writing(k) /\ k.then = "apply")
Passed(k)  == k.pc = "boundary" \/ (Writing(k) /\ k.then = "boundary")
Ending(k)  == Writing(k) /\ k.then = "idle"

\* What the counters of a call, and of the entry that it writes, stand for.
CallCounts(k, L) ==
    /\ Working(k) \/ k.pc = "answer" =>
          /\ k.applied = k.prior + (k.i - k.start) - k.refused
          /\ 0 <= k.applied /\ k.applied <= Count(L, k.i)
    /\ k.pc = "answer" /\ k.result = "ok" => L[k.i] > 0
    /\ Passed(k) =>
          /\ k.applied = k.prior + (k.i - k.start + 1) - k.refused
          /\ 1 <= k.applied /\ k.applied <= Count(L, k.i + 1)
    /\ Writing(k) =>
          /\ 0 <= k.doc.applied /\ k.doc.applied <= Count(L, k.doc.from)
          /\ k.doc.state = "chunked" => k.doc.from \in Ops /\ 1 <= k.doc.applied
    /\ k.pc # "idle" /\ k.fn = "bridge_edit_continue" => 1 <= k.applied

Counts ==
    /\ 0 <= journal.applied /\ journal.applied <= Count(landed, journal.from)
    /\ ChunkedHasWork
    /\ \A c \in Callers : resp[c].applied <= Count(landed, NOps + 1)
    /\ \A c \in Callers : CallCounts(call[c], landed)

------------------------------------------------------------------------------
(* Counting.                                                               *)

\* More operations, and more landings, count for more.
LEMMA CountGrows ==
    ASSUME NEW L, NEW M, NEW f \in Int, NEW g \in Int, f <= g, Grows(L, M)
    PROVE  /\ Count(L, f) \in Nat /\ Count(M, g) \in Nat
           /\ Count(L, f) <= Count(M, g)
<1>1. IsFiniteSet(Ops)
  BY BatchAssumption, FS_Interval DEF Ops
<1>2. IsFiniteSet(Below(M, g))
  BY <1>1, FS_Subset DEF Below
<1>3. Below(L, f) \subseteq Below(M, g)
  BY DEF Below, Grows, Ops
<1>4. IsFiniteSet(Below(L, f))
  BY <1>2, <1>3, FS_Subset
<1> QED
  BY <1>2, <1>3, <1>4, FS_Subset, FS_CardinalityType DEF Count

\* Only what landed below f counts.
LEMMA CountSame ==
    ASSUME NEW L, NEW M, NEW f \in Int,
           \A j \in Ops : j < f => (L[j] > 0 <=> M[j] > 0)
    PROVE  Count(L, f) = Count(M, f)
<1>1. Below(L, f) = Below(M, f)
  BY DEF Below
<1> QED
  BY <1>1 DEF Count

\* The next operation counts if it has landed.
LEMMA CountNext ==
    ASSUME NEW L \in [Ops -> 0 .. 2], NEW i \in Ops
    PROVE  /\ Count(L, i) \in Nat
           /\ L[i] > 0 => Count(L, i + 1) = Count(L, i) + 1
           /\ L[i] = 0 => Count(L, i + 1) = Count(L, i)
<1>1. \A j \in Ops : j < i + 1 <=> j < i \/ j = i
  BY BatchAssumption DEF Ops
<1>2. IsFiniteSet(Below(L, i))
  <2>1. IsFiniteSet(Ops)
    BY BatchAssumption, FS_Interval DEF Ops
  <2> QED
    BY <2>1, FS_Subset DEF Below
<1>3. ASSUME L[i] > 0
      PROVE  Below(L, i + 1) = Below(L, i) \cup {i}
  BY <1>1, <1>3 DEF Below
<1>4. ASSUME ~ (L[i] > 0)
      PROVE  Below(L, i + 1) = Below(L, i)
  BY <1>1, <1>4 DEF Below
<1>5. i \notin Below(L, i)
  BY BatchAssumption DEF Below, Ops
<1> QED
  BY <1>2, <1>3, <1>4, <1>5, FS_AddElement, FS_CardinalityType DEF Count

LEMMA CountNone ==
    ASSUME NEW L
    PROVE  Count(L, 1) = 0
<1>1. Below(L, 1) = {}
  BY DEF Below, Ops
<1> QED
  BY <1>1, FS_EmptySet DEF Count

\* Landings only add to what the counters may claim.
LEMMA CallCountsGrow ==
    ASSUME NEW k \in Calls, NEW L, NEW M, CallCounts(k, L), Grows(L, M),
           k.pc = "answer" => k.i \in Ops
    PROVE  CallCounts(k, M)
<1>1. k.i \in Int /\ k.i + 1 \in Int /\ k.doc.from \in Int /\ k.applied \in Int /\ k.doc.applied \in Int
  BY BatchAssumption DEF Calls, Docs, Froms
<1>2. \A f \in Int : Count(L, f) \in Nat /\ Count(M, f) \in Nat /\ Count(L, f) <= Count(M, f)
  BY CountGrows
<1>3. k.pc = "answer" /\ k.result = "ok" => M[k.i] > 0
  BY DEF CallCounts, Grows
<1> QED
  BY <1>1, <1>2, <1>3 DEF CallCounts

------------------------------------------------------------------------------
(* What each step does to the call that it is a step of.                   *)

\* The call keeps what it began with.
Begun(x, k) == x.fn = k.fn /\ x.start = k.start /\ x.prior = k.prior

\* Its entry says that the operations from f on are left, in state s.
Entry(x, s, f) ==
    x.doc.state = s /\ x.doc.from = f /\ x.doc.applied = x.applied /\ x.doc.pid = pid

\* A step of one call that writes no file and answers nothing.
Moves(c) ==
    /\ UNCHANGED <<submitted, preRefused, journal, pid, resp, mishaps>>
    /\ \A d \in Callers \ {c} : call'[d] = call[d]

\* A call that starts has counted what the journal had, and no operation yet.
LEMMA StartedFields ==
    ASSUME pid \in Nat, NEW fn \in Functions, NEW start \in Froms, NEW prior \in Int,
           NEW x, x = Started(fn, start, prior)
    PROVE  /\ x.pc = "open" /\ x.then = "apply" /\ x.fn = fn
           /\ x.start = start /\ x.i = start /\ x.prior = prior /\ x.applied = prior
           /\ x.refused = 0 /\ x.result = "none"
           /\ Entry(x, "applying", start)
  BY DEF Started, Journalling, Idle, Doc, Entry

LEMMA RefusalMoves ==
    ASSUME TypeOK, NEW c \in Callers, SkipOp(c) \/ OpRefused(c)
    PROVE  LET x == call'[c]  k == call[c] IN
           /\ Moves(c) /\ Begun(x, k)
           /\ k.i \in Ops \/ OpRefused(c)
           /\ k.pc = "apply" \/ (k.pc = "answer" /\ k.result = "refused")
           /\ x.pc = "apply" /\ x.i = k.i + 1 /\ x.applied = k.applied
           /\ x.refused = k.refused + 1
           /\ UNCHANGED <<landed, dirty, late>>
<1>1. call[c] \in Calls /\ call \in [Callers -> Calls]
  BY DEF TypeOK
<1>2. call' = [call EXCEPT ![c] = PastRefusal(call[c])]
  BY DEF SkipOp, OpRefused
<1>3. LET x == PastRefusal(call[c])  k == call[c] IN
      /\ Begun(x, k)
      /\ x.pc = "apply" /\ x.i = k.i + 1 /\ x.applied = k.applied /\ x.refused = k.refused + 1
  BY <1>1 DEF PastRefusal, NextOp, Begun, Calls
<1> QED
  BY <1>1, <1>2, <1>3 DEF SkipOp, OpRefused, Moves

LEMMA BridgeMoves ==
    ASSUME TypeOK, NEW c \in Callers,
           BridgeApplies(c) \/ BridgeLeaves(c) \/ BridgeRejects(c) \/ BridgeTimesOut(c)
    PROVE  LET x == call'[c]  k == call[c] IN
           /\ Moves(c) /\ Begun(x, k)
           /\ k.pc = "apply" /\ k.i \in Ops
           /\ x.pc = "answer" /\ x.i = k.i /\ x.applied = k.applied /\ x.refused = k.refused
           /\ \/ /\ x.result \in {"ok", "unknown"} /\ landed' = Bump(k.i)
                 /\ UNCHANGED <<dirty, late>>
              \/ /\ x.result \in {"partial", "left"} /\ dirty' = dirty \cup {k.i}
                 /\ UNCHANGED <<landed, late>>
              \/ /\ x.result \in {"refused", "rejected"} /\ UNCHANGED <<landed, dirty, late>>
              \/ /\ x.result = "unknown" /\ late' = late \cup {k.i} /\ UNCHANGED <<landed, dirty>>
<1>1. call[c] \in Calls /\ call \in [Callers -> Calls]
  BY DEF TypeOK
<1>2. PICK r \in Results :
        /\ call' = [call EXCEPT ![c].pc = "answer", ![c].result = r]
        /\ \/ r \in {"ok", "unknown"} /\ landed' = Bump(call[c].i) /\ UNCHANGED <<dirty, late>>
           \/ /\ r \in {"partial", "left"} /\ dirty' = dirty \cup {call[c].i}
              /\ UNCHANGED <<landed, late>>
           \/ r \in {"refused", "rejected"} /\ UNCHANGED <<landed, dirty, late>>
           \/ r = "unknown" /\ late' = late \cup {call[c].i} /\ UNCHANGED <<landed, dirty>>
  <2>1. CASE BridgeApplies(c)
    BY <2>1 DEF BridgeApplies, Results
  <2>2. CASE BridgeRejects(c)
    BY <2>2 DEF BridgeRejects, Results, model
  <2>3. CASE BridgeTimesOut(c)
    BY <2>3 DEF BridgeTimesOut, Results
  <2>4. CASE BridgeLeaves(c)
    BY <2>4 DEF BridgeLeaves, Results
  <2> QED
    BY <2>1, <2>2, <2>3, <2>4
<1>3. LET x == call'[c]  k == call[c] IN
      /\ Begun(x, k) /\ x.pc = "answer" /\ x.result = r
      /\ x.i = k.i /\ x.applied = k.applied /\ x.refused = k.refused
  BY <1>1, <1>2 DEF Begun, Calls
<1>4. Moves(c) /\ call[c].pc = "apply" /\ call[c].i \in Ops
  BY <1>1, <1>2 DEF BridgeApplies, BridgeLeaves, BridgeRejects, BridgeTimesOut, Moves
<1> QED
  BY <1>2, <1>3, <1>4

LEMMA AppliedMoves ==
    ASSUME TypeOK, NEW c \in Callers, OpApplied(c)
    PROVE  LET x == call'[c]  k == call[c] IN
           /\ Moves(c) /\ Begun(x, k)
           /\ k.pc = "answer" /\ k.result = "ok"
           /\ x.pc = "open" /\ x.then = "boundary" /\ x.i = k.i /\ x.refused = k.refused
           /\ x.applied = k.prior + (k.i - k.start + 1) - k.refused
           /\ Entry(x, "applying", k.i + 1)
           /\ UNCHANGED <<landed, dirty, late>>
<1>1. call[c] \in Calls /\ call \in [Callers -> Calls]
  BY DEF TypeOK
<1> DEFINE k == [call[c] EXCEPT !.applied = AppliedAfter(call[c])]
           x == Journalling(k, Doc("applying", k.i + 1, k.applied, pid), "boundary")
<1>2. call' = [call EXCEPT ![c] = x]
  BY DEF OpApplied
<1>3. /\ Begun(x, call[c])
      /\ x.pc = "open" /\ x.then = "boundary" /\ x.i = call[c].i /\ x.refused = call[c].refused
      /\ x.applied = AppliedAfter(call[c])
      /\ Entry(x, "applying", call[c].i + 1)
  BY <1>1 DEF Journalling, Doc, Begun, Entry, Calls
<1> HIDE DEF x
<1>4. call'[c] = x /\ \A d \in Callers \ {c} : call'[d] = call[d]
  BY <1>1, <1>2
<1> QED
  BY <1>3, <1>4 DEF OpApplied, Moves, model, AppliedAfter

LEMMA EndMoves ==
    ASSUME TypeOK, NEW c \in Callers, NEW s, NEW f, EndsWith(c, s, f)
    PROVE  LET x == call'[c]  k == call[c] IN
           /\ Begun(x, k)
           /\ x.pc = "open" /\ x.then = "idle" /\ x.i = k.i /\ x.refused = k.refused
           /\ x.applied = k.applied /\ x.result = k.result
           /\ Entry(x, s, f)
           /\ \A d \in Callers \ {c} : call'[d] = call[d]
<1>1. call[c] \in Calls /\ call \in [Callers -> Calls]
  BY DEF TypeOK
<1> DEFINE x == Journalling(call[c], Doc(s, f, call[c].applied, pid), "idle")
<1>2. call' = [call EXCEPT ![c] = x]
  BY DEF EndsWith
<1>3. /\ Begun(x, call[c])
      /\ x.pc = "open" /\ x.then = "idle" /\ x.i = call[c].i /\ x.refused = call[c].refused
      /\ x.applied = call[c].applied /\ x.result = call[c].result
      /\ Entry(x, s, f)
  BY <1>1 DEF Journalling, Doc, Begun, Entry, Calls
<1> HIDE DEF x
<1>4. call'[c] = x /\ \A d \in Callers \ {c} : call'[d] = call[d]
  BY <1>1, <1>2
<1> QED
  BY <1>3, <1>4

LEMMA GoesOnMoves ==
    ASSUME TypeOK, NEW c \in Callers, ChunkGoesOn(c)
    PROVE  LET x == call'[c]  k == call[c] IN
           /\ Moves(c) /\ Begun(x, k)
           /\ k.pc = "boundary"
           /\ x.pc = "apply" /\ x.i = k.i + 1 /\ x.applied = k.applied /\ x.refused = k.refused
           /\ UNCHANGED <<landed, dirty, late>>
<1>1. call[c] \in Calls /\ call \in [Callers -> Calls]
  BY DEF TypeOK
<1>2. call' = [call EXCEPT ![c] = NextOp(call[c])]
  BY DEF ChunkGoesOn
<1>3. LET x == NextOp(call[c])  k == call[c] IN
      /\ Begun(x, k)
      /\ x.pc = "apply" /\ x.i = k.i + 1 /\ x.applied = k.applied /\ x.refused = k.refused
  BY <1>1 DEF NextOp, Begun, Calls
<1> QED
  BY <1>1, <1>2, <1>3 DEF ChunkGoesOn, Moves, model

\* A call that opens its journal changes in nothing else.
LEMMA OpenMoves ==
    ASSUME TypeOK, NEW c \in Callers, OpenJournal(c)
    PROVE  LET x == call'[c]  k == call[c] IN
           /\ Begun(x, k)
           /\ k.pc = "open" /\ x.pc = "fill" /\ x.then = k.then /\ x.i = k.i
           /\ x.applied = k.applied /\ x.refused = k.refused /\ x.result = k.result
           /\ x.doc = k.doc
           /\ \A d \in Callers \ {c} : call'[d] = call[d]
           /\ journal'.state = "torn" /\ journal'.from = journal.from
           /\ journal'.applied = journal.applied
           /\ UNCHANGED <<submitted, pid, resp, landed, dirty, late, mishaps>>
<1>1. call[c] \in Calls /\ call \in [Callers -> Calls] /\ journal \in Docs
  BY DEF TypeOK
<1>2. call' = [call EXCEPT ![c].pc = "fill"] /\ journal' = [journal EXCEPT !.state = "torn"]
  BY DEF OpenJournal
<1>3. LET x == call'[c]  k == call[c] IN
      /\ Begun(x, k) /\ x.pc = "fill" /\ x.then = k.then /\ x.i = k.i
      /\ x.applied = k.applied /\ x.refused = k.refused /\ x.result = k.result
      /\ x.doc = k.doc
  BY <1>1, <1>2 DEF Begun, Calls
<1>4. /\ journal'.state = "torn" /\ journal'.from = journal.from
      /\ journal'.applied = journal.applied
  BY <1>1, <1>2 DEF Docs
<1>5. \A d \in Callers \ {c} : call'[d] = call[d]
  BY <1>1, <1>2
<1>6. call[c].pc = "open" /\ UNCHANGED <<submitted, pid, resp, landed, dirty, late, mishaps>>
  BY DEF OpenJournal, model
<1> QED
  BY <1>3, <1>4, <1>5, <1>6

\* A call that is done with its journal goes on in its loop, or answers what it wrote.
LEMMA GoOnMoves ==
    ASSUME TypeOK, NEW c \in Callers, GoOn(c)
    PROVE  LET x == call'[c]  k == call[c] IN
           /\ \A d \in Callers \ {c} : call'[d] = call[d]
           /\ \/ /\ k.then # "idle" /\ resp' = resp /\ Begun(x, k)
                 /\ x.pc = k.then /\ x.then = "idle" /\ x.i = k.i /\ x.applied = k.applied
                 /\ x.refused = k.refused /\ x.result = k.result
              \/ /\ k.then = "idle" /\ x = Idle
                 /\ resp'[c].state = k.doc.state /\ resp'[c].applied = k.doc.applied
                 /\ resp'[c].result = k.result
                 /\ \A d \in Callers \ {c} : resp'[d] = resp[d]
<1>1. call[c] \in Calls /\ call \in [Callers -> Calls] /\ resp \in [Callers -> Resps]
  BY DEF TypeOK
<1>2. CASE call[c].then # "idle"
  <2> DEFINE x == [call[c] EXCEPT !.pc = call[c].then, !.doc = Absent, !.then = "idle"]
  <2>1. call' = [call EXCEPT ![c] = x] /\ resp' = resp
    BY <1>2 DEF GoOn
  <2>2. LET k == call[c] IN
        /\ Begun(x, k) /\ x.pc = k.then /\ x.then = "idle" /\ x.i = k.i /\ x.applied = k.applied
        /\ x.refused = k.refused /\ x.result = k.result
    BY <1>1 DEF Begun, Calls
  <2> HIDE DEF x
  <2>3. call'[c] = x /\ \A d \in Callers \ {c} : call'[d] = call[d]
    BY <1>1, <2>1
  <2> QED
    BY <1>2, <2>1, <2>2, <2>3
<1>3. CASE call[c].then = "idle"
  <2> DEFINE r == [state |-> call[c].doc.state, applied |-> call[c].doc.applied,
                   result |-> call[c].result]
  <2>1. call' = [call EXCEPT ![c] = Idle] /\ resp' = [resp EXCEPT ![c] = r]
    BY <1>3 DEF GoOn
  <2>2. call'[c] = Idle /\ \A d \in Callers \ {c} : call'[d] = call[d]
    BY <1>1, <2>1
  <2>3. resp'[c] = r /\ \A d \in Callers \ {c} : resp'[d] = resp[d]
    BY <1>1, <2>1
  <2> QED
    BY <1>3, <2>2, <2>3
<1> QED
  BY <1>2, <1>3

------------------------------------------------------------------------------
(* The counters.                                                           *)

\* Landing and counting as they are at the start.
LEMMA CountsInit == Init => Counts
<1> SUFFICES ASSUME Init PROVE Counts
  OBVIOUS
<1>1. journal.applied = 0 /\ journal.from = 1 /\ journal.state = "absent"
  BY DEF Init, Absent, Doc
<1>2. Grows(landed, landed) /\ NOps + 1 \in Int
  BY BatchAssumption DEF Grows
<1>3. Count(landed, 1) = 0 /\ Count(landed, NOps + 1) \in Nat
  BY <1>2, CountNone, CountGrows
<1>4. \A c \in Callers : resp[c].applied = 0 /\ call[c] = Idle
  BY DEF Init, Silence
<1>5. CallCounts(Idle, landed)
  BY DEF CallCounts, Working, Passed, Writing, Idle
<1> QED
  BY <1>1, <1>3, <1>4, <1>5 DEF Counts, ChunkedHasWork

\* What lands elsewhere takes nothing away from the other calls' counters.
LEMMA CountsOthers ==
    ASSUME IInv, Counts, NEW c \in Callers,
           \A d \in Callers \ {c} : call'[d] = call[d], Grows(landed, landed')
    PROVE  \A d \in Callers \ {c} : CallCounts(call'[d], landed')
<1> SUFFICES ASSUME NEW d \in Callers \ {c} PROVE CallCounts(call[d], landed')
  OBVIOUS
<1>1. call[d] \in Calls /\ (call[d].pc = "answer" => call[d].i \in Ops)
  BY DEF IInv, TypeOK, CallSound
<1>2. CallCounts(call[d], landed)
  BY DEF Counts
<1> QED
  BY <1>1, <1>2, CallCountsGrow

\* The journal and the answers claim no more than before, of no less.
LEMMA CountsFiles ==
    ASSUME IInv, Counts, Grows(landed, landed')
    PROVE  /\ journal.applied <= Count(landed', journal.from)
           /\ \A c \in Callers : resp[c].applied <= Count(landed', NOps + 1)
<1>1. /\ journal.applied \in Int /\ journal.from \in Int /\ NOps + 1 \in Int
      /\ \A c \in Callers : resp[c].applied \in Int
  BY BatchAssumption DEF IInv, TypeOK, Docs, Froms, Resps
<1>2. \A f \in Int : Count(landed, f) \in Nat /\ Count(landed', f) \in Nat
                    /\ Count(landed, f) <= Count(landed', f)
  BY CountGrows
<1> QED
  BY <1>1, <1>2 DEF Counts

LEMMA CountsMove ==
    ASSUME IInv, Counts, NEW c \in Callers, Moves(c), Grows(landed, landed'),
           CallCounts(call'[c], landed')
    PROVE  Counts'
<1>1. \A d \in Callers : CallCounts(call'[d], landed')
  BY CountsOthers DEF Moves
<1>2. /\ journal.applied <= Count(landed', journal.from)
      /\ \A d \in Callers : resp[d].applied <= Count(landed', NOps + 1)
  BY CountsFiles
<1> QED
  BY <1>1, <1>2 DEF Counts, Moves, ChunkedHasWork

\* The loop passes an operation, or ends.
LEMMA CountsLoop ==
    ASSUME IInv, IInv', Counts, NEW c \in Callers,
           CallStep(c), ~OpenJournal(c), ~FillJournal(c)
    PROVE  Counts'
<1> DEFINE k == call[c]
           x == call'[c]
<1>1. /\ TypeOK /\ landed \in [Ops -> 0 .. 2] /\ landed' \in [Ops -> 0 .. 2]
      /\ k \in Calls /\ x \in Calls /\ CallSound(k) /\ CallCounts(k, landed)
  BY DEF IInv, TypeOK, Counts
<1>2. /\ k.i \in Froms /\ k.i \in Nat /\ k.i + 1 \in Int /\ k.applied \in Int /\ k.prior \in Int
      /\ k.start \in Int /\ k.refused \in Int
      /\ k.pc \in {"answer", "boundary"} => k.i \in Ops
  BY <1>1, BatchAssumption DEF Calls, Froms, CallSound
<1> HIDE DEF k, x
<1>3. CASE SkipOp(c) \/ OpRefused(c)
  <2>1. /\ Moves(c) /\ Begun(x, k)
        /\ k.pc = "apply" \/ (k.pc = "answer" /\ k.result = "refused")
        /\ x.pc = "apply" /\ x.i = k.i + 1 /\ x.applied = k.applied
        /\ x.refused = k.refused + 1
        /\ landed' = landed
    BY <1>1, <1>3, RefusalMoves DEF k, x
  <2>2. Grows(landed, landed')
    BY <2>1 DEF Grows
  <2>3. Count(landed, k.i) \in Nat /\ Count(landed', k.i + 1) \in Nat
        /\ Count(landed, k.i) <= Count(landed', k.i + 1)
    BY <1>2, <2>2, CountGrows
  <2>4. CallCounts(x, landed')
    BY <1>1, <1>2, <2>1, <2>3 DEF CallCounts, Begun, Working, Passed, Writing
  <2> QED
    BY <2>1, <2>2, <2>4, CountsMove DEF x
<1>4. CASE BridgeApplies(c) \/ BridgeLeaves(c) \/ BridgeRejects(c) \/ BridgeTimesOut(c)
  <2>1. /\ Moves(c) /\ Begun(x, k)
        /\ k.pc = "apply" /\ k.i \in Ops
        /\ x.pc = "answer" /\ x.i = k.i /\ x.applied = k.applied /\ x.refused = k.refused
        /\ (landed' = landed /\ x.result # "ok") \/ landed' = Bump(k.i)
    BY <1>1, <1>4, BridgeMoves DEF k, x
  <2>2. Grows(landed, landed') /\ (x.result = "ok" => landed'[k.i] > 0)
    BY <1>1, <2>1, BumpSettles DEF Grows
  <2>3. Count(landed, k.i) \in Nat /\ Count(landed', k.i) \in Nat
        /\ Count(landed, k.i) <= Count(landed', k.i)
    BY <1>2, <2>2, CountGrows
  <2>4. CallCounts(x, landed')
    BY <1>1, <1>2, <2>1, <2>2, <2>3 DEF CallCounts, Begun, Working, Passed, Writing
  <2> QED
    BY <2>1, <2>2, <2>4, CountsMove DEF x
<1>5. CASE OpApplied(c)
  <2>1. /\ Moves(c) /\ Begun(x, k)
        /\ k.pc = "answer" /\ k.result = "ok"
        /\ x.pc = "open" /\ x.then = "boundary" /\ x.i = k.i /\ x.refused = k.refused
        /\ x.applied = k.prior + (k.i - k.start + 1) - k.refused
        /\ Entry(x, "applying", k.i + 1)
        /\ landed' = landed
    BY <1>1, <1>5, AppliedMoves DEF k, x
  <2>2. Grows(landed, landed') /\ k.i \in Ops /\ landed[k.i] > 0
    BY <1>1, <1>2, <2>1 DEF Grows, CallCounts
  <2>3. Count(landed, k.i) \in Nat /\ Count(landed', k.i + 1) = Count(landed, k.i) + 1
    BY <1>1, <2>1, <2>2, CountNext
  <2>4. CallCounts(x, landed')
    BY <1>1, <1>2, <2>1, <2>3 DEF CallCounts, Begun, Entry, Working, Passed, Writing
  <2> QED
    BY <2>1, <2>2, <2>4, CountsMove DEF x
<1>6. CASE OpFailed(c) \/ ChunkEnds(c) \/ Finish(c)
  <2>1. PICK s, f : /\ EndsWith(c, s, f)
                    /\ \/ k.pc \in {"apply", "answer"} /\ f = k.i /\ s # "chunked"
                       \/ k.pc = "boundary" /\ f = k.i + 1 /\ f \in Ops
    <3>1. CASE OpFailed(c)
      <4>1. FailureState(k) # "chunked"
        BY DEF FailureState
      <4> QED
        BY <3>1, <4>1 DEF OpFailed, k
    <3>2. CASE ChunkEnds(c)
      <4>1. k.pc = "boundary" /\ k.i < NOps /\ EndsWith(c, "chunked", k.i + 1)
        BY <3>2 DEF ChunkEnds, k
      <4>2. k.i + 1 \in Ops
        BY <1>2, <4>1, BatchAssumption DEF Ops
      <4> QED
        BY <4>1, <4>2
    <3>3. CASE Finish(c)
      BY <3>3 DEF Finish, k
    <3> QED
      BY <1>6, <3>1, <3>2, <3>3
  <2>2. /\ Begun(x, k)
        /\ x.pc = "open" /\ x.then = "idle" /\ x.i = k.i /\ x.refused = k.refused
        /\ x.applied = k.applied /\ x.result = k.result
        /\ Entry(x, s, f)
        /\ \A d \in Callers \ {c} : call'[d] = call[d]
    BY <1>1, <2>1, EndMoves DEF k, x
  <2>3. Moves(c) /\ landed' = landed
    BY <1>6, <2>2 DEF Moves, OpFailed, ChunkEnds, Finish, model
  <2>4. Grows(landed, landed')
    BY <2>3 DEF Grows
  <2>5. CallCounts(x, landed')
    BY <1>1, <1>2, <2>1, <2>2, <2>3 DEF CallCounts, Begun, Entry, Working, Passed, Writing
  <2> QED
    BY <2>3, <2>4, <2>5, CountsMove DEF x
<1>7. CASE ChunkGoesOn(c)
  <2>1. /\ Moves(c) /\ Begun(x, k)
        /\ k.pc = "boundary"
        /\ x.pc = "apply" /\ x.i = k.i + 1 /\ x.applied = k.applied /\ x.refused = k.refused
        /\ landed' = landed
    BY <1>1, <1>7, GoesOnMoves DEF k, x
  <2>2. Grows(landed, landed')
    BY <2>1 DEF Grows
  <2>3. CallCounts(x, landed')
    BY <1>1, <1>2, <2>1 DEF CallCounts, Begun, Working, Passed, Writing
  <2> QED
    BY <2>1, <2>2, <2>3, CountsMove DEF x
<1> QED
  BY <1>3, <1>4, <1>5, <1>6, <1>7 DEF CallStep

\* A call that begins has the journal's count, or none.
LEMMA CountsBegins ==
    ASSUME IInv, IInv', Counts, NEW c \in Callers, Submit(c) \/ Continue(c)
    PROVE  Counts'
<1> DEFINE x == call'[c]
<1>1. /\ call \in [Callers -> Calls] /\ resp \in [Callers -> Resps] /\ pid \in Nat
      /\ journal \in Docs /\ journal.from \in Froms /\ journal.applied \in Int
  BY DEF IInv, TypeOK, Docs
<1>2. /\ UNCHANGED <<landed, journal>> /\ resp' = [resp EXCEPT ![c] = Silence]
  BY DEF Submit, Continue, model
<1>3. PICK fn \in Functions, start \in Froms, prior \in Int :
        /\ call' = [call EXCEPT ![c] = Started(fn, start, prior)]
        /\ 0 <= prior /\ prior <= Count(landed, start)
        /\ fn = "bridge_edit_continue" => 1 <= prior
  <2>1. CASE Submit(c)
    <3>1. Count(landed, 1) = 0 /\ 1 \in Froms /\ "bridge_edit" \in Functions
      BY CountNone, BatchAssumption DEF Froms, Functions
    <3>2. call' = [call EXCEPT ![c] = Started("bridge_edit", 1, 0)]
      BY <2>1 DEF Submit
    <3>3. 0 \in Int /\ 0 <= 0 /\ 0 <= Count(landed, 1)
      BY <3>1
    <3> QED
      BY ONLY <3>1, <3>2, <3>3, Zenon
  <2>2. CASE Continue(c)
    <3>1. /\ journal.state = "chunked" /\ "bridge_edit_continue" \in Functions
          /\ call' = [call EXCEPT ![c] =
                        Started("bridge_edit_continue", journal.from, journal.applied)]
      BY <2>2 DEF Continue, Functions
    <3> QED
      BY <1>1, <3>1 DEF Counts, ChunkedHasWork
  <2> QED
    BY <2>1, <2>2
<1>4. x = Started(fn, start, prior) /\ \A d \in Callers \ {c} : call'[d] = call[d]
  BY <1>1, <1>3
<1> HIDE DEF x
<1>5. /\ x.pc = "open" /\ x.then = "apply" /\ x.fn = fn
      /\ x.start = start /\ x.i = start /\ x.prior = prior /\ x.applied = prior
      /\ x.refused = 0 /\ Entry(x, "applying", start)
  BY <1>1, <1>3, <1>4, StartedFields
<1>6. CallCounts(x, landed')
  BY <1>2, <1>3, <1>5, BatchAssumption DEF CallCounts, Entry, Working, Passed, Writing, Froms
<1>7. Grows(landed, landed')
  BY <1>2 DEF Grows
<1>8. \A d \in Callers : CallCounts(call'[d], landed')
  BY <1>4, <1>6, <1>7, CountsOthers DEF x
<1>9. \A d \in Callers : resp'[d].applied <= Count(landed', NOps + 1)
  <2>1. Count(landed', NOps + 1) \in Nat
    BY <1>7, CountGrows, BatchAssumption
  <2>2. \A d \in Callers : resp'[d].applied = 0 \/ resp'[d] = resp[d]
    BY <1>1, <1>2 DEF Silence
  <2> QED
    BY <1>2, <2>1, <2>2 DEF Counts
<1> QED
  BY <1>2, <1>8, <1>9 DEF Counts, ChunkedHasWork

\* What a call writes to its journal, and then answers, it has counted.
LEMMA CountsJournal ==
    ASSUME IInv, IInv', Counts, NEW c \in Callers,
           OpenJournal(c) \/ FillJournal(c) \/ JournalError(c)
    PROVE  Counts'
<1> DEFINE k == call[c]
           x == call'[c]
<1>1. /\ TypeOK /\ k \in Calls /\ CallSound(k) /\ CallCounts(k, landed) /\ Writing(k)
      /\ k.doc.from \in Froms /\ k.doc.from \in Int /\ NOps + 1 \in Int
      /\ k.doc.applied \in Int /\ k.then \in {"idle", "apply", "boundary"}
  BY BatchAssumption DEF IInv, TypeOK, Counts, OpenJournal, FillJournal, JournalError, Writing,
     Calls, Docs, Froms, CallSound
<1>2. landed' = landed /\ Grows(landed, landed')
  BY DEF OpenJournal, FillJournal, JournalError, model, Grows
<1> HIDE DEF k, x
<1>3. CASE OpenJournal(c)
  <2>1. /\ Begun(x, k) /\ k.pc = "open" /\ x.pc = "fill" /\ x.then = k.then /\ x.i = k.i
        /\ x.applied = k.applied /\ x.refused = k.refused /\ x.doc = k.doc
        /\ \A d \in Callers \ {c} : call'[d] = call[d]
        /\ journal'.state = "torn" /\ journal'.from = journal.from
        /\ journal'.applied = journal.applied /\ resp' = resp
    BY <1>1, <1>3, OpenMoves DEF k, x
  <2>2. CallCounts(x, landed')
    BY <1>1, <1>2, <2>1 DEF CallCounts, Begun, Working, Passed, Writing
  <2>3. \A d \in Callers : CallCounts(call'[d], landed')
    BY <1>2, <2>1, <2>2, CountsOthers DEF x
  <2> QED
    BY <1>2, <2>1, <2>3 DEF Counts, ChunkedHasWork
<1>4. CASE FillJournal(c) \/ JournalError(c)
  <2>1. /\ \A d \in Callers \ {c} : call'[d] = call[d]
        /\ \/ /\ k.then # "idle" /\ resp' = resp /\ Begun(x, k)
              /\ x.pc = k.then /\ x.then = "idle" /\ x.i = k.i /\ x.applied = k.applied
              /\ x.refused = k.refused
           \/ /\ k.then = "idle" /\ x = Idle
              /\ resp'[c].applied = k.doc.applied
              /\ \A d \in Callers \ {c} : resp'[d] = resp[d]
    BY <1>1, <1>4, GoOnMoves DEF FillJournal, JournalError, k, x
  <2>2. CallCounts(x, landed')
    <3>1. CASE k.then # "idle"
      BY <1>1, <1>2, <2>1, <3>1 DEF CallCounts, Begun, Working, Passed, Writing
    <3>2. CASE k.then = "idle"
      BY <2>1, <3>2 DEF CallCounts, Working, Passed, Writing, Idle
    <3> QED
      BY <3>1, <3>2
  <2>3. \A d \in Callers : CallCounts(call'[d], landed')
    BY <1>2, <2>1, <2>2, CountsOthers DEF x
  <2>4. k.doc.applied <= Count(landed, NOps + 1)
    <3>1. k.doc.from <= NOps + 1
      BY <1>1, BatchAssumption DEF Froms
    <3>2. Count(landed, k.doc.from) <= Count(landed, NOps + 1) /\ Count(landed, k.doc.from) \in Nat
          /\ Count(landed, NOps + 1) \in Nat
      BY <1>1, <3>1, CountGrows DEF Grows
    <3> QED
      BY <1>1, <3>2 DEF CallCounts
  <2>5. \A d \in Callers : resp'[d].applied <= Count(landed', NOps + 1)
    BY <1>2, <2>1, <2>4 DEF Counts
  <2>6. \/ journal' = journal
        \/ journal' = k.doc
        \/ /\ journal'.state = "torn" /\ journal'.from = journal.from
           /\ journal'.applied = journal.applied
    <3>1. journal \in Docs
      BY <1>1 DEF TypeOK
    <3> QED
      BY <1>4, <3>1 DEF FillJournal, JournalError, Docs, k
  <2>7. /\ 0 <= journal'.applied /\ journal'.applied <= Count(landed', journal'.from)
        /\ ChunkedHasWork'
    BY <1>1, <1>2, <2>6 DEF Counts, CallCounts, ChunkedHasWork
  <2> QED
    BY <2>3, <2>5, <2>7 DEF Counts
<1> QED
  BY <1>3, <1>4

\* What happens around the calls keeps the counters, and forgets some.
LEMMA CountsAround ==
    ASSUME IInv, IInv', Counts,
           \/ \E c \in Callers : SubmitRefused(c) \/ ContinueRefused(c)
           \/ Restart \/ (\E i \in Ops : LateLanding(i)) \/ Prune \/ UNCHANGED vars
    PROVE  Counts'
<1>1. Grows(landed, landed')
  <2>1. CASE \E i \in Ops : LateLanding(i)
    BY <2>1, BumpSettles DEF Grows, LateLanding, IInv, TypeOK
  <2>2. CASE landed' = landed
    BY <2>2 DEF Grows
  <2> QED
    BY <2>1, <2>2 DEF SubmitRefused, ContinueRefused, Restart, Prune, vars, model
<1>2. /\ journal.applied <= Count(landed', journal.from)
      /\ \A c \in Callers : resp[c].applied <= Count(landed', NOps + 1)
      /\ Count(landed', 1) = 0 /\ Count(landed', NOps + 1) \in Nat
  BY <1>1, CountsFiles, CountNone, CountGrows, BatchAssumption
<1>3. journal' = journal \/ journal' = Absent
  BY DEF SubmitRefused, ContinueRefused, Restart, LateLanding, Prune, vars
<1>4. /\ 0 <= journal'.applied /\ journal'.applied <= Count(landed', journal'.from)
      /\ ChunkedHasWork'
  BY <1>2, <1>3 DEF Counts, ChunkedHasWork, Absent, Doc
<1>5. \A c \in Callers : resp'[c].applied <= Count(landed', NOps + 1)
  <2>1. ASSUME NEW c \in Callers, SubmitRefused(c) \/ ContinueRefused(c)
        PROVE  \A d \in Callers : resp'[d].applied \in {resp[d].applied, 0}
    <3>1. resp \in [Callers -> Resps]
      BY DEF IInv, TypeOK
    <3>2. PICK a : \/ resp' = [resp EXCEPT ![c].state = a]
                   \/ resp' = [resp EXCEPT ![c] = [Silence EXCEPT !.state = a]]
      BY <2>1 DEF SubmitRefused, ContinueRefused
    <3> QED
      BY <3>1, <3>2 DEF Resps, Silence
  <2>2. CASE resp' = resp
    BY <1>2, <2>2
  <2>3. CASE \A d \in Callers : resp'[d].applied \in {resp[d].applied, 0}
    BY <1>2, <2>3
  <2> QED
    BY <2>1, <2>2, <2>3 DEF Restart, LateLanding, Prune, vars
<1>6. \A c \in Callers : CallCounts(call'[c], landed')
  <2>1. CASE Restart
    BY <2>1 DEF Restart, CallCounts, Working, Passed, Writing, Idle
  <2>2. CASE call' = call
    <3>1. ASSUME NEW c \in Callers PROVE CallCounts(call[c], landed')
      <4>1. call[c] \in Calls /\ (call[c].pc = "answer" => call[c].i \in Ops)
        BY DEF IInv, TypeOK, CallSound
      <4> QED
        BY <1>1, <4>1, CallCountsGrow DEF Counts
    <3> QED
      BY <2>2, <3>1
  <2> QED
    BY <2>1, <2>2 DEF SubmitRefused, ContinueRefused, LateLanding, Prune, vars
<1> QED
  BY <1>4, <1>5, <1>6 DEF Counts

LEMMA CountsInductive == IInv /\ Counts /\ [Next]_vars => Counts'
<1> SUFFICES ASSUME IInv, Counts, [Next]_vars PROVE Counts'
  OBVIOUS
<1>1. IInv'
  BY Inductive
<1>2. ASSUME NEW c \in Callers, Submit(c) \/ Continue(c) PROVE Counts'
  BY <1>1, <1>2, CountsBegins
<1>3. ASSUME NEW c \in Callers, CallStep(c) \/ JournalError(c) PROVE Counts'
  BY <1>1, <1>3, CountsJournal, CountsLoop
<1> QED
  BY <1>1, <1>2, <1>3, CountsAround DEF Next

\* Whatever interleaves, crashes or fails to be written, a chunked journal has operations
\* left and at least one applied: continuing it never meets an empty remainder.
THEOREM ChunksLeaveWork == Spec => []ChunkedHasWork
<1>1. Counts => ChunkedHasWork
  BY DEF Counts
<1> QED
  BY <1>1, InitIInv, Inductive, CountsInit, CountsInductive, PTL DEF Spec

------------------------------------------------------------------------------
(* What "failed" means.                                                    *)

Untouched == dirty = {} /\ late = {} /\ \A j \in Ops : landed[j] = 0

FailedKnown(r) == r.state = "failed" /\ r.result # "unknown"

\* All that the model holds of a batch that failed on an operation with this result.
Residue(r) ==
    /\ late = {} /\ \A j \in Ops : landed[j] = 0
    /\ dirty \in IF r = "left" THEN {{j} : j \in Ops} ELSE {{}}

\* The call that submitted the batch has touched nothing while its counter is zero and it
\* knows the outcome of its last operation; one that continues it never ends in "failed".
CallFirst(k) ==
    /\ Writing(k) /\ k.then # "idle" => k.doc.state = "applying"
    /\ k.fn = "bridge_edit_continue" => ~ (Ending(k) /\ k.doc.state = "failed")
    /\ k.fn = "bridge_edit" =>
          /\ Working(k) /\ k.applied = 0 => Untouched
          /\ k.pc = "answer" /\ k.applied = 0 /\ k.result \in {"refused", "rejected", "left"}
                => Residue(k.result)
          /\ Ending(k) /\ k.doc.state = "failed" /\ k.result # "unknown" => Residue(k.result)

\* Before the batch is submitted there is nothing of it.
Unbegun == ~submitted => Untouched /\ Quiet /\ journal = Absent /\ ~Stopped

\* As long as the call that submitted the batch is at work it is the only one.
FirstAlone ==
    \A c \in Callers : Busy(c) /\ call[c].fn = "bridge_edit" =>
        /\ journal.state # "chunked"
        /\ \A d \in Callers : resp[d].state # "failed" /\ (Busy(d) => d = c)

\* After a failure whose outcome is known nothing is at work on the batch, ever.
FailedOver ==
    \A c \in Callers : FailedKnown(resp[c]) =>
        Residue(resp[c].result) /\ Quiet /\ journal.state # "chunked"

Firsts ==
    /\ Unbegun /\ FirstAlone /\ FailedOver
    /\ \A c \in Callers : Busy(c) => CallFirst(call[c])

LEMMA FirstsInit == Init => Firsts
<1> SUFFICES ASSUME Init PROVE Firsts
  OBVIOUS
<1>1. /\ Untouched /\ journal = Absent /\ journal.state = "absent"
      /\ \A c \in Callers : call[c].pc = "idle" /\ resp[c].state = "none"
  BY DEF Init, Untouched, Idle, Silence, Absent, Doc
<1> QED
  BY <1>1 DEF Firsts, Unbegun, FirstAlone, FailedOver, FailedKnown, Quiet, Busy, Stopped

\* A call that is at work says much about the others.
LEMMA BusyFacts ==
    ASSUME Firsts, NEW c \in Callers, Busy(c)
    PROVE  /\ submitted /\ \A d \in Callers : ~FailedKnown(resp[d])
           /\ \A d \in Callers \ {c} : Busy(d) => call[d].fn # "bridge_edit"
           /\ call[c].fn = "bridge_edit" => \A d \in Callers \ {c} : ~Busy(d)
  BY DEF Firsts, Unbegun, FailedOver, FirstAlone, Quiet

\* A step of a call that keeps to the loop and to its own part keeps them all.
LEMMA FirstsMove ==
    ASSUME IInv, Firsts, NEW c \in Callers, Busy(c), Moves(c),
           call'[c].fn = call[c].fn, call'[c].pc # "idle", CallFirst(call[c])'
    PROVE  Firsts'
<1>1. /\ submitted /\ \A d \in Callers : ~FailedKnown(resp[d])
      /\ \A d \in Callers \ {c} : Busy(d) => call[d].fn # "bridge_edit"
      /\ call[c].fn = "bridge_edit" => \A d \in Callers \ {c} : ~Busy(d)
  BY BusyFacts
<1>2. UNCHANGED <<submitted, journal, resp>> /\ \A d \in Callers \ {c} : call'[d] = call[d]
  BY DEF Moves
<1>3. Unbegun' /\ FailedOver'
  BY <1>1, <1>2 DEF Unbegun, FailedOver, FailedKnown
<1>4. FirstAlone'
  BY <1>1, <1>2 DEF Firsts, FirstAlone, Busy
<1>5. ASSUME NEW d \in Callers \ {c}, Busy(d)'
      PROVE  CallFirst(call[d])'
  <2>1. Busy(d) /\ call'[d] = call[d]
    BY <1>2, <1>5 DEF Busy
  <2> QED
    BY <1>1, <2>1 DEF Firsts, CallFirst, Working, Ending, Writing
<1> QED
  BY <1>3, <1>4, <1>5 DEF Firsts

LEMMA FirstsLoop ==
    ASSUME IInv, IInv', Counts, Firsts, NEW c \in Callers,
           CallStep(c), ~OpenJournal(c), ~FillJournal(c)
    PROVE  Firsts'
<1> DEFINE k == call[c]
           x == call'[c]
<1>1. /\ TypeOK /\ k \in Calls /\ k.applied \in Int /\ k.fn \in Functions
      /\ CallSound(k) /\ CallCounts(k, landed)
  BY DEF IInv, TypeOK, Counts, Calls
<1>2. Busy(c) /\ CallFirst(k)
  BY DEF Firsts, CallStep, SkipOp, BridgeApplies, BridgeLeaves, BridgeRejects,
     BridgeTimesOut, OpApplied,
     OpRefused, OpFailed, ChunkEnds, ChunkGoesOn, Finish, Busy
<1> HIDE DEF k, x
<1>3. CASE SkipOp(c) \/ OpRefused(c)
  <2>1. /\ Moves(c) /\ x.fn = k.fn
        /\ k.pc = "apply" \/ (k.pc = "answer" /\ k.result = "refused")
        /\ x.pc = "apply" /\ x.applied = k.applied
        /\ UNCHANGED <<landed, dirty, late>>
    BY <1>1, <1>3, RefusalMoves DEF k, x, Begun
  <2>3. CallFirst(call[c])'
    BY <1>2, <2>1 DEF CallFirst, Working, Ending, Writing, Untouched, Residue, x
  <2> QED
    BY <1>2, <2>1, <2>3, FirstsMove DEF k, x
<1>4. CASE BridgeApplies(c) \/ BridgeLeaves(c) \/ BridgeRejects(c) \/ BridgeTimesOut(c)
  <2>1. /\ Moves(c) /\ x.fn = k.fn /\ k.pc = "apply"
        /\ x.pc = "answer" /\ x.applied = k.applied
        /\ x.result \in {"refused", "rejected"} => UNCHANGED <<landed, dirty, late>>
        /\ x.result = "left" => /\ UNCHANGED <<landed, late>>
                                /\ \E i \in Ops : dirty' = dirty \cup {i}
    BY <1>1, <1>4, BridgeMoves DEF k, x, Begun
  <2>3. CallFirst(call[c])'
    BY <1>2, <2>1 DEF CallFirst, Working, Ending, Writing, Untouched, Residue, x
  <2> QED
    BY <1>2, <2>1, <2>3, FirstsMove DEF k, x
<1>5. CASE OpApplied(c)
  <2>1. /\ Moves(c) /\ x.fn = k.fn
        /\ x.pc = "open" /\ x.then = "boundary" /\ x.doc.state = "applying"
    BY <1>1, <1>5, AppliedMoves DEF k, x, Begun, Entry
  <2>3. CallFirst(call[c])'
    BY <2>1 DEF CallFirst, Working, Ending, Writing, x
  <2> QED
    BY <1>2, <2>1, <2>3, FirstsMove DEF k, x
<1>6. CASE OpFailed(c) \/ ChunkEnds(c) \/ Finish(c)
  <2>1. PICK s, f : /\ EndsWith(c, s, f)
                    /\ s = "failed" => /\ k.pc = "answer" /\ k.result \in {"rejected", "left", "unknown"}
                                       /\ ~ (k.applied > 0)
    <3>1. CASE OpFailed(c)
      BY <3>1 DEF OpFailed, Failures, FailureState, k
    <3>2. CASE ChunkEnds(c) \/ Finish(c)
      BY <3>2 DEF ChunkEnds, Finish, k
    <3> QED
      BY <1>6, <3>1, <3>2
  <2>2. /\ x.fn = k.fn /\ x.pc = "open" /\ x.then = "idle" /\ x.result = k.result
        /\ x.doc.state = s /\ \A d \in Callers \ {c} : call'[d] = call[d]
    BY <1>1, <2>1, EndMoves DEF k, x, Begun, Entry
  <2>3. Moves(c) /\ UNCHANGED <<landed, dirty, late>>
    BY <1>6, <2>2 DEF Moves, OpFailed, ChunkEnds, Finish, model
  <2>4. s = "failed" => k.applied = 0 /\ k.fn # "bridge_edit_continue"
    BY <1>1, <2>1 DEF CallCounts
  <2>5. CallFirst(call[c])'
    BY <1>2, <2>1, <2>2, <2>3, <2>4 DEF CallFirst, Working, Ending, Writing, Untouched, Residue, x
  <2> QED
    BY <1>2, <2>2, <2>3, <2>5, FirstsMove DEF k, x
<1>7. CASE ChunkGoesOn(c)
  <2>1. /\ Moves(c) /\ x.fn = k.fn /\ k.pc = "boundary"
        /\ x.pc = "apply" /\ x.applied = k.applied
    BY <1>1, <1>7, GoesOnMoves DEF k, x, Begun
  <2>2. x.applied # 0
    BY <1>1, <2>1 DEF CallCounts, Passed
  <2>3. CallFirst(call[c])'
    BY <2>1, <2>2 DEF CallFirst, Working, Ending, Writing, x
  <2> QED
    BY <1>2, <2>1, <2>3, FirstsMove DEF k, x
<1> QED
  BY <1>3, <1>4, <1>5, <1>6, <1>7 DEF CallStep

\* The batch is submitted once; and a chunked journal is none of a call that is at work on
\* the first chunk.
LEMMA FirstsBegins ==
    ASSUME IInv, IInv', Counts, Firsts, NEW c \in Callers, Submit(c) \/ Continue(c)
    PROVE  Firsts'
<1> DEFINE x == call'[c]
<1>1. /\ call \in [Callers -> Calls] /\ resp \in [Callers -> Resps] /\ pid \in Nat
      /\ journal \in Docs /\ journal.from \in Froms /\ journal.applied \in Int
  BY DEF IInv, TypeOK, Docs
<1>2. /\ UNCHANGED <<landed, dirty, late, journal>> /\ resp' = [resp EXCEPT ![c] = Silence]
  BY DEF Submit, Continue, model
<1>3. PICK fn \in Functions, start \in Froms, prior \in Int :
        /\ call' = [call EXCEPT ![c] = Started(fn, start, prior)]
        /\ fn = IF Submit(c) THEN "bridge_edit" ELSE "bridge_edit_continue"
  <2>1. "bridge_edit" \in Functions /\ "bridge_edit_continue" \in Functions /\ 1 \in Froms /\ 0 \in Int
    BY BatchAssumption DEF Functions, Froms
  <2>2. CASE Submit(c)
    <3>1. call' = [call EXCEPT ![c] = Started("bridge_edit", 1, 0)]
      BY <2>2 DEF Submit
    <3> QED
      BY ONLY <2>1, <2>2, <3>1, Zenon
  <2>3. CASE ~Submit(c)
    <3>1. call' = [call EXCEPT ![c] = Started("bridge_edit_continue", journal.from, journal.applied)]
      BY <2>3 DEF Continue
    <3> QED
      BY ONLY <1>1, <2>1, <2>3, <3>1, Zenon
  <2> QED
    BY <2>2, <2>3
<1>4. x = Started(fn, start, prior) /\ \A d \in Callers \ {c} : call'[d] = call[d]
  BY <1>1, <1>3
<1> HIDE DEF x
<1>5. x.pc = "open" /\ x.then = "apply" /\ x.fn = fn /\ x.doc.state = "applying"
  BY <1>1, <1>3, <1>4, StartedFields DEF Entry
<1>6. resp'[c].state = "none" /\ \A d \in Callers \ {c} : resp'[d] = resp[d]
  BY <1>1, <1>2 DEF Silence
<1>7. CASE Submit(c)
  <2>1. /\ Untouched /\ Quiet /\ journal.state = "absent" /\ ~Stopped /\ submitted'
    BY <1>7 DEF Submit, Firsts, Unbegun, Absent, Doc
  <2>2. \A d \in Callers : resp'[d].state # "failed"
    BY <1>6, <2>1 DEF Stopped
  <2>3. \A d \in Callers \ {c} : ~Busy(d)'
    BY <1>4, <2>1 DEF Quiet, Busy
  <2>4. CallFirst(call[c])'
    BY <1>2, <1>3, <1>5, <1>7, <2>1 DEF CallFirst, Ending, Writing, Untouched, Residue, x
  <2>5. FirstAlone'
    BY <1>2, <2>1, <2>2, <2>3 DEF FirstAlone
  <2> QED
    BY <2>1, <2>2, <2>3, <2>4, <2>5 DEF Firsts, Unbegun, FailedOver, FailedKnown
<1>8. CASE ~Submit(c)
  <2>1. journal.state = "chunked" /\ submitted' = submitted
    BY <1>8 DEF Continue
  <2>2. submitted /\ ~ \E d \in Callers : FailedKnown(resp[d])
    BY <2>1 DEF Firsts, Unbegun, FailedOver, Absent, Doc
  <2>3. \A d \in Callers : Busy(d) => call[d].fn # "bridge_edit"
    BY <2>1 DEF Firsts, FirstAlone
  <2>4. \A d \in Callers : Busy(d)' => call'[d].fn # "bridge_edit"
    BY <1>3, <1>4, <1>5, <1>8, <2>3 DEF Busy, x
  <2>5. \A d \in Callers : Busy(d)' => CallFirst(call[d])'
    <3>1. CallFirst(call[c])'
      BY <1>3, <1>5, <1>8 DEF CallFirst, Ending, Writing, x
    <3>2. ASSUME NEW d \in Callers \ {c}, Busy(d)' PROVE CallFirst(call[d])'
      BY <1>4, <2>3, <3>2 DEF Firsts, CallFirst, Ending, Writing, Busy
    <3> QED
      BY <3>1, <3>2
  <2>6. \A d \in Callers : ~FailedKnown(resp[d])'
    BY <1>6, <2>2 DEF FailedKnown
  <2> QED
    BY <2>1, <2>2, <2>4, <2>5, <2>6 DEF Firsts, Unbegun, FirstAlone, FailedOver
<1> QED
  BY <1>7, <1>8

\* The first call leaves no chunked journal behind while it is at work, and what it answers
\* when it ends is what it wrote.
LEMMA FirstsJournal ==
    ASSUME IInv, IInv', Firsts, NEW c \in Callers,
           OpenJournal(c) \/ FillJournal(c) \/ JournalError(c)
    PROVE  Firsts'
<1> DEFINE k == call[c]
           x == call'[c]
<1>1. /\ TypeOK /\ k \in Calls /\ k.fn \in Functions /\ CallSound(k) /\ Writing(k)
      /\ k.then \in {"idle", "apply", "boundary"} /\ journal \in Docs
      /\ Busy(c) /\ CallFirst(k)
  BY DEF IInv, TypeOK, OpenJournal, FillJournal, JournalError, Writing, Calls, CallSound,
     Firsts, Busy
<1>2. UNCHANGED <<submitted, landed, dirty, late>>
  BY DEF OpenJournal, FillJournal, JournalError, model
<1>3. /\ submitted /\ \A d \in Callers : ~FailedKnown(resp[d])
      /\ \A d \in Callers \ {c} : Busy(d) => call[d].fn # "bridge_edit"
      /\ k.fn = "bridge_edit" => \A d \in Callers \ {c} : ~Busy(d)
      /\ k.fn = "bridge_edit" => journal.state # "chunked"
                                 /\ \A d \in Callers : resp[d].state # "failed"
  BY <1>1, BusyFacts DEF Firsts, FirstAlone
<1>4. Unbegun'
  BY <1>2, <1>3 DEF Unbegun
<1>5. \A d \in Callers \ {c} : call'[d] = call[d]
  BY <1>1, OpenMoves, GoOnMoves DEF FillJournal, JournalError
<1>6. \A d \in Callers \ {c} : Busy(d)' => CallFirst(call[d])'
  BY <1>3, <1>5 DEF Firsts, CallFirst, Ending, Writing, Busy
<1> HIDE DEF k, x
<1>7. CASE OpenJournal(c)
  <2>1. /\ x.fn = k.fn /\ k.pc = "open" /\ x.pc = "fill" /\ x.then = k.then
        /\ x.applied = k.applied /\ x.result = k.result /\ x.doc = k.doc
        /\ journal'.state = "torn" /\ resp' = resp
    BY <1>1, <1>7, OpenMoves DEF k, x, Begun
  <2>2. CallFirst(call[c])'
    BY <1>1, <1>2, <2>1 DEF CallFirst, Working, Ending, Writing, Untouched, Residue, x
  <2>3. FirstAlone'
    BY <1>3, <1>5, <2>1 DEF FirstAlone, Busy, x
  <2>4. FailedOver'
    BY <1>3, <2>1 DEF FailedOver, FailedKnown
  <2> QED
    BY <1>4, <1>6, <2>2, <2>3, <2>4 DEF Firsts
<1>8. CASE FillJournal(c) \/ JournalError(c)
  <2>1. journal' = journal \/ journal' = k.doc \/ journal'.state = "torn"
    BY <1>1, <1>8 DEF FillJournal, JournalError, Docs, k
  <2>2. \/ /\ k.then # "idle" /\ resp' = resp /\ x.fn = k.fn
           /\ x.pc = k.then /\ x.then = "idle" /\ x.applied = k.applied
        \/ /\ k.then = "idle" /\ x = Idle
           /\ resp'[c].state = k.doc.state /\ resp'[c].result = k.result
           /\ \A d \in Callers \ {c} : resp'[d] = resp[d]
    BY <1>1, <1>8, GoOnMoves DEF FillJournal, JournalError, k, x, Begun
  <2>3. CASE k.then # "idle"
    <3>1. CallFirst(call[c])'
      BY <1>1, <1>2, <2>2, <2>3 DEF CallFirst, Working, Ending, Writing, Untouched, Residue, x
    <3>2. k.doc.state = "applying"
      BY <1>1, <2>3 DEF CallFirst
    <3>3. FirstAlone'
      BY <1>3, <1>5, <2>1, <2>2, <2>3, <3>2 DEF FirstAlone, Busy, x
    <3>4. FailedOver'
      BY <1>3, <2>2, <2>3 DEF FailedOver, FailedKnown
    <3> QED
      BY <1>4, <1>6, <3>1, <3>3, <3>4 DEF Firsts
  <2>4. CASE k.then = "idle"
    <3>1. ~Busy(c)'
      BY <2>2, <2>4 DEF Busy, Idle, x
    <3>2. FirstAlone'
      BY <1>3, <1>5, <3>1 DEF FirstAlone, Busy
    <3>3. FailedOver'
      <4>1. CASE k.fn = "bridge_edit"
        <5>1. Quiet'
          BY <1>3, <1>5, <3>1, <4>1 DEF Quiet, Busy
        <5>2. FailedKnown(resp'[c]) => Residue(resp'[c].result) /\ journal'.state # "chunked"
          BY <1>1, <1>3, <2>1, <2>2, <2>4, <4>1 DEF FailedKnown, CallFirst, Ending
        <5> QED
          BY <1>2, <1>3, <2>2, <2>4, <5>1, <5>2 DEF FailedOver, FailedKnown, Residue
      <4>2. CASE k.fn # "bridge_edit"
        <5>1. k.doc.state # "failed"
          BY <1>1, <2>4, <4>2 DEF CallFirst, Ending, Functions
        <5> QED
          BY <1>3, <2>2, <2>4, <5>1 DEF FailedOver, FailedKnown
      <4> QED
        BY <4>1, <4>2
    <3> QED
      BY <1>4, <1>6, <3>1, <3>2, <3>3 DEF Firsts
  <2> QED
    BY <2>3, <2>4
<1> QED
  BY <1>7, <1>8

\* Answers, restarts, late operations and pruning: nothing lands late on an untouched model.
LEMMA FirstsAround ==
    ASSUME IInv, Firsts,
           \/ \E c \in Callers : SubmitRefused(c) \/ ContinueRefused(c)
           \/ Restart \/ (\E i \in Ops : LateLanding(i)) \/ Prune \/ UNCHANGED vars
    PROVE  Firsts'
<1>1. ASSUME NEW c \in Callers, SubmitRefused(c) \/ ContinueRefused(c)
      PROVE  Firsts'
  <2>1. UNCHANGED <<submitted, journal, call, landed, dirty, late>>
    BY <1>1 DEF SubmitRefused, ContinueRefused, model
  <2>2. resp \in [Callers -> Resps]
    BY DEF IInv, TypeOK
  <2>3. PICK a : /\ a \in {"validated", "no_journal", "mismatch", "not_resumable", "abandoned",
                            "nothing_to_continue"}
                 /\ journal.state = "absent" => a # "abandoned"
                 /\ \/ resp' = [resp EXCEPT ![c].state = a]
                    \/ resp' = [resp EXCEPT ![c] = [Silence EXCEPT !.state = a]]
    <3>1. CASE SubmitRefused(c)
      BY <3>1 DEF SubmitRefused
    <3>2. CASE ContinueRefused(c)
      <4>1. ContinueRefusals \subseteq {"no_journal", "mismatch", "not_resumable", "abandoned",
                                        "nothing_to_continue"}
        BY DEF ContinueRefusals
      <4>2. journal.state = "absent" => ContinueRefusals = {"no_journal"}
        BY DEF ContinueRefusals, Readable
      <4> QED
        BY <3>2, <4>1, <4>2 DEF ContinueRefused
    <3> QED
      BY <1>1, <3>1, <3>2
  <2>4. resp'[c].state = a /\ \A d \in Callers \ {c} : resp'[d] = resp[d]
    BY <2>2, <2>3 DEF Resps, Silence
  <2>5. Untouched' = Untouched /\ Quiet' = Quiet
    BY <2>1 DEF Untouched, Quiet, Busy
  <2>6. Unbegun'
    <3>1. ASSUME ~submitted PROVE ~Stopped'
      BY <2>3, <2>4, <3>1 DEF Firsts, Unbegun, Stopped, Absent, Doc
    <3> QED
      BY <2>1, <2>5, <3>1 DEF Firsts, Unbegun
  <2>7. FirstAlone'
    BY <2>1, <2>3, <2>4 DEF Firsts, FirstAlone, Busy
  <2>8. FailedOver'
    BY <2>1, <2>3, <2>4, <2>5 DEF Firsts, FailedOver, FailedKnown, Residue
  <2>9. \A d \in Callers : Busy(d)' => CallFirst(call[d])'
    BY <2>1 DEF Firsts, CallFirst, Untouched, Residue, Busy
  <2> QED
    BY <2>6, <2>7, <2>8, <2>9 DEF Firsts
<1>2. CASE Restart
  <2>1. /\ UNCHANGED <<submitted, journal, resp, landed, dirty>>
        /\ \A c \in Callers : call'[c].pc = "idle"
        /\ late' \subseteq late \cup InFlight
    BY <1>2 DEF Restart, Idle
  <2>2. Quiet => InFlight = {}
    BY DEF Quiet, Busy, InFlight
  <2>3. Quiet' /\ \A c \in Callers : ~Busy(c)'
    BY <2>1 DEF Quiet, Busy
  <2>4. /\ Untouched /\ Quiet => Untouched'
        /\ \A r : Residue(r) /\ Quiet => Residue(r)'
    BY <2>1, <2>2 DEF Untouched, Residue
  <2> QED
    BY <2>1, <2>3, <2>4 DEF Firsts, Unbegun, FirstAlone, FailedOver, FailedKnown, Stopped
<1>3. ASSUME NEW i \in Ops, LateLanding(i)
      PROVE  Firsts'
  <2>1. UNCHANGED <<submitted, journal, call, resp>> /\ late # {}
    BY <1>3 DEF LateLanding
  <2>2. submitted /\ \A c \in Callers : ~FailedKnown(resp[c])
    BY <2>1 DEF Firsts, Unbegun, FailedOver, Untouched, Residue
  <2>3. \A c \in Callers : Busy(c)' => CallFirst(call[c])'
    BY <2>1 DEF Firsts, CallFirst, Working, Ending, Writing, Busy, Untouched, Residue
  <2> QED
    BY <2>1, <2>2, <2>3 DEF Firsts, Unbegun, FirstAlone, FailedOver, FailedKnown, Busy
<1>4. CASE Prune
  <2>1. /\ UNCHANGED <<submitted, call, resp, landed, dirty, late>> /\ Quiet
        /\ journal.state # "absent" /\ journal'.state = "absent"
    BY <1>4 DEF Prune, model, Absent, Doc
  <2>2. submitted
    BY <2>1 DEF Firsts, Unbegun, Absent, Doc
  <2> QED
    BY <2>1, <2>2 DEF Firsts, Unbegun, FirstAlone, FailedOver, FailedKnown, Quiet, Busy, Untouched,
       Residue
<1>5. CASE UNCHANGED vars
  <2>1. UNCHANGED <<submitted, journal, call, resp, landed, dirty, late>>
    BY <1>5 DEF vars, model
  <2> QED
    BY <2>1 DEF Firsts, Unbegun, FirstAlone, FailedOver, FailedKnown, CallFirst, Quiet, Busy,
       Untouched, Residue, Stopped
<1> QED
  BY <1>1, <1>2, <1>3, <1>4, <1>5

LEMMA FirstsInductive == IInv /\ Counts /\ Firsts /\ [Next]_vars => Firsts'
<1> SUFFICES ASSUME IInv, Counts, Firsts, [Next]_vars PROVE Firsts'
  OBVIOUS
<1>1. IInv'
  BY Inductive
<1>2. ASSUME NEW c \in Callers, Submit(c) \/ Continue(c) PROVE Firsts'
  BY <1>1, <1>2, FirstsBegins
<1>3. ASSUME NEW c \in Callers, CallStep(c) \/ JournalError(c) PROVE Firsts'
  BY <1>1, <1>3, FirstsJournal, FirstsLoop
<1> QED
  BY <1>1, <1>2, <1>3, FirstsAround DEF Next

\* A "failed" whose outcome is known means that nothing has landed, nor will, and that the
\* model holds at most what the failed operation has left there, then and ever after.
THEOREM FailedIsTruthful == Spec => []FailedTruthful
<1>1. Firsts => FailedTruthful
  BY DEF Firsts, FailedOver, FailedKnown, Residue, FailedTruthful
<1> QED
  BY <1>1, InitIInv, Inductive, CountsInit, CountsInductive, FirstsInit, FirstsInductive,
     PTL DEF Spec

-----------------------------------------------------------------------------
(* While no two calls continue the batch at once and no journal write      *)
(* fails, through any number of crashes, late operations and prunings: no  *)
(* operation lands twice, the counters are exact, and what has stopped     *)
(* stays stopped.                                                          *)
(*                                                                         *)
(* One call is at work at a time.  What it has not come to has neither     *)
(* landed nor is it on its way; what is on its way lies at or past the     *)
(* first remaining operation of the journal, and a journal that can be     *)
(* continued has nothing on its way at all.                                *)


\* Nothing from f on has landed.
Ahead(f) == \A j \in Ops : j >= f => landed[j] = 0

\* What a call that is alone knows of the model and the journal.
CallExact(k) ==
    /\ journal.state = "chunked" => k.pc = "open" /\ k.then = "apply"
    /\ journal.state = "applying" => journal.pid = pid
    /\ Writing(k) => k.doc.pid = pid
    /\ Working(k) =>
          /\ late = {} /\ Ahead(k.i) /\ journal.from <= k.i
          /\ k.applied = Count(landed, k.i)
          /\ Writing(k) => k.doc.from = k.i /\ k.doc.applied = k.applied
    /\ k.pc = "answer" =>
          /\ late \subseteq {k.i} /\ Ahead(k.i + 1) /\ journal.from <= k.i
          /\ k.applied = Count(landed, k.i)
          /\ k.result # "unknown" => late = {}
          /\ k.result \notin {"ok", "unknown"} => landed[k.i] = 0
    /\ Passed(k) =>
          /\ late = {} /\ Ahead(k.i + 1) /\ journal.from <= k.i + 1
          /\ k.applied = Count(landed, k.i + 1)
          /\ Writing(k) => k.doc.from = k.i + 1 /\ k.doc.applied = k.applied
    /\ Ending(k) =>
          /\ \A j \in late : j >= k.doc.from
          /\ k.doc.applied = Count(landed, k.doc.from)
          /\ k.doc.state = "chunked" => late = {} /\ Ahead(k.doc.from)

\* The journal, and what may still land.
JournalExact ==
    /\ journal.applied = Count(landed, journal.from)
    /\ \A j \in late : j >= journal.from /\ landed[j] = 0
    /\ \A j \in Ops : landed[j] <= 1
    /\ journal.state = "chunked" => late = {} /\ Ahead(journal.from)

OneCall == \A c, d \in Callers : Busy(c) /\ Busy(d) => c = d
StoppedOver == Stopped => Quiet /\ journal.state # "chunked"

Exact ==
    Clean => /\ OneCall /\ StoppedOver /\ JournalExact
             /\ \A c \in Callers : Busy(c) => CallExact(call[c])

LEMMA ExactInit == Init => Exact
<1> SUFFICES ASSUME Init PROVE Exact
  OBVIOUS
<1>1. /\ journal.applied = 0 /\ journal.from = 1 /\ journal.state = "absent"
      /\ late = {} /\ \A j \in Ops : landed[j] = 0
      /\ \A c \in Callers : call[c].pc = "idle" /\ resp[c].state = "none"
  BY DEF Init, Idle, Silence, Absent, Doc
<1>2. Count(landed, 1) = 0
  BY CountNone
<1> QED
  BY <1>1, <1>2 DEF Exact, OneCall, StoppedOver, JournalExact, Stopped, Busy

\* A call at work: nobody was told that the batch has stopped.
LEMMA ExactBusy ==
    ASSUME Exact, Clean, NEW c \in Callers, Busy(c)
    PROVE  /\ ~Stopped /\ CallExact(call[c]) /\ JournalExact
           /\ \A d \in Callers \ {c} : ~Busy(d)
  BY DEF Exact, StoppedOver, OneCall, Quiet

\* A step of the loop keeps what it finds below the journal's first remaining operation.
LEMMA ExactMove ==
    ASSUME IInv, IInv', Exact, Clean, NEW c \in Callers, Busy(c), call[c].pc # "open", Moves(c),
           \A j \in Ops : j < journal.from => landed'[j] = landed[j],
           \A j \in Ops : landed'[j] <= 1,
           \A j \in late' : j >= journal.from /\ landed'[j] = 0,
           CallExact(call[c])'
    PROVE  Exact'
<1>1. /\ ~Stopped /\ CallExact(call[c]) /\ JournalExact
      /\ \A d \in Callers \ {c} : ~Busy(d)
  BY ExactBusy
<1>2. UNCHANGED <<journal, resp, mishaps>> /\ \A d \in Callers \ {c} : call'[d] = call[d]
  BY DEF Moves
<1>3. \A d \in Callers : Busy(d)' => d = c
  BY <1>1, <1>2 DEF Busy
<1>4. journal.from \in Int
  BY BatchAssumption DEF IInv, TypeOK, Docs, Froms
<1>5. Count(landed', journal.from) = Count(landed, journal.from)
  BY <1>4, CountSame
<1>6. journal.state # "chunked"
  BY <1>1 DEF CallExact
<1>7. JournalExact'
  BY <1>1, <1>2, <1>5, <1>6 DEF JournalExact
<1>8. StoppedOver'
  BY <1>1, <1>2 DEF StoppedOver, Stopped
<1>9. OneCall'
  BY <1>3 DEF OneCall
<1> QED
  BY <1>3, <1>7, <1>8, <1>9 DEF Exact

LEMMA ExactLoop ==
    ASSUME IInv, IInv', Counts, Exact, Clean, NEW c \in Callers,
           CallStep(c), ~OpenJournal(c), ~FillJournal(c)
    PROVE  Exact'
<1> DEFINE k == call[c]
           x == call'[c]
<1>1. /\ TypeOK /\ landed \in [Ops -> 0 .. 2] /\ landed' \in [Ops -> 0 .. 2]
      /\ k \in Calls /\ CallSound(k) /\ CallCounts(k, landed)
      /\ late \subseteq Ops
  BY DEF IInv, TypeOK, Counts
<1>2. Busy(c) /\ k.pc \in {"apply", "answer", "boundary"}
  BY DEF CallStep, SkipOp, BridgeApplies, BridgeLeaves, BridgeRejects, BridgeTimesOut, OpApplied,
     OpRefused, OpFailed, ChunkEnds, ChunkGoesOn, Finish, Busy
<1>3. /\ CallExact(k) /\ JournalExact /\ journal.state # "chunked"
      /\ journal.state = "applying" => journal.pid = pid
  BY <1>2, ExactBusy DEF CallExact
<1>4. /\ k.i \in Froms /\ k.i \in Int /\ k.i + 1 \in Int /\ k.applied \in Int
      /\ k.pc \in {"answer", "boundary"} => k.i \in Ops
      /\ journal.from \in Int /\ Ops \subseteq Int
  BY <1>1, BatchAssumption DEF Calls, Froms, CallSound, TypeOK, Docs, Ops
<1>5. /\ \A j \in late : j >= journal.from /\ landed[j] = 0
      /\ \A j \in Ops : landed[j] <= 1
  BY <1>3 DEF JournalExact
<1> HIDE DEF k, x
<1>6. CASE SkipOp(c) \/ OpRefused(c)
  <2>1. /\ Moves(c)
        /\ k.i \in Ops \/ OpRefused(c)
        /\ k.pc = "apply" \/ (k.pc = "answer" /\ k.result = "refused")
        /\ x.pc = "apply" /\ x.i = k.i + 1 /\ x.applied = k.applied
        /\ UNCHANGED <<landed, late>>
    BY <1>1, <1>6, RefusalMoves DEF k, x
  <2>2. k.i \in Ops
    BY <1>4, <1>6, <2>1 DEF OpRefused, k
  <2>3. /\ late = {} /\ landed[k.i] = 0 /\ Ahead(k.i + 1) /\ journal.from <= k.i + 1
        /\ k.applied = Count(landed, k.i)
    BY <1>3, <1>4, <2>1, <2>2 DEF CallExact, Working, Ahead
  <2>4. Count(landed, k.i + 1) = Count(landed, k.i)
    BY <1>1, <2>2, <2>3, CountNext
  <2>5. UNCHANGED <<journal, pid>> /\ Moves(c)
    BY <2>1 DEF Moves
  <2>6. CallExact(call[c])'
    BY <1>3, <2>1, <2>3, <2>4, <2>5
    DEF CallExact, Working, Passed, Ending, Writing, Ahead, x
  <2>7. call[c].pc # "open"
    BY <1>2 DEF k
  <2> QED
    BY <1>2, <1>5, <2>1, <2>5, <2>6, <2>7, ExactMove
<1>7. CASE BridgeApplies(c) \/ BridgeLeaves(c) \/ BridgeRejects(c) \/ BridgeTimesOut(c)
  <2>1. /\ Moves(c) /\ k.pc = "apply" /\ k.i \in Ops
        /\ x.pc = "answer" /\ x.i = k.i /\ x.applied = k.applied
        /\ \/ /\ x.result \in {"ok", "unknown"} /\ landed' = Bump(k.i) /\ late' = late
           \/ /\ x.result \in {"partial", "left", "refused", "rejected"} /\ UNCHANGED <<landed, late>>
           \/ /\ x.result = "unknown" /\ late' = late \cup {k.i} /\ landed' = landed
    BY <1>1, <1>7, BridgeMoves DEF k, x
  <2>2. /\ late = {} /\ Ahead(k.i) /\ landed[k.i] = 0 /\ journal.from <= k.i
        /\ k.applied = Count(landed, k.i)
    BY <1>3, <1>4, <2>1 DEF CallExact, Working, Ahead
  <2>3. \A j \in Ops \ {k.i} : landed'[j] = landed[j]
    BY <1>1, <2>1 DEF Bump
  <2>4. landed'[k.i] = 0 \/ (landed'[k.i] = 1 /\ x.result \in {"ok", "unknown"} /\ late' = {})
    BY <1>1, <2>1, <2>2 DEF Bump
  <2>5. Count(landed', k.i) = Count(landed, k.i)
    <3>1. \A j \in Ops : j < k.i => j # k.i
      BY <1>4
    <3>2. \A j \in Ops : j < k.i => landed'[j] = landed[j]
      BY <2>3, <3>1
    <3> QED
      BY <1>4, <3>2, CountSame
  <2>6. \A j \in Ops : j >= k.i + 1 => landed'[j] = 0
    BY <1>4, <2>2, <2>3 DEF Ahead
  <2>7. late' \subseteq {k.i} /\ (x.result # "unknown" => late' = {})
    BY <2>1, <2>2
  <2>8. UNCHANGED <<journal, pid>>
    BY <2>1 DEF Moves
  <2>9. CallExact(call[c])'
    BY <1>3, <2>1, <2>2, <2>4, <2>5, <2>6, <2>7, <2>8
    DEF CallExact, Working, Passed, Ending, Writing, Ahead, x
  <2>10. /\ \A j \in Ops : j < journal.from => landed'[j] = landed[j]
         /\ \A j \in Ops : landed'[j] <= 1
         /\ \A j \in late' : j >= journal.from /\ landed'[j] = 0
    BY <1>4, <1>5, <2>2, <2>3, <2>4, <2>7
  <2> QED
    BY <1>2, <2>1, <2>9, <2>10, ExactMove DEF k
<1>8. CASE OpApplied(c)
  <2>1. /\ Moves(c) /\ k.pc = "answer" /\ k.result = "ok"
        /\ x.pc = "open" /\ x.then = "boundary" /\ x.i = k.i
        /\ x.applied = k.prior + (k.i - k.start + 1) - k.refused
        /\ Entry(x, "applying", k.i + 1)
        /\ UNCHANGED <<landed, late>>
    BY <1>1, <1>8, AppliedMoves DEF k, x
  <2>2. k.i \in Ops /\ landed[k.i] > 0
    BY <1>1, <1>4, <2>1 DEF CallCounts
  <2>3. /\ late = {} /\ Ahead(k.i + 1) /\ journal.from <= k.i + 1
        /\ k.applied = Count(landed, k.i)
    BY <1>3, <1>4, <2>1 DEF CallExact
  <2>4. Count(landed, k.i + 1) = k.applied + 1
    BY <1>1, <2>2, <2>3, CountNext
  <2>5. x.applied = k.applied + 1
    <3>1. k.prior \in Int /\ k.start \in Int /\ k.refused \in Int
      BY <1>1, BatchAssumption DEF Calls, Froms
    <3>2. k.applied = k.prior + (k.i - k.start) - k.refused
      BY <1>1, <2>1 DEF CallCounts
    <3> QED
      BY <1>4, <2>1, <3>1, <3>2
  <2>6. CallExact(call[c])'
    BY <1>3, <2>1, <2>3, <2>4, <2>5
    DEF CallExact, Working, Passed, Ending, Writing, Entry, Ahead, Moves, x
  <2> QED
    BY <1>2, <1>5, <2>1, <2>6, ExactMove DEF k
<1>9. CASE OpFailed(c) \/ ChunkEnds(c) \/ Finish(c)
  <2>1. PICK s, f : /\ EndsWith(c, s, f)
                    /\ \/ k.pc \in {"apply", "answer"} /\ f = k.i /\ s # "chunked"
                       \/ k.pc = "boundary" /\ f = k.i + 1
    <3>1. CASE OpFailed(c)
      <4>1. FailureState(k) # "chunked"
        BY DEF FailureState
      <4> QED
        BY <3>1, <4>1 DEF OpFailed, k
    <3>2. CASE ChunkEnds(c)
      <4>1. k.pc = "boundary" /\ EndsWith(c, "chunked", k.i + 1)
        BY <3>2 DEF ChunkEnds, k
      <4> QED
        BY <4>1
    <3>3. CASE Finish(c)
      BY <3>3 DEF Finish, k
    <3> QED
      BY <1>9, <3>1, <3>2, <3>3
  <2>2. /\ x.pc = "open" /\ x.then = "idle" /\ x.applied = k.applied
        /\ Entry(x, s, f)
        /\ \A d \in Callers \ {c} : call'[d] = call[d]
    BY <1>1, <2>1, EndMoves DEF k, x
  <2>3. Moves(c) /\ UNCHANGED <<landed, late>>
    BY <1>9, <2>2 DEF Moves, OpFailed, ChunkEnds, Finish, model
  <2>4. /\ \A j \in late : j >= f
        /\ k.applied = Count(landed, f)
        /\ s = "chunked" => late = {} /\ Ahead(f)
    BY <1>3, <1>4, <2>1 DEF CallExact, Working, Passed
  <2>5. CallExact(call[c])'
    BY <1>3, <2>2, <2>3, <2>4
    DEF CallExact, Working, Passed, Ending, Writing, Entry, Ahead, Moves, x
  <2> QED
    BY <1>2, <1>5, <2>3, <2>5, ExactMove DEF k
<1>10. CASE ChunkGoesOn(c)
  <2>1. /\ Moves(c) /\ k.pc = "boundary"
        /\ x.pc = "apply" /\ x.i = k.i + 1 /\ x.applied = k.applied
        /\ UNCHANGED <<landed, late>>
    BY <1>1, <1>10, GoesOnMoves DEF k, x
  <2>2. /\ late = {} /\ Ahead(k.i + 1) /\ journal.from <= k.i + 1
        /\ k.applied = Count(landed, k.i + 1)
    BY <1>3, <2>1 DEF CallExact, Passed
  <2>3. CallExact(call[c])'
    BY <1>3, <2>1, <2>2
    DEF CallExact, Working, Passed, Ending, Writing, Ahead, Moves, x
  <2> QED
    BY <1>2, <1>5, <2>1, <2>3, ExactMove DEF k
<1> QED
  BY <1>6, <1>7, <1>8, <1>9, <1>10 DEF CallStep

\* Whoever begins finds nobody else at work, nothing on its way, and nothing landed of what
\* it is about to apply.
LEMMA ExactBegins ==
    ASSUME IInv, IInv', Firsts, Exact, Clean', NEW c \in Callers, Submit(c) \/ Continue(c)
    PROVE  Exact'
<1> DEFINE x == call'[c]
<1>1. /\ call \in [Callers -> Calls] /\ resp \in [Callers -> Resps] /\ pid \in Nat
      /\ journal \in Docs /\ journal.from \in Froms /\ journal.applied \in Int
  BY DEF IInv, TypeOK, Docs
<1>2. UNCHANGED <<landed, late, journal, pid>> /\ resp' = [resp EXCEPT ![c] = Silence]
  BY DEF Submit, Continue, model
<1>3. PICK fn \in Functions, start \in Froms, prior \in Int :
        /\ call' = [call EXCEPT ![c] = Started(fn, start, prior)]
        /\ prior = Count(landed, start) /\ late = {} /\ Ahead(start) /\ journal.from = start
        /\ Quiet /\ ~Stopped /\ JournalExact /\ journal.state \in {"absent", "chunked"}
  <2>1. "bridge_edit" \in Functions /\ "bridge_edit_continue" \in Functions /\ 1 \in Froms /\ 0 \in Int
    BY BatchAssumption DEF Functions, Froms
  <2>2. CASE Submit(c)
    <3>1. /\ call' = [call EXCEPT ![c] = Started("bridge_edit", 1, 0)]
          /\ Clean /\ ~submitted
      BY <2>2 DEF Submit, Clean
    <3>2. Untouched /\ Quiet /\ ~Stopped /\ journal = Absent
      BY <3>1 DEF Firsts, Unbegun
    <3>3. journal.from = 1 /\ journal.state = "absent"
      BY <3>2 DEF Absent, Doc
    <3>4. 0 = Count(landed, 1) /\ late = {} /\ Ahead(1) /\ JournalExact
      BY <3>1, <3>2, CountNone DEF Exact, Untouched, Ahead
    <3> QED
      BY ONLY <2>1, <3>1, <3>2, <3>3, <3>4, Zenon
  <2>3. CASE Continue(c)
    <3>1. /\ call' = [call EXCEPT ![c] = Started("bridge_edit_continue", journal.from, journal.applied)]
          /\ journal.state = "chunked"
          /\ mishaps' = mishaps \cup (IF Quiet THEN {} ELSE {"overlap"})
      BY <2>3 DEF Continue
    <3>2. Clean /\ Quiet
      BY <3>1 DEF Clean
    <3>3. ~Stopped /\ JournalExact
      BY <3>1, <3>2 DEF Exact, StoppedOver
    <3>4. journal.applied = Count(landed, journal.from) /\ late = {} /\ Ahead(journal.from)
      BY <3>1, <3>3 DEF JournalExact
    <3> QED
      BY ONLY <1>1, <2>1, <3>1, <3>2, <3>3, <3>4, Zenon
  <2> QED
    BY <2>2, <2>3
<1>4. x = Started(fn, start, prior) /\ \A d \in Callers \ {c} : call'[d] = call[d]
  BY <1>1, <1>3
<1> HIDE DEF x
<1>5. /\ x.pc = "open" /\ x.then = "apply" /\ x.i = start /\ x.applied = prior
      /\ Entry(x, "applying", start) /\ start \in Int
  BY <1>1, <1>3, <1>4, StartedFields, BatchAssumption DEF Froms
<1>6. \A d \in Callers : Busy(d)' => d = c
  BY <1>3, <1>4 DEF Quiet, Busy
<1>7. CallExact(call[c])'
  BY <1>2, <1>3, <1>5 DEF CallExact, Working, Passed, Ending, Writing, Entry, Ahead, x
<1>8. ~Stopped'
  BY <1>1, <1>2, <1>3 DEF Stopped, Silence
<1>9. JournalExact'
  BY <1>2, <1>3 DEF JournalExact, Ahead
<1> QED
  BY <1>6, <1>7, <1>8, <1>9 DEF Exact, OneCall, StoppedOver

\* A call that writes its journal puts there what it knows.
LEMMA ExactJournal ==
    ASSUME IInv, IInv', Firsts, Exact, Clean', NEW c \in Callers,
           OpenJournal(c) \/ FillJournal(c) \/ JournalError(c)
    PROVE  Exact'
<1> DEFINE k == call[c]
           x == call'[c]
<1>1. /\ Clean /\ ~JournalError(c)
      /\ UNCHANGED <<landed, late, pid>>
  BY DEF OpenJournal, FillJournal, JournalError, Clean, model
<1>2. /\ TypeOK /\ k \in Calls /\ CallSound(k) /\ Writing(k) /\ Busy(c) /\ CallFirst(k)
      /\ k.then \in {"idle", "apply", "boundary"} /\ journal \in Docs
      /\ k.i \in Int /\ journal.from \in Int /\ k.doc.from \in Int
  BY BatchAssumption DEF IInv, TypeOK, OpenJournal, FillJournal, JournalError, Writing, Calls,
     CallSound, Firsts, Busy, Docs, Froms
<1>3. /\ ~Stopped /\ CallExact(k) /\ JournalExact
      /\ \A d \in Callers \ {c} : ~Busy(d)
  BY <1>1, <1>2, ExactBusy
<1>4. \A d \in Callers \ {c} : call'[d] = call[d]
  BY <1>1, <1>2, OpenMoves, GoOnMoves DEF FillJournal
<1>5. \A d \in Callers : Busy(d)' => d = c
  BY <1>3, <1>4 DEF Busy
<1> HIDE DEF k, x
<1>6. CASE OpenJournal(c)
  <2>1. /\ k.pc = "open" /\ x.pc = "fill" /\ x.then = k.then /\ x.i = k.i
        /\ x.applied = k.applied /\ x.result = k.result /\ x.doc = k.doc
        /\ journal'.state = "torn" /\ journal'.from = journal.from
        /\ journal'.applied = journal.applied /\ resp' = resp
    BY <1>2, <1>6, OpenMoves DEF k, x
  <2>2. CallExact(call[c])'
    BY <1>1, <1>3, <2>1 DEF CallExact, Working, Passed, Ending, Writing, Ahead, x
  <2>3. JournalExact' /\ ~Stopped'
    BY <1>1, <1>3, <2>1 DEF JournalExact, Stopped
  <2> QED
    BY <1>5, <2>2, <2>3 DEF Exact, OneCall, StoppedOver
<1>7. CASE FillJournal(c)
  <2>1. \/ journal' = k.doc
        \/ /\ journal'.state = "torn" /\ journal'.from = journal.from
           /\ journal'.applied = journal.applied
    BY <1>2, <1>7 DEF FillJournal, Docs, k
  <2>2. \/ /\ k.then # "idle" /\ resp' = resp
           /\ x.pc = k.then /\ x.then = "idle" /\ x.i = k.i /\ x.applied = k.applied
        \/ /\ k.then = "idle" /\ x = Idle /\ resp'[c].state = k.doc.state
           /\ \A d \in Callers \ {c} : resp'[d] = resp[d]
    BY <1>2, <1>7, GoOnMoves DEF FillJournal, k, x
  <2>3. CASE k.then # "idle"
    <3>1. k.doc.state = "applying" /\ k.doc.pid = pid
      BY <1>2, <1>3, <2>3 DEF CallFirst, CallExact
    <3>2. /\ late = {} /\ k.doc.applied = Count(landed, k.doc.from)
          /\ \/ /\ k.then = "apply" /\ Ahead(k.i) /\ k.applied = Count(landed, k.i)
                /\ journal'.from <= k.i
             \/ /\ k.then = "boundary" /\ Ahead(k.i + 1) /\ k.applied = Count(landed, k.i + 1)
                /\ journal'.from <= k.i + 1
      BY <1>2, <1>3, <2>1, <2>3 DEF CallExact, Working, Passed
    <3>3. CallExact(call[c])'
      BY <1>1, <2>1, <2>2, <2>3, <3>1, <3>2
      DEF CallExact, Working, Passed, Ending, Writing, Ahead, x
    <3>4. JournalExact' /\ ~Stopped'
      BY <1>1, <1>3, <2>1, <2>2, <2>3, <3>1, <3>2 DEF JournalExact, Stopped
    <3> QED
      BY <1>5, <3>3, <3>4 DEF Exact, OneCall, StoppedOver
  <2>4. CASE k.then = "idle"
    <3>1. \A d \in Callers : ~Busy(d)'
      BY <1>5, <2>2, <2>4 DEF Busy, Idle, x
    <3>2. /\ \A j \in late : j >= k.doc.from
          /\ k.doc.applied = Count(landed, k.doc.from)
          /\ k.doc.state = "chunked" => late = {} /\ Ahead(k.doc.from)
      BY <1>2, <1>3, <2>4 DEF CallExact, Ending
    <3>3. JournalExact'
      BY <1>1, <1>3, <2>1, <3>2 DEF JournalExact, Ahead
    <3>4. Stopped' => k.doc.state # "chunked"
      BY <1>3, <2>2, <2>4 DEF Stopped
    <3>5. StoppedOver'
      BY <2>1, <3>1, <3>4 DEF StoppedOver, Quiet
    <3> QED
      BY <3>1, <3>3, <3>5 DEF Exact, OneCall
  <2> QED
    BY <2>3, <2>4
<1> QED
  BY <1>1, <1>6, <1>7

\* What a client is told without any work: "abandoned" only when nobody works on the batch.
LEMMA ExactAnswers ==
    ASSUME IInv, Exact, NEW c \in Callers, SubmitRefused(c) \/ ContinueRefused(c)
    PROVE  Exact'
<1>1. UNCHANGED <<journal, pid, call, landed, late, mishaps>> /\ resp \in [Callers -> Resps]
  BY DEF SubmitRefused, ContinueRefused, model, IInv, TypeOK
<1>2. PICK a : /\ a \in {"validated", "no_journal", "mismatch", "not_resumable", "abandoned",
                          "nothing_to_continue"}
               /\ a = "abandoned" => journal.state = "applying" /\ journal.pid # pid
               /\ \/ resp' = [resp EXCEPT ![c].state = a]
                  \/ resp' = [resp EXCEPT ![c] = [Silence EXCEPT !.state = a]]
  <2>1. CASE SubmitRefused(c)
    BY <2>1 DEF SubmitRefused
  <2>2. CASE ContinueRefused(c)
    <3>1. ASSUME NEW a \in ContinueRefusals
          PROVE  /\ a \in {"no_journal", "mismatch", "not_resumable", "abandoned",
                           "nothing_to_continue"}
                 /\ a = "abandoned" => journal.state = "applying" /\ journal.pid # pid
      BY <3>1 DEF ContinueRefusals, PidAlive
    <3> QED
      BY <2>2, <3>1 DEF ContinueRefused
  <2> QED
    BY <2>1, <2>2
<1>3. resp'[c].state = a /\ \A d \in Callers \ {c} : resp'[d] = resp[d]
  BY <1>1, <1>2 DEF Resps, Silence
<1>4. SUFFICES ASSUME Clean PROVE OneCall' /\ StoppedOver' /\ JournalExact'
                                  /\ \A d \in Callers : Busy(d)' => CallExact(call[d])'
  BY <1>1 DEF Exact, Clean
<1>5. \A d \in Callers : Busy(d)' <=> Busy(d)
  BY <1>1 DEF Busy
<1>6. OneCall' /\ JournalExact'
  BY <1>1, <1>4, <1>5 DEF Exact, OneCall, JournalExact, Ahead
<1>7. \A d \in Callers : Busy(d)' => CallExact(call[d])'
  BY <1>1, <1>4, <1>5 DEF Exact, CallExact, Working, Passed, Ending, Writing, Ahead
<1>8. ASSUME a = "abandoned" PROVE Quiet
  BY <1>2, <1>4, <1>8 DEF Exact, CallExact, Quiet
<1>9. StoppedOver'
  <2>1. CASE a = "abandoned"
    BY <1>1, <1>2, <1>5, <1>8, <2>1 DEF StoppedOver, Quiet
  <2>2. CASE a # "abandoned"
    <3>1. Stopped' => Stopped
      BY <1>2, <1>3, <2>2 DEF Stopped
    <3> QED
      BY <1>1, <1>4, <1>5, <3>1 DEF Exact, StoppedOver, Quiet
  <2> QED
    BY <2>1, <2>2
<1> QED
  BY <1>6, <1>7, <1>9

\* What was on its way when the service died lies at or past the journal's first remaining
\* operation, and nothing is on its way while the journal is chunked.
LEMMA ExactRestart ==
    ASSUME IInv, Exact, Clean, Restart
    PROVE  Exact'
<1>1. /\ UNCHANGED <<journal, resp, landed>> /\ \A c \in Callers : ~Busy(c)'
      /\ late' \subseteq late \cup InFlight
  BY DEF Restart, Idle, Busy
<1>2. JournalExact /\ journal.from \in Int /\ Ops \subseteq Int
  BY BatchAssumption DEF Exact, IInv, TypeOK, Docs, Froms, Ops
<1>3. ASSUME NEW j \in InFlight
      PROVE  j >= journal.from /\ landed[j] = 0 /\ journal.state # "chunked"
  <2>1. PICK c \in Callers : call[c].pc = "apply" /\ call[c].i = j /\ j \in Ops
    BY DEF InFlight
  <2>2. CallExact(call[c])
    BY <2>1 DEF Exact, Busy
  <2> QED
    BY <1>2, <2>1, <2>2 DEF CallExact, Working, Ahead
<1>4. JournalExact'
  <2>1. \A j \in late' : j >= journal.from /\ landed[j] = 0
    BY <1>1, <1>2, <1>3 DEF JournalExact
  <2>2. journal.state = "chunked" => late' = {}
    BY <1>1, <1>2, <1>3 DEF JournalExact
  <2> QED
    BY <1>1, <1>2, <2>1, <2>2 DEF JournalExact, Ahead
<1>5. StoppedOver'
  BY <1>1 DEF Exact, StoppedOver, Stopped, Quiet
<1> QED
  BY <1>1, <1>4, <1>5 DEF Exact, OneCall

\* An operation that lands late lands for the first time, past everything that is counted.
LEMMA ExactLate ==
    ASSUME IInv, Exact, Clean, NEW i \in Ops, LateLanding(i)
    PROVE  Exact'
<1>1. /\ UNCHANGED <<journal, pid, call, resp>>
      /\ i \in late /\ late' = late \ {i} /\ landed' = Bump(i)
      /\ landed \in [Ops -> 0 .. 2] /\ late \subseteq Ops
      /\ call \in [Callers -> Calls] /\ journal.from \in Int /\ i \in Int
  BY BatchAssumption DEF LateLanding, IInv, TypeOK, Docs, Froms, Ops
<1>2. JournalExact /\ i >= journal.from /\ landed[i] = 0 /\ journal.state # "chunked"
  BY <1>1 DEF Exact, JournalExact
<1>3. landed'[i] = 1 /\ \A j \in Ops \ {i} : landed'[j] = landed[j]
  BY <1>1, <1>2 DEF Bump
<1>4. ASSUME NEW f \in Int, i >= f
      PROVE  Count(landed', f) = Count(landed, f)
  <2>1. \A j \in Ops : j < f => j # i
    BY <1>1, <1>4
  <2>2. \A j \in Ops : j < f => landed'[j] = landed[j]
    BY <1>3, <2>1
  <2> QED
    BY <2>2, CountSame
<1>5. JournalExact'
  <2>1. Count(landed', journal.from) = Count(landed, journal.from)
    BY <1>1, <1>2, <1>4
  <2>2. \A j \in late' : j >= journal.from /\ landed'[j] = 0
    BY <1>1, <1>2, <1>3 DEF JournalExact
  <2>3. \A j \in Ops : landed'[j] <= 1
    BY <1>2, <1>3 DEF JournalExact
  <2> QED
    BY <1>1, <1>2, <2>1, <2>2, <2>3 DEF JournalExact
<1>6. ASSUME NEW c \in Callers, Busy(c)'
      PROVE  CallExact(call[c])'
  <2> DEFINE k == call[c]
  <2>1. k \in Calls /\ Busy(c) /\ CallExact(k) /\ ~Working(k) /\ ~Passed(k)
    BY <1>1, <1>6 DEF Exact, Busy, CallExact
  <2>2. k.i \in Int /\ k.i + 1 \in Int /\ k.doc.from \in Int
    BY <2>1, BatchAssumption DEF Calls, Docs, Froms
  <2> HIDE DEF k
  <2>3. CASE k.pc = "answer"
    <3>1. /\ i = k.i /\ late' = {} /\ k.result = "unknown" /\ Ahead(k.i + 1)
          /\ journal.from <= k.i /\ k.applied = Count(landed, k.i)
      BY <1>1, <2>1, <2>3 DEF CallExact
    <3>2. Count(landed', k.i) = Count(landed, k.i)
      BY <1>1, <1>4, <2>2, <3>1
    <3>3. \A j \in Ops : j >= k.i + 1 => j # i
      BY <1>1, <2>2, <3>1 DEF Ops
    <3>4. \A j \in Ops : j >= k.i + 1 => landed'[j] = 0
      BY <1>3, <3>1, <3>3 DEF Ahead
    <3> QED
      BY <1>1, <1>2, <2>1, <2>3, <3>1, <3>2, <3>4
      DEF CallExact, Working, Passed, Ending, Writing, Ahead, k
  <2>4. CASE k.pc # "answer"
    <3>1. Ending(k) => Count(landed', k.doc.from) = Count(landed, k.doc.from)
      BY <1>1, <1>4, <2>1, <2>2 DEF CallExact
    <3>2. Ending(k) => k.doc.state # "chunked"
      BY <1>1, <2>1 DEF CallExact
    <3> QED
      BY <1>1, <1>2, <2>1, <2>4, <3>1, <3>2
      DEF CallExact, Working, Passed, Ending, Writing, k
  <2> QED
    BY <2>3, <2>4
<1>7. OneCall' /\ StoppedOver'
  BY <1>1 DEF Exact, OneCall, StoppedOver, Stopped, Quiet, Busy
<1> QED
  BY <1>5, <1>6, <1>7 DEF Exact

LEMMA ExactPrune ==
    ASSUME IInv, Exact, Clean, Prune
    PROVE  Exact'
<1>1. /\ UNCHANGED <<call, resp, landed, late>> /\ Quiet /\ late \subseteq Ops
      /\ journal'.state = "absent" /\ journal'.from = 1 /\ journal'.applied = 0
  BY DEF Prune, model, Absent, Doc, IInv, TypeOK
<1>2. \A c \in Callers : ~Busy(c)'
  BY <1>1 DEF Quiet, Busy
<1>3. \A j \in Ops : j >= 1
  BY BatchAssumption DEF Ops
<1>4. JournalExact'
  BY <1>1, <1>3, CountNone DEF Exact, JournalExact
<1> QED
  BY <1>1, <1>2, <1>4 DEF Exact, OneCall, StoppedOver, Quiet

\* Mishaps are never forgotten.
LEMMA CleanBefore ==
    ASSUME [Next]_vars, Clean'
    PROVE  Clean
<1>1. mishaps \subseteq mishaps'
  <2>1. ASSUME NEW c \in Callers, CallStep(c)
        PROVE  mishaps' = mishaps
    BY <2>1 DEF CallStep, OpenJournal, FillJournal, SkipOp, BridgeApplies, BridgeLeaves,
         BridgeRejects, BridgeTimesOut, OpApplied, OpRefused, OpFailed,
         ChunkEnds, ChunkGoesOn, Finish
  <2> QED
    BY <2>1 DEF Next, vars, Submit, SubmitRefused, ContinueRefused, Continue, JournalError,
       LateLanding, Restart, Prune
<1> QED
  BY <1>1 DEF Clean

LEMMA ExactInductive == IInv /\ Counts /\ Firsts /\ Exact /\ [Next]_vars => Exact'
<1> SUFFICES ASSUME IInv, Counts, Firsts, Exact, [Next]_vars PROVE Exact'
  OBVIOUS
<1>1. IInv'
  BY Inductive
<1>2. CASE ~Clean'
  BY <1>2 DEF Exact
<1>3. CASE Clean'
  <2>1. Clean
    BY <1>3, CleanBefore
  <2>2. ASSUME NEW c \in Callers, Submit(c) \/ Continue(c) PROVE Exact'
    BY <1>1, <1>3, <2>2, ExactBegins
  <2>3. ASSUME NEW c \in Callers, CallStep(c) \/ JournalError(c) PROVE Exact'
    BY <1>1, <1>3, <2>1, <2>3, ExactJournal, ExactLoop
  <2>4. ASSUME NEW c \in Callers, SubmitRefused(c) \/ ContinueRefused(c) PROVE Exact'
    BY <2>4, ExactAnswers
  <2>5. ASSUME NEW i \in Ops, LateLanding(i) PROVE Exact'
    BY <2>1, <2>5, ExactLate
  <2>6. CASE UNCHANGED vars
    <3>1. UNCHANGED <<journal, pid, call, resp, landed, late, mishaps>>
      BY <2>6 DEF vars, model
    <3> QED
      BY <3>1 DEF Exact, OneCall, StoppedOver, JournalExact, CallExact, Stopped, Quiet, Busy,
         Working, Passed, Ending, Writing, Ahead, Clean
  <2> QED
    BY <2>1, <2>2, <2>3, <2>4, <2>5, <2>6, ExactRestart, ExactPrune DEF Next
<1> QED
  BY <1>2, <1>3

------------------------------------------------------------------------------
(* What follows.                                                           *)

\* However often the service dies and the batch is continued, no operation lands twice, as
\* long as no two calls continue it at once and no journal write fails.
THEOREM LandsOnce == Spec => []AtMostOnce
<1>1. Exact => AtMostOnce
  BY DEF Exact, JournalExact, AtMostOnce
<1> QED
  BY <1>1, InitIInv, Inductive, CountsInit, CountsInductive, FirstsInit, FirstsInductive,
     ExactInit, ExactInductive, PTL DEF Spec

\* No counter, of the journal or of an answer, ever claims more than has landed; and the
\* journal's is exact while no two calls overlap and no write fails.
THEOREM CountersAreTrue == Spec => []AppliedTruthful
<1>1. Counts /\ Exact => AppliedTruthful
  <2>1. \A f : Count(landed, f) = Cardinality(LandedBelow(f))
    BY DEF Count, Below, LandedBelow
  <2> QED
    BY <2>1 DEF Counts, Exact, JournalExact, AppliedTruthful
<1> QED
  BY <1>1, InitIInv, Inductive, CountsInit, CountsInductive, FirstsInit, FirstsInductive,
     ExactInit, ExactInductive, PTL DEF Spec

\* Once a client was told that the batch has stopped, no call starts on it again, and only
\* what was on its way can still land.
THEOREM StoppedIsOver == Spec => StopsForGood
<1> DEFINE Over == Clean /\ Stopped => /\ \A c \in Callers : Busy(c)' => Busy(c)
                                       /\ \A i \in Ops \ late : landed'[i] = landed[i]
<1>1. Firsts /\ Exact /\ [Next]_vars => Over
  <2> SUFFICES ASSUME Firsts, Exact, Clean, Stopped, [Next]_vars
               PROVE  /\ \A c \in Callers : Busy(c)' => Busy(c)
                      /\ \A i \in Ops \ late : landed'[i] = landed[i]
    OBVIOUS
  <2>1. submitted /\ Quiet /\ journal.state # "chunked"
    BY DEF Firsts, Unbegun, Exact, StoppedOver
  <2>2. ASSUME NEW c \in Callers PROVE ~CallStep(c) /\ ~JournalError(c)
    BY <2>1 DEF Quiet, Busy, CallStep, JournalError, OpenJournal, FillJournal, SkipOp,
       BridgeApplies, BridgeLeaves, BridgeRejects, BridgeTimesOut, OpApplied, OpRefused, OpFailed,
       ChunkEnds, ChunkGoesOn, Finish
  <2>3. ASSUME NEW c \in Callers PROVE ~Submit(c) /\ ~Continue(c)
    BY <2>1 DEF Submit, Continue
  <2>4. ASSUME NEW c \in Callers, SubmitRefused(c) \/ ContinueRefused(c)
        PROVE  UNCHANGED <<call, landed>>
    BY <2>4 DEF SubmitRefused, ContinueRefused, model
  <2>5. ASSUME NEW i \in Ops, LateLanding(i)
        PROVE  call' = call /\ \A j \in Ops \ late : landed'[j] = landed[j]
    BY <2>5 DEF LateLanding, Bump
  <2>6. CASE UNCHANGED vars
    BY <2>6 DEF vars, model, Busy
  <2>7. CASE Restart
    BY <2>7 DEF Restart, Busy, Idle
  <2>8. CASE Prune
    BY <2>8 DEF Prune, Busy, model
  <2> QED
    BY <2>2, <2>3, <2>4, <2>5, <2>6, <2>7, <2>8 DEF Next, Busy
<1> QED
  BY <1>1, InitIInv, Inductive, CountsInit, CountsInductive, FirstsInit, FirstsInductive,
     ExactInit, ExactInductive, PTL DEF Spec, StopsForGood

------------------------------------------------------------------------------
(* The abstract batch.  Each step of the model is a step of it: one that   *)
(* moves nothing but calls and the journal is, at most, a loss of the      *)
(* record (Lose), and one that answers is a Tell.  The order in which      *)
(* operations land takes one more invariant: what is on its way has had    *)
(* its turn.                                                               *)

IsOver == submitted /\ Quiet /\ journal.state # "chunked"

\* No operation is on its way before all below it are settled.
LateSettled == \A i \in late : SettledBelow(i)

\* A step forgets no mishap and undoes no end.
Forward == (Clean' => Clean) /\ (IsOver => IsOver')

Booleans == {Clean, Clean', IsOver, IsOver'} \subseteq BOOLEAN

LEMMA AllBooleans == Booleans
BY DEF Booleans, Clean, IsOver

\* What has landed or was refused stays so.
LEMMA SettledStays ==
    ASSUME TypeOK, [Next]_vars
    PROVE  \A f : SettledBelow(f) => SettledBelow(f)'
<1>1. \A j \in Ops : landed[j] > 0 => landed'[j] > 0
  <2>1. ASSUME NEW i \in Ops, landed' = Bump(i)
        PROVE  \A j \in Ops : landed[j] > 0 => landed'[j] > 0
    BY <2>1, BumpSettles DEF TypeOK
  <2>2. landed' = landed \/ \E i \in Ops : landed' = Bump(i)
    <3>1. ASSUME NEW c \in Callers, CallStep(c)
          PROVE  landed' = landed \/ \E i \in Ops : landed' = Bump(i)
      BY <3>1 DEF CallStep, OpenJournal, FillJournal, SkipOp, BridgeApplies, BridgeLeaves,
         BridgeRejects, BridgeTimesOut, OpApplied, OpRefused, OpFailed,
         ChunkEnds, ChunkGoesOn, Finish, model
    <3> QED
      BY <3>1 DEF Next, vars, model, Submit, SubmitRefused, ContinueRefused, Continue,
         JournalError, LateLanding, Restart, Prune
  <2> QED
    BY <2>1, <2>2
<1>2. refusedOps \subseteq refusedOps'
  <2>1. ASSUME NEW c \in Callers, CallStep(c)
        PROVE  refusedOps \subseteq refusedOps'
    BY <2>1 DEF CallStep, OpenJournal, FillJournal, SkipOp, BridgeApplies, BridgeLeaves,
         BridgeRejects, BridgeTimesOut, OpApplied, OpRefused, OpFailed,
         ChunkEnds, ChunkGoesOn, Finish, model
  <2> QED
    BY <2>1 DEF Next, vars, model, Submit, SubmitRefused, ContinueRefused, Continue,
       JournalError, LateLanding, Restart, Prune
<1> QED
  BY <1>1, <1>2 DEF SettledBelow, Settled

\* What a call is about to send, or waits for, has had its turn.
LEMMA InFlightSettled ==
    ASSUME IInv, NEW i \in InFlight
    PROVE  i \in Ops /\ SettledBelow(i)
BY DEF InFlight, IInv, CallSound

LEMMA LateSettledInductive == IInv /\ LateSettled /\ [Next]_vars => LateSettled'
<1> SUFFICES ASSUME IInv, LateSettled, [Next]_vars PROVE LateSettled'
  OBVIOUS
<1>1. \A f : SettledBelow(f) => SettledBelow(f)'
  BY SettledStays DEF IInv
<1>2. late' \subseteq late \cup InFlight
  <2>1. ASSUME NEW c \in Callers, CallStep(c)
        PROVE  late' \subseteq late \cup InFlight
    <3>1. BridgeTimesOut(c) => call[c].i \in InFlight
      BY DEF BridgeTimesOut, InFlight
    <3> QED
      BY <2>1, <3>1 DEF CallStep, OpenJournal, FillJournal, SkipOp, BridgeApplies, BridgeLeaves,
         BridgeRejects, BridgeTimesOut, OpApplied, OpRefused, OpFailed,
         ChunkEnds, ChunkGoesOn, Finish, model
  <2> QED
    BY <2>1 DEF Next, vars, model, Submit, SubmitRefused, ContinueRefused, Continue,
       JournalError, LateLanding, Restart, Prune
<1> QED
  BY <1>1, <1>2, InFlightSettled DEF LateSettled

\* Nothing sets to work on a batch that is over.
LEMMA GoesForward ==
    ASSUME IInv, [Next]_vars
    PROVE  Forward
<1>1. Clean' => Clean
  BY CleanBefore
<1>2. ASSUME IsOver PROVE IsOver'
  <2>1. ASSUME NEW c \in Callers PROVE ~CallStep(c) /\ ~JournalError(c)
    BY <1>2 DEF IsOver, Quiet, Busy, CallStep, JournalError, OpenJournal, FillJournal, SkipOp,
       BridgeApplies, BridgeLeaves, BridgeRejects, BridgeTimesOut, OpApplied, OpRefused, OpFailed,
       ChunkEnds, ChunkGoesOn, Finish
  <2>2. ASSUME NEW c \in Callers PROVE ~Submit(c) /\ ~Continue(c)
    BY <1>2 DEF IsOver, Submit, Continue
  <2>3. ASSUME NEW c \in Callers, SubmitRefused(c) \/ ContinueRefused(c)
        PROVE  UNCHANGED <<submitted, call, journal>>
    BY <2>3 DEF SubmitRefused, ContinueRefused
  <2>4. ASSUME NEW i \in Ops, LateLanding(i)
        PROVE  UNCHANGED <<submitted, call, journal>>
    BY <2>4 DEF LateLanding
  <2>5. CASE UNCHANGED <<submitted, call, journal>>
    BY <1>2, <2>5 DEF IsOver, Quiet, Busy
  <2>6. CASE UNCHANGED vars
    BY <2>5, <2>6 DEF vars
  <2>7. CASE Restart
    BY <1>2, <2>7 DEF Restart, Idle, IsOver, Quiet, Busy
  <2>8. CASE Prune
    BY <1>2, <2>8 DEF Prune, Absent, Doc, IsOver, Quiet, Busy
  <2> QED
    BY <2>1, <2>2, <2>3, <2>4, <2>5, <2>6, <2>7, <2>8 DEF Next
<1> QED
  BY <1>1, <1>2 DEF Forward

------------------------------------------------------------------------------
(* The steps of the abstract batch.                                        *)

\* A step that touches neither the live model nor what clients know.
LEMMA Losing ==
    ASSUME Forward, UNCHANGED <<resp, model>>
    PROVE  Promise!PromiseNext
<1>1. Clean' \in {Clean, FALSE}
  BY AllBooleans, Zenon DEF Booleans, Forward
<1>2. IsOver' \in {IsOver, TRUE}
  BY AllBooleans, Zenon DEF Booleans, Forward
<1>3. UNCHANGED <<landed, dirty, refusedOps, late, [c \in Callers |-> Told(resp[c])]>>
  BY DEF model
<1> QED
  BY <1>1, <1>2, <1>3, Zenon DEF Promise!PromiseNext, Promise!Lose, IsOver

\* A step that answers c: what the invariants say of the answer is what it promises.
LEMMA Telling ==
    ASSUME TypeOK, IInv', Counts', Firsts', Exact', Forward, UNCHANGED model,
           NEW c \in Callers, \A d \in Callers \ {c} : resp'[d] = resp[d],
           resp'[c].state = "chunked" => 1 <= resp'[c].applied
    PROVE  Promise!PromiseNext
<1> DEFINE r == resp'[c]
           a == Told(r)
<1>1. r \in Resps /\ r.state \in Answers
  BY DEF IInv, TypeOK, Resps
<1>2. UNCHANGED <<landed, dirty, late, refusedOps>>
  BY DEF model
<1>3. /\ a # r.state => a \in {"left", "unknown"} /\ r.state = "failed"
      /\ a = "left" => r.state = "failed" /\ r.result = "left"
  BY <1>1 DEF Told, Answers
<1>4. a \in Promise!Answers
  BY <1>1, <1>3 DEF Promise!Answers, Promise!Stops, Answers
<1>5. a = "succeeded" => \A i \in Ops : Settled(i)
  BY <1>2, <1>3 DEF IInv, SucceededComplete, Settled
<1>6. a \in Promise!Stops => submitted' /\ r.state \in {"partial", "failed", "succeeded", "abandoned"}
  <2>1. ASSUME a \in Promise!Stops
        PROVE  r.state \in {"partial", "failed", "succeeded", "abandoned"}
    BY <1>1, <1>3, <2>1 DEF Promise!Stops, Answers
  <2>2. r.state \in {"partial", "failed", "succeeded", "abandoned"} => Stopped'
    BY DEF Stopped
  <2> QED
    BY <2>1, <2>2 DEF Firsts, Unbegun
<1>7. a \in {"failed", "left"} => Residue(a) /\ IsOver'
  <2>1. a \in {"failed", "left"} => FailedKnown(r) /\ (r.result = "left" <=> a = "left")
    BY <1>3 DEF Told, FailedKnown
  <2>2. FailedKnown(r) => Residue(resp[c].result)' /\ Quiet' /\ journal'.state # "chunked"
    BY DEF Firsts, FailedOver
  <2>3. FailedKnown(r) => Residue(r.result)
    BY <1>2, <2>2 DEF Residue
  <2>4. a \in {"failed", "left"} => Residue(a)
    BY <2>1, <2>3 DEF Residue
  <2> QED
    BY <1>6, <2>1, <2>2, <2>4 DEF IsOver, Promise!Stops
<1>8. a = "chunked" => \E i \in Ops : landed[i] > 0
  <2> SUFFICES ASSUME a = "chunked" PROVE \E i \in Ops : landed[i] > 0
    OBVIOUS
  <2>1. 1 <= r.applied /\ r.applied <= Count(landed, NOps + 1) /\ r.applied \in Int
    BY <1>1, <1>2, <1>3 DEF Counts, Resps
  <2>2. Below(landed, NOps + 1) # {}
    <3>1. Cardinality({}) = 0
      BY FS_EmptySet
    <3> QED
      BY <2>1, <3>1 DEF Count
  <2> QED
    BY <2>2 DEF Below
<1>9. a \in Promise!Stops /\ Clean' => IsOver'
  <2>1. a \in Promise!Stops => Stopped'
    BY <1>6 DEF Stopped
  <2> QED
    BY <1>6, <2>1 DEF Exact, StoppedOver, IsOver
<1>10. [d \in Callers |-> Told(resp'[d])] = [[d \in Callers |-> Told(resp[d])] EXCEPT ![c] = a]
  OBVIOUS
<1> HIDE DEF a
<1>11. Clean' \in {Clean, FALSE} /\ IsOver' \in {IsOver, TRUE}
  BY AllBooleans, Zenon DEF Booleans, Forward
<1>12. Promise!Tell(c, a)
  BY <1>2, <1>5, <1>7, <1>8, <1>9, <1>10, <1>11
  DEF Promise!Tell, Promise!Unlanded, Promise!Done, Residue, Settled, IsOver
<1> QED
  BY <1>4, <1>12 DEF Promise!PromiseNext

\* A step of a call that goes on working.
Goes(c) == Busy(c) /\ Busy(c)' /\ UNCHANGED <<resp, mishaps>>

LEMMA GoesFacts ==
    ASSUME NEW c \in Callers, Goes(c)
    PROVE  /\ Clean' = Clean /\ ~IsOver /\ ~IsOver'
           /\ UNCHANGED [d \in Callers |-> Told(resp[d])]
BY DEF Goes, Clean, IsOver, Quiet

LEMMA TurnHasCome ==
    ASSUME NEW i \in Ops, SettledBelow(i)
    PROVE  Promise!Turn(i)
BY DEF Promise!Turn, Promise!Done, SettledBelow, Settled

\* What is refused is refused in its turn.
LEMMA Refusing ==
    ASSUME IInv, NEW c \in Callers, SkipOp(c) \/ OpRefused(c)
    PROVE  Promise!PromiseNext
<1> DEFINE i == call[c].i
<1>1. /\ Goes(c) /\ i \in Ops /\ SettledBelow(i)
      /\ refusedOps' = refusedOps \cup {i} /\ UNCHANGED <<landed, dirty, late>>
  <2>1. TypeOK /\ CallSound(call[c])
    BY DEF IInv
  <2>2. call'[c].pc = "apply" /\ UNCHANGED <<landed, dirty, late>> /\ Moves(c)
    BY <2>1, RefusalMoves
  <2>3. call[c].pc \in {"apply", "answer"} /\ refusedOps' = refusedOps \cup {i}
    BY DEF SkipOp, OpRefused
  <2>4. i \in Ops /\ SettledBelow(i)
    BY <2>1, <2>3 DEF SkipOp, OpRefused, CallSound
  <2> QED
    BY <2>2, <2>3, <2>4 DEF Goes, Moves, Busy
<1> HIDE DEF i
<1>2. Promise!Turn(i)
  BY <1>1, TurnHasCome
<1>3. Promise!Refuse(i)
  BY <1>1, <1>2, GoesFacts DEF Promise!Refuse, IsOver
<1> QED
  BY <1>1, <1>3 DEF Promise!PromiseNext

\* What reaches the model, whole or in part, reaches it in its turn; and for the first time
\* as long as the batch is clean.
LEMMA Landing ==
    ASSUME IInv, Exact, NEW c \in Callers, BridgeApplies(c) \/ BridgeLeaves(c)
    PROVE  Promise!PromiseNext
<1> DEFINE i == call[c].i
<1>1. /\ Goes(c) /\ i \in Ops /\ SettledBelow(i) /\ UNCHANGED <<late, refusedOps>>
      /\ \/ landed' = Bump(i) /\ dirty' = dirty
         \/ landed' = landed /\ dirty' = dirty \cup {i}
  <2>1. TypeOK /\ CallSound(call[c]) /\ call[c].pc = "apply" /\ i \in Ops
    BY DEF IInv, BridgeApplies, BridgeLeaves
  <2>2. call'[c].pc = "answer" /\ Moves(c)
    BY <2>1, BridgeMoves
  <2>3. /\ UNCHANGED <<late, refusedOps>>
        /\ \/ landed' = Bump(i) /\ dirty' = dirty
           \/ landed' = landed /\ dirty' = dirty \cup {i}
    BY DEF BridgeApplies, BridgeLeaves
  <2> QED
    BY <2>1, <2>2, <2>3 DEF Goes, Moves, Busy, CallSound
<1>2. Clean => landed[i] = 0
  <2> SUFFICES ASSUME Clean PROVE landed[i] = 0
    OBVIOUS
  <2>1. CallExact(call[c]) /\ call[c].pc = "apply"
    BY <1>1, ExactBusy DEF Goes, BridgeApplies, BridgeLeaves
  <2> QED
    BY <1>1, <2>1, BatchAssumption DEF CallExact, Working, Ahead, Ops
<1> HIDE DEF i
<1>3. Promise!Turn(i)
  BY <1>1, TurnHasCome
<1>4. CASE landed' = Bump(i) /\ dirty' = dirty
  <2>1. Promise!Land(i)
    BY <1>1, <1>2, <1>3, <1>4, GoesFacts DEF Promise!Land, Bump, IsOver
  <2> QED
    BY <1>1, <2>1 DEF Promise!PromiseNext
<1>5. CASE landed' = landed /\ dirty' = dirty \cup {i}
  <2>1. Promise!Soil(i)
    BY <1>1, <1>3, <1>5, GoesFacts DEF Promise!Soil, IsOver
  <2> QED
    BY <1>1, <2>1 DEF Promise!PromiseNext
<1> QED
  BY <1>1, <1>4, <1>5

\* An operation that is given up on has had its turn.
LEMMA Stranding ==
    ASSUME IInv, NEW c \in Callers, BridgeTimesOut(c)
    PROVE  Promise!PromiseNext
<1> DEFINE i == call[c].i
<1>1. /\ Goes(c) /\ i \in Ops /\ SettledBelow(i) /\ UNCHANGED <<landed, dirty, refusedOps>>
      /\ late' = late \cup {i}
  <2>1. TypeOK /\ CallSound(call[c]) /\ call[c].pc = "apply" /\ i \in Ops
    BY DEF IInv, BridgeTimesOut
  <2>2. call'[c].pc = "answer" /\ Moves(c)
    BY <2>1, BridgeMoves
  <2> QED
    BY <2>1, <2>2 DEF Goes, Moves, Busy, CallSound, BridgeTimesOut
<1> HIDE DEF i
<1>2. {i} \in SUBSET {j \in Ops : Promise!Turn(j)}
  BY <1>1, TurnHasCome
<1>3. Promise!Strand
  BY <1>1, <1>2, GoesFacts DEF Promise!Strand, IsOver
<1> QED
  BY <1>3 DEF Promise!PromiseNext

\* A service that dies strands what it has sent; if nobody was at work that is nothing.
LEMMA Dying ==
    ASSUME IInv, Forward, Restart
    PROVE  Promise!PromiseNext
<1>1. PICK S \in SUBSET InFlight : late' = late \cup S
  BY DEF Restart
<1>2. Clean' = Clean /\ UNCHANGED <<landed, dirty, refusedOps, resp>>
  BY DEF Restart, Clean
<1>3. CASE IsOver
  <2>1. InFlight = {}
    BY <1>3 DEF IsOver, Quiet, Busy, InFlight
  <2>2. UNCHANGED <<resp, model>>
    BY <1>1, <1>2, <2>1 DEF model
  <2> QED
    BY <2>2, Losing
<1>4. CASE ~IsOver
  <2>1. S \in SUBSET {j \in Ops : Promise!Turn(j)}
    BY <1>1, InFlightSettled, TurnHasCome
  <2>2. IsOver' \in BOOLEAN
    BY AllBooleans DEF Booleans
  <2>3. UNCHANGED [d \in Callers |-> Told(resp[d])]
    BY <1>2
  <2>4. Promise!Strand
    BY <1>1, <1>2, <1>4, <2>1, <2>2, <2>3 DEF Promise!Strand, IsOver
  <2> QED
    BY <2>4 DEF Promise!PromiseNext
<1> QED
  BY <1>3, <1>4

\* What lands late was on its way, and its turn had come.
LEMMA LandingLate ==
    ASSUME IInv, Exact, LateSettled, NEW i \in Ops, LateLanding(i)
    PROVE  Promise!PromiseNext
<1>1. /\ i \in late /\ late' = late \ {i} /\ landed' = Bump(i) /\ UNCHANGED <<dirty, refusedOps>>
      /\ UNCHANGED <<submitted, call, journal, resp, mishaps>>
  BY DEF LateLanding
<1>2. Promise!Turn(i)
  BY <1>1, TurnHasCome DEF LateSettled
<1>3. Clean => landed[i] = 0
  BY <1>1 DEF Exact, JournalExact
<1>4. Clean' = Clean /\ IsOver' = IsOver /\ UNCHANGED [d \in Callers |-> Told(resp[d])]
  BY <1>1 DEF Clean, IsOver, Quiet, Busy
<1>5. Promise!Land(i)
  BY <1>1, <1>2, <1>3, <1>4 DEF Promise!Land, Bump, IsOver
<1> QED
  BY <1>5 DEF Promise!PromiseNext

\* Journalling does not touch the model; it may end in an answer, which is what was to be
\* journalled.
LEMMA JournallingTells ==
    ASSUME IInv, Counts, IInv', Counts', Firsts', Exact', Forward, NEW c \in Callers,
           OpenJournal(c) \/ FillJournal(c) \/ JournalError(c)
    PROVE  Promise!PromiseNext
<1>1. TypeOK /\ UNCHANGED model
  BY DEF IInv, OpenJournal, FillJournal, JournalError
<1>2. CASE OpenJournal(c)
  <2>1. resp' = resp
    BY <1>2 DEF OpenJournal
  <2> QED
    BY <1>1, <2>1, Losing
<1>3. CASE GoOn(c) /\ Writing(call[c])
  <2>1. CASE call[c].then # "idle"
    <3>1. resp' = resp
      BY <1>3, <2>1 DEF GoOn
    <3> QED
      BY <1>1, <3>1, Losing
  <2>2. CASE call[c].then = "idle"
    <3>1. /\ resp'[c].state = call[c].doc.state /\ resp'[c].applied = call[c].doc.applied
          /\ \A d \in Callers \ {c} : resp'[d] = resp[d]
      BY <1>1, <1>3, <2>2, GoOnMoves
    <3>2. resp'[c].state = "chunked" => 1 <= resp'[c].applied
      BY <1>3, <3>1 DEF Counts, CallCounts
    <3> QED
      BY <1>1, <3>1, <3>2, Telling
  <2> QED
    BY <2>1, <2>2
<1> QED
  BY <1>2, <1>3 DEF FillJournal, JournalError, Writing

\* Every step of the batch is a step of what it promises.
LEMMA StepKeepsPromise ==
    ASSUME IInv, Counts, Firsts, Exact, LateSettled, [Next]_vars
    PROVE  Promise!PromiseNext
<1>1. /\ TypeOK /\ IInv' /\ Counts' /\ Firsts' /\ Exact'
  BY Inductive, CountsInductive, FirstsInductive, ExactInductive DEF IInv
<1>2. Forward
  BY GoesForward
<1>3. ASSUME NEW c \in Callers, Submit(c) \/ SubmitRefused(c) \/ ContinueRefused(c) \/ Continue(c)
      PROVE  Promise!PromiseNext
  <2>1. /\ UNCHANGED model
        /\ \E s \in {"none", "validated", "no_journal", "mismatch", "abandoned",
                     "not_resumable", "nothing_to_continue"} :
              \/ resp' = [resp EXCEPT ![c] = [Silence EXCEPT !.state = s]]
              \/ resp' = [resp EXCEPT ![c].state = s]
    <3>1. Silence = [Silence EXCEPT !.state = "none"]
      BY DEF Silence
    <3>2. ContinueRefusals \subseteq {"no_journal", "mismatch", "abandoned", "not_resumable",
                                      "nothing_to_continue"}
      BY DEF ContinueRefusals
    <3> QED
      BY <1>3, <3>1, <3>2 DEF Submit, SubmitRefused, ContinueRefused, Continue
  <2>2. resp'[c].state # "chunked" /\ \A d \in Callers \ {c} : resp'[d] = resp[d]
    BY <1>1, <2>1 DEF TypeOK, Resps, Silence
  <2> QED
    BY <1>1, <1>2, <2>1, <2>2, Telling
<1>4. ASSUME NEW c \in Callers, CallStep(c) \/ JournalError(c)
      PROVE  Promise!PromiseNext
  <2>1. CASE OpenJournal(c) \/ FillJournal(c) \/ JournalError(c)
    BY <1>1, <1>2, <2>1, JournallingTells
  <2>2. CASE BridgeRejects(c) \/ OpApplied(c) \/ OpFailed(c) \/ ChunkEnds(c) \/ ChunkGoesOn(c)
             \/ Finish(c)
    <3>1. UNCHANGED <<resp, model>>
      BY <2>2 DEF BridgeRejects, OpApplied, OpFailed, ChunkEnds, ChunkGoesOn, Finish
    <3> QED
      BY <1>2, <3>1, Losing
  <2> QED
    BY <1>4, <2>1, <2>2, Refusing, Landing, Stranding DEF CallStep
<1>5. CASE Prune \/ UNCHANGED vars
  <2>1. UNCHANGED <<resp, model>>
    BY <1>5 DEF Prune, vars
  <2> QED
    BY <1>2, <2>1, Losing
<1> QED
  BY <1>2, <1>3, <1>4, <1>5, Dying, LandingLate DEF Next

LEMMA PromiseBegins == Init => Promise!PromiseInit /\ LateSettled
<1> SUFFICES ASSUME Init PROVE Promise!PromiseInit /\ LateSettled
  OBVIOUS
<1>1. [c \in Callers |-> Told(resp[c])] = [c \in Callers |-> "none"]
  BY DEF Init, Told, Silence
<1>2. Clean = TRUE
  BY DEF Init, Clean
<1> QED
  BY <1>1, <1>2 DEF Init, Promise!PromiseInit, LateSettled

\* However calls overlap, the service dies, answers are lost and writes fail, the batch
\* behaves as it promises: the model takes the operations in their order, clients are told
\* what is so, and a batch that is over stays over.
THEOREM PromiseIsKept == Spec => PromiseKept
<1>1. IInv /\ Counts /\ Firsts /\ Exact /\ LateSettled /\ [Next]_vars
      => [Promise!PromiseNext]_Promise!batch
  BY StepKeepsPromise
<1> QED
  BY <1>1, PromiseBegins, InitIInv, Inductive, CountsInit, CountsInductive, FirstsInit,
     FirstsInductive, ExactInit, ExactInductive, LateSettledInductive, PTL
  DEF Spec, PromiseKept, Promise!PromiseSpec
=============================================================================
