--------------------------- MODULE BatchEditProofs ---------------------------
(***************************************************************************)
(* Proofs about BatchEdit, for every number of operations, every chunk     *)
(* size, every set of callers and any number of restarts: the types, and   *)
(* that neither the journal nor a "succeeded" answer ever passes over an   *)
(* operation that was neither applied nor refused.                         *)
(*                                                                         *)
(* The invariant that carries them is about each call: the operations      *)
(* below the one it works on are settled (applied or refused), and so are  *)
(* those below the first remaining one of the entry it is about to write.  *)
(* It is preserved because an operation, once settled, stays so.           *)
(***************************************************************************)
EXTENDS BatchEdit, TLAPS

SettledBelow(f) == \A j \in Ops : j < f => Settled(j)

Writing(k) == k.pc \in {"open", "fill"}

\* What the loop of one call has established.
CallSound(k) ==
    /\ k.pc # "idle" => SettledBelow(k.i)
    /\ k.pc \in {"answer", "boundary"} => k.i \in Ops
    /\ k.pc = "answer" /\ k.result = "ok" => Settled(k.i)
    /\ k.pc = "boundary" => Settled(k.i)
    /\ Writing(k) =>
          /\ SettledBelow(k.doc.from)
          /\ k.doc.state = "succeeded" => k.doc.from = NOps + 1
          /\ k.then \in {"idle", "apply", "boundary"}
          /\ k.then = "boundary" => k.i \in Ops /\ Settled(k.i)
          /\ k.then = "idle" =>
                k.doc.state \in {"chunked", "succeeded", "partial", "failed"}

IInv ==
    /\ TypeOK
    /\ \A c \in Callers : CallSound(call[c])
    /\ JournalSound
    /\ SucceededComplete

------------------------------------------------------------------------------
(* Lemmas.                                                                 *)

\* Marking one more landing keeps the counters in range and every operation settled.
LEMMA BumpSettles ==
    ASSUME landed \in [Ops -> 0 .. 2], NEW i \in Ops, landed' = Bump(i)
    PROVE  /\ landed' \in [Ops -> 0 .. 2]
           /\ landed'[i] > 0
           /\ \A j \in Ops : landed[j] > 0 => landed'[j] > 0
  BY DEF Bump

\* The records the actions build have their types.
LEMMA DocType ==
    ASSUME NEW s \in JournalStates, NEW f \in Froms, NEW a \in Int, NEW p \in Nat
    PROVE  Doc(s, f, a, p) \in Docs
  BY DEF Doc, Docs

LEMMA IdleType == Idle \in Calls
<1>1. Absent \in Docs
  BY BatchAssumption DEF Absent, Doc, Docs, JournalStates, Froms
<1>. QED  BY <1>1, BatchAssumption DEF Idle, Calls, Pcs, Results, Froms, Functions

LEMMA JournallingType ==
    ASSUME NEW k \in Calls, NEW d \in Docs, NEW next \in Pcs
    PROVE  /\ Journalling(k, d, next) \in Calls
           /\ Journalling(k, d, next).pc = "open"
           /\ Journalling(k, d, next).doc = d
           /\ Journalling(k, d, next).then = next
           /\ Journalling(k, d, next).i = k.i
  BY DEF Journalling, Calls, Pcs

LEMMA StartedType ==
    ASSUME pid \in Nat, NEW fn \in Functions, NEW start \in Froms, NEW prior \in Int
    PROVE  /\ Started(fn, start, prior) \in Calls
           /\ Started(fn, start, prior).pc = "open"
           /\ Started(fn, start, prior).i = start
           /\ Started(fn, start, prior).doc.state = "applying"
           /\ Started(fn, start, prior).doc.from = start
           /\ Started(fn, start, prior).then = "apply"
<1>. DEFINE k == [Idle EXCEPT !.fn = fn, !.start = start, !.i = start,
                              !.prior = prior, !.applied = prior]
            d == Doc("applying", start, prior, pid)
<1>1. k \in Calls /\ k.i = start
  BY IdleType DEF Calls
<1>2. d \in Docs
  BY DocType DEF JournalStates
<1>3. Started(fn, start, prior) = Journalling(k, d, "apply")
  BY DEF Started
<1>. HIDE DEF k, d
<1>4. "apply" \in Pcs
  BY DEF Pcs
<1>5. /\ Journalling(k, d, "apply") \in Calls
      /\ Journalling(k, d, "apply").pc = "open"
      /\ Journalling(k, d, "apply").doc = d
      /\ Journalling(k, d, "apply").then = "apply"
      /\ Journalling(k, d, "apply").i = k.i
  BY <1>1, <1>2, <1>4, JournallingType
<1>6. d.state = "applying" /\ d.from = start
  BY DEF d, Doc
<1>. QED  BY <1>1, <1>3, <1>5, <1>6

\* A step that changes the call of c alone, while settled operations stay settled,
\* keeps what is known of the other calls.
LEMMA OtherCalls ==
    ASSUME IInv, NEW c \in Callers,
           \A d \in Callers \ {c} : call'[d] = call[d],
           \A j \in Ops : Settled(j) => Settled(j)',
           CallSound(call[c])'
    PROVE  \A d \in Callers : CallSound(call[d])'
<1>. SUFFICES ASSUME NEW d \in Callers, d # c PROVE CallSound(call[d])'
  OBVIOUS
<1>1. call'[d] = call[d]
  OBVIOUS
<1>2. CallSound(call[d])
  BY DEF IInv
<1>. QED  BY <1>1, <1>2 DEF CallSound, SettledBelow, Writing

\* The invariant holds at the start: nothing was journalled, sent or answered.
LEMMA InitIInv == Init => IInv
<1>. SUFFICES ASSUME Init PROVE IInv
  OBVIOUS
<1>. USE BatchAssumption DEF Init
<1>1. Absent \in Docs
  BY DEF Absent, Doc, Docs, JournalStates, Froms
<1>2. Idle \in Calls
  BY IdleType
<1>3. Silence \in Resps
  BY DEF Silence, Resps, Answers, Results
<1>4. TypeOK
  <2>1. submitted \in BOOLEAN
    BY Zenon
  <2>2. call \in [Callers -> Calls]
    BY <1>2
  <2>3. resp \in [Callers -> Resps]
    BY <1>3
  <2>4. landed \in [Ops -> 0 .. 2]
    OBVIOUS
  <2>. QED  BY <1>1, <2>1, <2>2, <2>3, <2>4 DEF TypeOK
<1>5. ASSUME NEW c \in Callers PROVE CallSound(call[c])
  BY DEF CallSound, Writing, Idle
<1>6. JournalSound
  BY DEF JournalSound, Absent, Doc, Ops
<1>7. SucceededComplete
  BY DEF SucceededComplete, Silence
<1>. QED  BY <1>4, <1>5, <1>6, <1>7 DEF IInv
\* A step of one call that writes no file and returns nothing to its client keeps
\* the invariant when it keeps the types, what is settled, and its own part of it.
LEMMA CallAlone ==
    ASSUME IInv, TypeOK', NEW c \in Callers,
           \A d \in Callers \ {c} : call'[d] = call[d],
           \A j \in Ops : Settled(j) => Settled(j)',
           CallSound(call[c])',
           journal' = journal,
           \A d \in Callers : resp'[d].state = "succeeded" => resp[d].state = "succeeded"
    PROVE  IInv'
<1>1. \A d \in Callers : CallSound(call[d])'
  BY OtherCalls
<1>2. JournalSound'
  BY DEF IInv, JournalSound
<1>3. SucceededComplete'
  BY DEF IInv, SucceededComplete
<1>. QED  BY <1>1, <1>2, <1>3 DEF IInv

------------------------------------------------------------------------------
(* One lemma per action of a call.                                         *)

\* Accepting the batch starts at its first operation: nothing lies below it.
LEMMA SubmitKeeps ==
    ASSUME IInv, NEW c \in Callers, Submit(c)
    PROVE  IInv'
<1>. USE BatchAssumption
<1>1. TypeOK /\ SettledBelow(1)
  BY DEF IInv, SettledBelow, Ops
<1>2. Started("bridge_edit", 1, 0) \in Calls
  BY <1>1, StartedType DEF TypeOK, Froms, Functions
<1>3. call' = [call EXCEPT ![c] = Started("bridge_edit", 1, 0)]
  BY DEF Submit
<1>4. call'[c] = Started("bridge_edit", 1, 0)
  BY <1>1, <1>3 DEF TypeOK
<1>5. /\ submitted' \in BOOLEAN
      /\ UNCHANGED <<journal, pid, landed, dirty, late, refusedOps, mishaps>>
      /\ preRefused' \subseteq Ops
  BY Zenon DEF Submit, model
<1>6. resp' = [resp EXCEPT ![c] = Silence] /\ Silence \in Resps
  BY DEF Submit, Silence, Resps, Answers, Results
<1>7. TypeOK'
  BY <1>1, <1>2, <1>3, <1>5, <1>6 DEF TypeOK
<1>8. \A j \in Ops : Settled(j) => Settled(j)'
  BY <1>5 DEF Settled
<1>9. CallSound(call[c])'
  <2>1. 1 \in Froms /\ pid \in Nat
    BY <1>1 DEF Froms, TypeOK
  <2>2. SettledBelow(1)'
    BY <1>1, <1>8 DEF SettledBelow
  <2>3. /\ call'[c].pc = "open" /\ call'[c].i = 1 /\ call'[c].then = "apply"
        /\ call'[c].doc.from = 1 /\ call'[c].doc.state = "applying"
    <3>1. "bridge_edit" \in Functions
      BY DEF Functions
    <3>. QED  BY <1>4, <2>1, <3>1, StartedType
  <2>. QED  BY <2>2, <2>3 DEF CallSound, SettledBelow, Writing
<1>10. \A d \in Callers : resp'[d].state = "succeeded" => resp[d].state = "succeeded"
  BY <1>1, <1>6 DEF TypeOK, Silence
<1>. QED  BY <1>1, <1>3, <1>5, <1>7, <1>8, <1>9, <1>10, CallAlone DEF TypeOK

\* What every step of the apply loop has in common: it moves one call, and the
\* model and the history only grow.
LEMMA LoopStep ==
    ASSUME IInv, NEW c \in Callers,
           UNCHANGED <<submitted, preRefused, journal, pid, resp>>,
           landed' \in [Ops -> 0 .. 2], dirty' \subseteq Ops, late' \subseteq Ops,
           refusedOps' \subseteq Ops, mishaps' \subseteq Mishaps,
           \A j \in Ops : landed[j] > 0 => landed'[j] > 0,
           refusedOps \subseteq refusedOps',
           call' \in [Callers -> Calls],
           \A d \in Callers \ {c} : call'[d] = call[d],
           CallSound(call[c])'
    PROVE  IInv'
<1>1. submitted' \in BOOLEAN
  BY Zenon DEF IInv, TypeOK
<1>2. TypeOK'
  BY <1>1 DEF IInv, TypeOK
<1>3. \A j \in Ops : Settled(j) => Settled(j)'
  BY DEF Settled
<1>4. \A d \in Callers : resp'[d].state = "succeeded" => resp[d].state = "succeeded"
  OBVIOUS
<1>. QED  BY <1>2, <1>3, <1>4, CallAlone

LEMMA NextOpType ==
    ASSUME NEW k \in Calls, k.i \in Ops
    PROVE  NextOp(k) \in Calls /\ NextOp(k).pc = "apply" /\ NextOp(k).i = k.i + 1
<1>1. k.i + 1 \in Froms
  BY BatchAssumption DEF Ops, Froms
<1>2. "apply" \in Pcs /\ "none" \in Results
  BY DEF Pcs, Results
<1>. QED  BY <1>1, <1>2 DEF NextOp, Calls

\* The operations below the next one are settled when those below this one are,
\* and this one is.
LEMMA OneMoreSettled ==
    ASSUME NEW i \in Ops, SettledBelow(i), Settled(i)
    PROVE  SettledBelow(i + 1)
  BY BatchAssumption DEF SettledBelow, Ops

\* A refused operation (at validation, or by the bridge) counts as settled, and
\* the loop moves past it.
LEMMA RefusalKeeps ==
    ASSUME IInv, NEW c \in Callers, SkipOp(c) \/ OpRefused(c)
    PROVE  IInv'
<1>. DEFINE k == [call[c] EXCEPT !.refused = @ + 1]
<1>1. /\ call[c] \in Calls /\ call \in [Callers -> Calls]
      /\ refusedOps \subseteq Ops /\ landed \in [Ops -> 0 .. 2]
      /\ dirty \subseteq Ops /\ late \subseteq Ops /\ mishaps \subseteq Mishaps
      /\ CallSound(call[c])
  BY DEF IInv, TypeOK
<1>2. call[c].i \in Ops /\ SettledBelow(call[c].i)
  BY <1>1 DEF SkipOp, OpRefused, CallSound
<1>3. /\ UNCHANGED <<submitted, preRefused, journal, pid, resp>>
      /\ UNCHANGED <<landed, dirty, late, mishaps>>
      /\ refusedOps' = refusedOps \cup {call[c].i}
      /\ call' = [call EXCEPT ![c] = PastRefusal(call[c])]
  BY DEF SkipOp, OpRefused
<1>4. k \in Calls /\ k.i = call[c].i
  BY <1>1 DEF Calls
<1>. HIDE DEF k
<1>5. LET n == PastRefusal(call[c])
      IN  n \in Calls /\ n.pc = "apply" /\ n.i = call[c].i + 1
  BY <1>2, <1>4, NextOpType DEF PastRefusal, k
<1>6. /\ call' \in [Callers -> Calls]
      /\ call'[c].pc = "apply" /\ call'[c].i = call[c].i + 1
      /\ \A d \in Callers \ {c} : call'[d] = call[d]
  BY <1>1, <1>3, <1>5
<1>7. \A j \in Ops : j < call[c].i + 1 => Settled(j)'
  BY <1>2, <1>3, BatchAssumption DEF SettledBelow, Settled, Ops
<1>8. CallSound(call[c])'
  BY <1>6, <1>7 DEF CallSound, Writing, SettledBelow
<1>. QED  BY <1>1, <1>2, <1>3, <1>6, <1>8, LoopStep

\* The bridge takes the operation, rejects it, or is not heard of in time.
LEMMA BridgeKeeps ==
    ASSUME IInv, NEW c \in Callers,
           BridgeApplies(c) \/ BridgeLeaves(c) \/ BridgeRejects(c) \/ BridgeTimesOut(c)
    PROVE  IInv'
<1>1. /\ call[c] \in Calls /\ call \in [Callers -> Calls]
      /\ refusedOps \subseteq Ops /\ landed \in [Ops -> 0 .. 2]
      /\ dirty \subseteq Ops /\ late \subseteq Ops /\ mishaps \subseteq Mishaps
      /\ CallSound(call[c])
  BY DEF IInv, TypeOK
<1>2. call[c].i \in Ops /\ SettledBelow(call[c].i)
  BY <1>1 DEF BridgeApplies, BridgeLeaves, BridgeRejects, BridgeTimesOut, CallSound
<1>3. /\ UNCHANGED <<submitted, preRefused, journal, pid, resp>>
      /\ UNCHANGED <<refusedOps, mishaps>>
  BY DEF BridgeApplies, BridgeLeaves, BridgeRejects, BridgeTimesOut, model
<1>4. PICK r \in Results :
        /\ call' = [call EXCEPT ![c].pc = "answer", ![c].result = r]
        /\ dirty' \subseteq Ops /\ late' \subseteq Ops
        /\ \/ landed' = landed /\ r # "ok"
           \/ landed' = Bump(call[c].i)
  BY <1>1, <1>2 DEF BridgeApplies, BridgeLeaves, BridgeRejects, BridgeTimesOut, model, Results
<1>5. /\ landed' \in [Ops -> 0 .. 2]
      /\ r = "ok" => landed'[call[c].i] > 0
      /\ \A j \in Ops : landed[j] > 0 => landed'[j] > 0
  BY <1>1, <1>2, <1>4, BumpSettles
<1>6. "answer" \in Pcs
  BY DEF Pcs
<1>7. /\ call' \in [Callers -> Calls]
      /\ call'[c].pc = "answer" /\ call'[c].i = call[c].i /\ call'[c].result = r
      /\ \A d \in Callers \ {c} : call'[d] = call[d]
  BY <1>1, <1>4, <1>6 DEF Calls
<1>8. \A j \in Ops : j < call[c].i => Settled(j)'
  BY <1>2, <1>3, <1>5 DEF SettledBelow, Settled
<1>9. CallSound(call[c])'
  BY <1>2, <1>5, <1>7, <1>8 DEF CallSound, Writing, SettledBelow, Settled
<1>. QED  BY <1>1, <1>3, <1>4, <1>5, <1>7, <1>9, LoopStep

\* A call turns to its journal with an entry d that passes over nothing.
LEMMA TurnsToJournal ==
    ASSUME IInv, NEW c \in Callers, NEW k \in Calls, NEW d \in Docs,
           NEW next \in {"boundary", "idle"},
           UNCHANGED <<submitted, preRefused, journal, pid, resp, model, mishaps>>,
           call' = [call EXCEPT ![c] = Journalling(k, d, next)],
           SettledBelow(k.i), SettledBelow(d.from),
           d.state = "succeeded" => d.from = NOps + 1,
           next = "boundary" => k.i \in Ops /\ Settled(k.i),
           next = "idle" => d.state \in {"chunked", "succeeded", "partial", "failed"}
    PROVE  IInv'
<1>1. /\ call \in [Callers -> Calls]
      /\ refusedOps \subseteq Ops /\ landed \in [Ops -> 0 .. 2]
      /\ dirty \subseteq Ops /\ late \subseteq Ops /\ mishaps \subseteq Mishaps
  BY DEF IInv, TypeOK
<1>2. UNCHANGED <<submitted, preRefused, journal, pid, resp>>
  OBVIOUS
<1>3. UNCHANGED <<landed, dirty, late, refusedOps, mishaps>>
  BY DEF model
<1>4. next \in Pcs
  BY DEF Pcs
<1>5. LET j == Journalling(k, d, next)
      IN  j \in Calls /\ j.pc = "open" /\ j.doc = d /\ j.then = next /\ j.i = k.i
  BY <1>4, JournallingType
<1>6. /\ call' \in [Callers -> Calls]
      /\ call'[c].pc = "open" /\ call'[c].doc = d
      /\ call'[c].then = next /\ call'[c].i = k.i
      /\ \A e \in Callers \ {c} : call'[e] = call[e]
  BY <1>1, <1>5
<1>7. \A j \in Ops : Settled(j)' <=> Settled(j)
  BY <1>3 DEF Settled
<1>8. CallSound(call[c])'
  BY <1>6, <1>7 DEF CallSound, Writing, SettledBelow
<1>. QED  BY <1>1, <1>2, <1>3, <1>6, <1>8, LoopStep

\* The operation that was applied leaves the remaining ones.
LEMMA OpAppliedKeeps ==
    ASSUME IInv, NEW c \in Callers, OpApplied(c)
    PROVE  IInv'
<1>1. /\ call[c] \in Calls /\ pid \in Nat /\ CallSound(call[c])
  BY DEF IInv, TypeOK
<1>2. call[c].i \in Ops /\ SettledBelow(call[c].i) /\ Settled(call[c].i)
  BY <1>1 DEF OpApplied, CallSound
<1>3. SettledBelow(call[c].i + 1)
  BY <1>2, OneMoreSettled
<1>4. AppliedAfter(call[c]) \in Int
  BY <1>1, BatchAssumption DEF AppliedAfter, Calls, Froms
<1>5. PICK k \in Calls : /\ k.i = call[c].i
                         /\ k.applied \in Int
                         /\ call' = [call EXCEPT ![c] =
                              Journalling(k, Doc("applying", k.i + 1, k.applied, pid), "boundary")]
  BY <1>1, <1>4 DEF OpApplied, Calls
<1>6. k.i + 1 \in Froms /\ "applying" \in JournalStates
  BY <1>2, <1>5, BatchAssumption DEF Ops, Froms, JournalStates
<1>7. PICK d \in Docs : d = Doc("applying", k.i + 1, k.applied, pid)
  BY <1>1, <1>5, <1>6, DocType
<1>8. d.from = call[c].i + 1 /\ d.state = "applying"
  BY <1>5, <1>7 DEF Doc
<1>9. call' = [call EXCEPT ![c] = Journalling(k, d, "boundary")]
  BY <1>5, <1>7
<1>10. UNCHANGED <<submitted, preRefused, journal, pid, resp, model, mishaps>>
  BY DEF OpApplied
<1>11. /\ k.i \in Ops /\ SettledBelow(k.i) /\ Settled(k.i)
       /\ SettledBelow(d.from) /\ d.state # "succeeded"
  BY <1>2, <1>3, <1>5, <1>8
<1>. QED  BY <1>9, <1>10, <1>11, TurnsToJournal

\* The last entry of a call: what it leaves over starts right after what it settled.
LEMMA EndKeeps ==
    ASSUME IInv, NEW c \in Callers, OpFailed(c) \/ ChunkEnds(c) \/ Finish(c)
    PROVE  IInv'
<1>1. /\ call[c] \in Calls /\ pid \in Nat /\ CallSound(call[c])
  BY DEF IInv, TypeOK
<1>2. call[c].i \in Froms /\ call[c].applied \in Int
  BY <1>1 DEF Calls
<1>3. SettledBelow(call[c].i)
  BY <1>1 DEF OpFailed, ChunkEnds, Finish, CallSound
<1>4. PICK s \in {"chunked", "succeeded", "partial", "failed"}, f \in Froms :
        /\ EndsWith(c, s, f)
        /\ SettledBelow(f)
        /\ s = "succeeded" => f = NOps + 1
  <2>1. CASE OpFailed(c)
    BY <1>2, <1>3, <2>1 DEF OpFailed, Failures, FailureState
  <2>2. CASE ChunkEnds(c)
    <3>1. call[c].i \in Ops /\ Settled(call[c].i)
      BY <1>1, <2>2 DEF ChunkEnds, CallSound
    <3>2. SettledBelow(call[c].i + 1)
      BY <1>3, <3>1, OneMoreSettled
    <3>3. call[c].i + 1 \in Froms
      BY <3>1, BatchAssumption DEF Ops, Froms
    <3>4. EndsWith(c, "chunked", call[c].i + 1)
      BY <2>2 DEF ChunkEnds
    <3>. QED  BY <3>2, <3>3, <3>4
  <2>3. CASE Finish(c)
    <3>1. call[c].i = NOps + 1
      BY <2>3 DEF Finish
    <3>2. EndsWith(c, "succeeded", NOps + 1)
      BY <2>3 DEF Finish
    <3>. QED  BY <1>2, <1>3, <3>1, <3>2
  <2>. QED  BY <2>1, <2>2, <2>3
<1>5. s \in JournalStates
  BY DEF JournalStates
<1>6. PICK k \in Calls : k = call[c]
  BY <1>1
<1>7. PICK d \in Docs : d = Doc(s, f, k.applied, pid)
  BY <1>1, <1>2, <1>5, <1>6, DocType
<1>8. d.from = f /\ d.state = s
  BY <1>7 DEF Doc
<1>9. call' = [call EXCEPT ![c] = Journalling(k, d, "idle")]
  BY <1>4, <1>6, <1>7 DEF EndsWith
<1>10. UNCHANGED <<submitted, preRefused, journal, pid, resp, model, mishaps>>
  BY DEF OpFailed, ChunkEnds, Finish
<1>. QED  BY <1>3, <1>4, <1>6, <1>8, <1>9, <1>10, TurnsToJournal

\* Within the chunk the loop moves past the operation it applied.
LEMMA ChunkGoesOnKeeps ==
    ASSUME IInv, NEW c \in Callers, ChunkGoesOn(c)
    PROVE  IInv'
<1>1. /\ call[c] \in Calls /\ call \in [Callers -> Calls]
      /\ refusedOps \subseteq Ops /\ landed \in [Ops -> 0 .. 2]
      /\ dirty \subseteq Ops /\ late \subseteq Ops /\ mishaps \subseteq Mishaps
      /\ CallSound(call[c])
  BY DEF IInv, TypeOK
<1>2. call[c].i \in Ops /\ SettledBelow(call[c].i) /\ Settled(call[c].i)
  BY <1>1 DEF ChunkGoesOn, CallSound
<1>3. SettledBelow(call[c].i + 1)
  BY <1>2, OneMoreSettled
<1>4. /\ UNCHANGED <<submitted, preRefused, journal, pid, resp>>
      /\ UNCHANGED <<landed, dirty, late, refusedOps, mishaps>>
      /\ call' = [call EXCEPT ![c] = NextOp(call[c])]
  BY DEF ChunkGoesOn, model
<1>5. LET n == NextOp(call[c])
      IN  n \in Calls /\ n.pc = "apply" /\ n.i = call[c].i + 1
  BY <1>1, <1>2, NextOpType
<1>6. /\ call' \in [Callers -> Calls]
      /\ call'[c].pc = "apply" /\ call'[c].i = call[c].i + 1
      /\ \A d \in Callers \ {c} : call'[d] = call[d]
  BY <1>1, <1>4, <1>5
<1>7. CallSound(call[c])'
  BY <1>3, <1>4, <1>6 DEF CallSound, Writing, SettledBelow, Settled
<1>. QED  BY <1>1, <1>4, <1>6, <1>7, LoopStep

\* Continuing resumes where the journal says, and below that all is settled.
LEMMA ContinueKeeps ==
    ASSUME IInv, NEW c \in Callers, Continue(c)
    PROVE  IInv'
<1>1. /\ TypeOK /\ call \in [Callers -> Calls] /\ resp \in [Callers -> Resps]
      /\ pid \in Nat /\ journal \in Docs /\ mishaps \subseteq Mishaps
  BY DEF IInv, TypeOK
<1>2. journal.from \in Froms /\ journal.applied \in Int /\ SettledBelow(journal.from)
  BY <1>1 DEF IInv, JournalSound, SettledBelow, Docs
<1>3. /\ UNCHANGED <<submitted, preRefused, journal, pid>>
      /\ UNCHANGED <<landed, dirty, late, refusedOps>>
      /\ call' = [call EXCEPT ![c] =
                    Started("bridge_edit_continue", journal.from, journal.applied)]
      /\ resp' = [resp EXCEPT ![c] = Silence]
      /\ mishaps' \subseteq Mishaps
  BY <1>1 DEF Continue, model, Mishaps
<1>4. "bridge_edit_continue" \in Functions
  BY DEF Functions
<1>5. LET s == Started("bridge_edit_continue", journal.from, journal.applied)
      IN  /\ s \in Calls /\ s.pc = "open" /\ s.i = journal.from /\ s.then = "apply"
          /\ s.doc.state = "applying" /\ s.doc.from = journal.from
  BY <1>1, <1>2, <1>4, StartedType
<1>6. /\ call' \in [Callers -> Calls]
      /\ call'[c].pc = "open" /\ call'[c].i = journal.from /\ call'[c].then = "apply"
      /\ call'[c].doc.state = "applying" /\ call'[c].doc.from = journal.from
      /\ \A d \in Callers \ {c} : call'[d] = call[d]
  BY <1>1, <1>3, <1>5
<1>7. Silence \in Resps
  BY DEF Silence, Resps, Answers, Results
<1>8. submitted' \in BOOLEAN
  BY <1>1, <1>3, Zenon DEF TypeOK
<1>9. TypeOK'
  BY <1>1, <1>3, <1>6, <1>7, <1>8 DEF TypeOK
<1>10. \A j \in Ops : Settled(j) <=> Settled(j)'
  BY <1>3 DEF Settled
<1>11. CallSound(call[c])'
  BY <1>2, <1>6, <1>10 DEF CallSound, Writing, SettledBelow
<1>12. \A d \in Callers : resp'[d].state = "succeeded" => resp[d].state = "succeeded"
  BY <1>1, <1>3 DEF Silence
<1>. QED  BY <1>3, <1>6, <1>9, <1>10, <1>11, <1>12, CallAlone

\* The answers that change nothing but what their caller heard.
LEMMA AnswersKeep ==
    ASSUME IInv, NEW c \in Callers, SubmitRefused(c) \/ ContinueRefused(c)
    PROVE  IInv'
<1>1. TypeOK /\ resp \in [Callers -> Resps]
  BY DEF IInv, TypeOK
<1>2. PICK a \in Answers \ {"succeeded"} :
        \/ resp' = [resp EXCEPT ![c].state = a]
        \/ resp' = [resp EXCEPT ![c] = [Silence EXCEPT !.state = a]]
  <2>1. CASE SubmitRefused(c)
    BY <2>1 DEF SubmitRefused, Answers
  <2>2. CASE ContinueRefused(c)
    <3>1. ContinueRefusals \subseteq Answers \ {"succeeded"}
      BY DEF ContinueRefusals, Answers
    <3>. QED  BY <2>2, <3>1 DEF ContinueRefused
  <2>. QED  BY <2>1, <2>2
<1>3. Silence \in Resps
  BY DEF Silence, Resps, Answers, Results
<1>4. /\ resp' \in [Callers -> Resps]
      /\ \A d \in Callers : resp'[d].state = "succeeded" => resp[d].state = "succeeded"
  BY <1>1, <1>2, <1>3 DEF Resps
<1>5. /\ UNCHANGED <<submitted, preRefused, journal, pid, call, mishaps>>
      /\ UNCHANGED <<landed, dirty, late, refusedOps>>
  BY DEF SubmitRefused, ContinueRefused, model
<1>6. submitted' \in BOOLEAN
  BY <1>1, <1>5, Zenon DEF TypeOK
<1>7. TypeOK'
  BY <1>1, <1>4, <1>5, <1>6 DEF TypeOK
<1>8. \A j \in Ops : Settled(j) <=> Settled(j)'
  BY <1>5 DEF Settled
<1>9. CallSound(call[c])'
  BY <1>5, <1>8 DEF IInv, CallSound, Writing, SettledBelow
<1>. QED  BY <1>4, <1>5, <1>7, <1>8, <1>9, CallAlone

\* A call that is done with its journal keeps what it settled; and when it tells
\* its client "succeeded", nothing of the batch is left over.
LEMMA GoOnKeeps ==
    ASSUME IInv, NEW c \in Callers, Writing(call[c]), GoOn(c),
           UNCHANGED <<landed, refusedOps>>
    PROVE  /\ call' \in [Callers -> Calls] /\ resp' \in [Callers -> Resps]
           /\ \A d \in Callers : CallSound(call[d])'
           /\ SucceededComplete'
<1>1. /\ call \in [Callers -> Calls] /\ call[c] \in Calls /\ resp \in [Callers -> Resps]
      /\ CallSound(call[c]) /\ SucceededComplete
  BY DEF IInv, TypeOK
<1>2. /\ SettledBelow(call[c].i) /\ SettledBelow(call[c].doc.from)
      /\ call[c].doc.state = "succeeded" => call[c].doc.from = NOps + 1
      /\ call[c].then \in {"idle", "apply", "boundary"}
      /\ call[c].then = "boundary" => call[c].i \in Ops /\ Settled(call[c].i)
      /\ call[c].then = "idle" =>
            call[c].doc.state \in {"chunked", "succeeded", "partial", "failed"}
  BY <1>1 DEF CallSound, Writing
<1>3. \A j \in Ops : Settled(j) <=> Settled(j)'
  BY DEF Settled
<1>4. CASE call[c].then # "idle"
  <2>1. PICK k \in Calls : /\ call' = [call EXCEPT ![c] = k]
                           /\ k.pc = call[c].then /\ k.i = call[c].i
    <3>. DEFINE n == [call[c] EXCEPT !.pc = call[c].then, !.doc = Absent, !.then = "idle"]
    <3>1. Absent \in Docs /\ "idle" \in Pcs /\ call[c].then \in Pcs
      BY <1>2, BatchAssumption DEF Absent, Doc, Docs, JournalStates, Froms, Pcs
    <3>2. n \in Calls /\ n.pc = call[c].then /\ n.i = call[c].i
      BY <1>1, <3>1 DEF Calls
    <3>3. call' = [call EXCEPT ![c] = n]
      BY <1>4 DEF GoOn
    <3>. HIDE DEF n
    <3>. QED  BY <3>2, <3>3
  <2>2. /\ call' \in [Callers -> Calls] /\ resp' = resp
        /\ call'[c].pc = call[c].then /\ call'[c].i = call[c].i
        /\ \A d \in Callers \ {c} : call'[d] = call[d]
    BY <1>1, <1>4, <2>1 DEF GoOn
  <2>3. CallSound(call[c])'
    BY <1>2, <1>3, <1>4, <2>2 DEF CallSound, Writing, SettledBelow
  <2>4. \A d \in Callers : CallSound(call[d])'
    BY <1>3, <2>2, <2>3, OtherCalls
  <2>. QED  BY <1>1, <1>3, <2>2, <2>4 DEF SucceededComplete
<1>5. CASE call[c].then = "idle"
  <2>1. PICK r \in Resps : /\ resp' = [resp EXCEPT ![c] = r]
                           /\ r.state = call[c].doc.state
    BY <1>1, <1>2, <1>5 DEF GoOn, Resps, Answers, Calls, Docs
  <2>2. /\ call' \in [Callers -> Calls] /\ call'[c] = Idle
        /\ \A d \in Callers \ {c} : call'[d] = call[d]
    BY <1>1, <1>5, IdleType DEF GoOn
  <2>3. CallSound(call[c])'
    BY <2>2 DEF CallSound, Writing, Idle
  <2>4. \A d \in Callers : CallSound(call[d])'
    BY <1>3, <2>2, <2>3, OtherCalls
  <2>5. SucceededComplete'
    <3>1. ASSUME NEW d \in Callers, resp'[d].state = "succeeded", NEW j \in Ops
          PROVE  Settled(j)
      <4>1. CASE d = c
        BY <1>1, <1>2, <2>1, <3>1, <4>1, BatchAssumption DEF SettledBelow, Ops
      <4>2. CASE d # c
        BY <1>1, <2>1, <3>1, <4>2 DEF SucceededComplete
      <4>. QED  BY <4>1, <4>2
    <3>. QED  BY <1>3, <3>1 DEF SucceededComplete
  <2>. QED  BY <1>1, <2>1, <2>2, <2>4, <2>5
<1>. QED  BY <1>4, <1>5

\* Truncating the file lists no operation as done; filling it, or failing to,
\* leaves an entry whose call had settled everything it no longer lists.
LEMMA JournalKeeps ==
    ASSUME IInv, NEW c \in Callers, OpenJournal(c) \/ FillJournal(c) \/ JournalError(c)
    PROVE  IInv'
<1>1. /\ TypeOK /\ call \in [Callers -> Calls] /\ call[c] \in Calls /\ journal \in Docs
      /\ mishaps \subseteq Mishaps /\ CallSound(call[c]) /\ JournalSound /\ SucceededComplete
  BY DEF IInv, TypeOK
<1>2. Writing(call[c])
  BY DEF OpenJournal, FillJournal, JournalError, Writing
<1>3. /\ UNCHANGED <<submitted, preRefused, pid>>
      /\ UNCHANGED <<landed, dirty, late, refusedOps>>
  BY DEF OpenJournal, FillJournal, JournalError, model
<1>4. mishaps' \subseteq Mishaps
  BY <1>1 DEF OpenJournal, FillJournal, JournalError, Mishaps
<1>5. \A j \in Ops : Settled(j) <=> Settled(j)'
  BY <1>3 DEF Settled
<1>6. journal' \in {journal, [journal EXCEPT !.state = "torn"], call[c].doc}
  BY DEF OpenJournal, FillJournal, JournalError
<1>7. journal' \in Docs
  BY <1>1, <1>6 DEF Docs, JournalStates, Calls
<1>8. JournalSound'
  <2>1. SettledBelow(journal.from) /\ SettledBelow(call[c].doc.from)
    BY <1>1, <1>2 DEF JournalSound, SettledBelow, CallSound
  <2>2. journal'.from \in {journal.from, call[c].doc.from}
    BY <1>1, <1>6 DEF Docs
  <2>. QED  BY <1>5, <2>1, <2>2 DEF JournalSound, SettledBelow
<1>9. /\ call' \in [Callers -> Calls] /\ resp' \in [Callers -> Resps]
      /\ \A d \in Callers : CallSound(call[d])'
      /\ SucceededComplete'
  <2>1. CASE OpenJournal(c)
    <3>1. /\ resp' = resp
          /\ call' = [call EXCEPT ![c].pc = "fill"]
      BY <2>1 DEF OpenJournal
    <3>2. "fill" \in Pcs
      BY DEF Pcs
    <3>3. call' \in [Callers -> Calls]
      BY <1>1, <3>1, <3>2 DEF Calls
    <3>4. /\ \A d \in Callers \ {c} : call'[d] = call[d]
          /\ call'[c].pc = "fill" /\ call'[c].i = call[c].i
          /\ call'[c].doc = call[c].doc /\ call'[c].then = call[c].then
      BY <1>1, <3>1 DEF Calls
    <3>5. CallSound(call[c])'
      BY <1>1, <1>2, <1>5, <3>4 DEF CallSound, Writing, SettledBelow
    <3>6. \A d \in Callers : CallSound(call[d])'
      BY <1>5, <3>4, <3>5, OtherCalls
    <3>. QED  BY <1>1, <1>5, <3>1, <3>3, <3>6 DEF TypeOK, SucceededComplete
  <2>2. CASE FillJournal(c) \/ JournalError(c)
    <3>1. GoOn(c)
      BY <2>2 DEF FillJournal, JournalError
    <3>2. UNCHANGED <<landed, refusedOps>>
      BY <1>3
    <3>. QED  BY <1>2, <3>1, <3>2, GoOnKeeps
  <2>. QED  BY <2>1, <2>2
<1>10. submitted' \in BOOLEAN
  BY <1>1, <1>3, Zenon DEF TypeOK
<1>11. TypeOK'
  BY <1>1, <1>3, <1>4, <1>7, <1>9, <1>10 DEF TypeOK
<1>. QED  BY <1>8, <1>9, <1>11 DEF IInv

------------------------------------------------------------------------------
(* What happens around the calls.                                          *)

\* A restart forgets the calls, not the journal or the model.
LEMMA RestartKeeps ==
    ASSUME IInv, Restart
    PROVE  IInv'
<1>1. /\ TypeOK /\ call \in [Callers -> Calls] /\ pid \in Nat /\ late \subseteq Ops
      /\ mishaps \subseteq Mishaps
  BY DEF IInv, TypeOK
<1>2. /\ UNCHANGED <<submitted, preRefused, journal, resp, landed, dirty, refusedOps>>
      /\ pid' \in Nat
      /\ call' = [c \in Callers |-> Idle]
      /\ mishaps' \subseteq Mishaps
  BY <1>1 DEF Restart, Mishaps
<1>3. InFlight \subseteq Ops
  BY DEF InFlight
<1>4. late' \subseteq Ops
  BY <1>1, <1>3 DEF Restart
<1>5. call' \in [Callers -> Calls]
  BY <1>2, IdleType
<1>6. submitted' \in BOOLEAN
  BY <1>1, <1>2, Zenon DEF TypeOK
<1>7. TypeOK'
  BY <1>1, <1>2, <1>4, <1>5, <1>6 DEF TypeOK
<1>8. ASSUME NEW c \in Callers PROVE CallSound(call[c])'
  BY <1>2 DEF CallSound, Writing, Idle
<1>9. \A j \in Ops : Settled(j) <=> Settled(j)'
  BY <1>2 DEF Settled
<1>10. JournalSound'
  BY <1>2, <1>9 DEF IInv, JournalSound
<1>11. SucceededComplete'
  BY <1>2, <1>9 DEF IInv, SucceededComplete
<1>. QED  BY <1>7, <1>8, <1>10, <1>11 DEF IInv

\* A late landing settles one more operation; pruning forgets the journal whole.
LEMMA WorldKeeps ==
    ASSUME IInv, (\E i \in Ops : LateLanding(i)) \/ Prune
    PROVE  IInv'
<1>1. /\ TypeOK /\ landed \in [Ops -> 0 .. 2] /\ late \subseteq Ops
      /\ journal \in Docs /\ mishaps \subseteq Mishaps
  BY DEF IInv, TypeOK
<1>2. /\ UNCHANGED <<submitted, preRefused, pid, call, resp, dirty, refusedOps>>
      /\ late' \subseteq Ops
      /\ mishaps' \subseteq Mishaps
      /\ journal' \in {journal, Absent}
  BY <1>1 DEF LateLanding, Prune, model, Mishaps
<1>3. /\ landed' \in [Ops -> 0 .. 2]
      /\ \A j \in Ops : landed[j] > 0 => landed'[j] > 0
  BY <1>1, BumpSettles DEF LateLanding, Prune, model
<1>4. Absent \in Docs /\ Absent.from = 1
  BY BatchAssumption DEF Absent, Doc, Docs, JournalStates, Froms
<1>5. submitted' \in BOOLEAN
  BY <1>1, <1>2, Zenon DEF TypeOK
<1>6. TypeOK'
  BY <1>1, <1>2, <1>3, <1>4, <1>5 DEF TypeOK
<1>7. \A j \in Ops : Settled(j) => Settled(j)'
  BY <1>2, <1>3 DEF Settled
<1>8. ASSUME NEW c \in Callers PROVE CallSound(call[c])'
  BY <1>2, <1>7 DEF IInv, CallSound, Writing, SettledBelow
<1>9. JournalSound'
  BY <1>2, <1>4, <1>7 DEF IInv, JournalSound, Ops
<1>10. SucceededComplete'
  BY <1>2, <1>7 DEF IInv, SucceededComplete
<1>. QED  BY <1>6, <1>8, <1>9, <1>10 DEF IInv

LEMMA StutterKeeps ==
    ASSUME IInv, UNCHANGED vars
    PROVE  IInv'
<1>1. UNCHANGED <<submitted, preRefused, journal, pid, call, resp, mishaps>>
  BY DEF vars
<1>2. UNCHANGED <<landed, dirty, late, refusedOps>>
  BY DEF vars, model
<1>3. submitted' \in BOOLEAN
  BY <1>1, Zenon DEF IInv, TypeOK
<1>4. TypeOK'
  BY <1>1, <1>2, <1>3 DEF IInv, TypeOK
<1>5. \A j \in Ops : Settled(j) <=> Settled(j)'
  BY <1>2 DEF Settled
<1>6. ASSUME NEW c \in Callers PROVE CallSound(call[c])'
  BY <1>1, <1>5 DEF IInv, CallSound, Writing, SettledBelow
<1>7. JournalSound'
  BY <1>1, <1>5 DEF IInv, JournalSound
<1>8. SucceededComplete'
  BY <1>1, <1>5 DEF IInv, SucceededComplete
<1>. QED  BY <1>4, <1>6, <1>7, <1>8 DEF IInv

------------------------------------------------------------------------------
(* Theorems.                                                               *)

\* The invariant is inductive: every action of every call, and everything that
\* can happen around them, preserves it.
THEOREM Inductive == IInv /\ [Next]_vars => IInv'
<1>. SUFFICES ASSUME IInv, [Next]_vars PROVE IInv'
  OBVIOUS
<1>1. ASSUME NEW c \in Callers, Submit(c) PROVE IInv'
  BY <1>1, SubmitKeeps
<1>2. ASSUME NEW c \in Callers, SubmitRefused(c) \/ ContinueRefused(c) PROVE IInv'
  BY <1>2, AnswersKeep
<1>3. ASSUME NEW c \in Callers, Continue(c) PROVE IInv'
  BY <1>3, ContinueKeeps
<1>4. ASSUME NEW c \in Callers, CallStep(c) PROVE IInv'
  <2>1. CASE OpenJournal(c) \/ FillJournal(c)
    BY <2>1, JournalKeeps
  <2>2. CASE SkipOp(c) \/ OpRefused(c)
    BY <2>2, RefusalKeeps
  <2>3. CASE BridgeApplies(c) \/ BridgeLeaves(c) \/ BridgeRejects(c) \/ BridgeTimesOut(c)
    BY <2>3, BridgeKeeps
  <2>4. CASE OpApplied(c)
    BY <2>4, OpAppliedKeeps
  <2>5. CASE OpFailed(c) \/ ChunkEnds(c) \/ Finish(c)
    BY <2>5, EndKeeps
  <2>6. CASE ChunkGoesOn(c)
    BY <2>6, ChunkGoesOnKeeps
  <2>. QED  BY <1>4, <2>1, <2>2, <2>3, <2>4, <2>5, <2>6 DEF CallStep
<1>5. ASSUME NEW c \in Callers, JournalError(c) PROVE IInv'
  BY <1>5, JournalKeeps
<1>6. CASE \E i \in Ops : LateLanding(i)
  BY <1>6, WorldKeeps
<1>7. CASE Restart
  BY <1>7, RestartKeeps
<1>8. CASE Prune
  BY <1>8, WorldKeeps
<1>9. CASE UNCHANGED vars
  BY <1>9, StutterKeeps
<1>. QED  BY <1>1, <1>2, <1>3, <1>4, <1>5, <1>6, <1>7, <1>8, <1>9 DEF Next

\* Type correctness, for every batch, chunk size and set of callers.
THEOREM TypeCorrect == Spec => []TypeOK
<1>1. IInv => TypeOK
  BY DEF IInv
<1>. QED  BY <1>1, InitIInv, Inductive, PTL DEF Spec

\* Whatever calls overlap, writes fail and processes die, the journal never drops
\* an operation from remaining_ops that was neither applied nor refused.
THEOREM JournalIsSound == Spec => []JournalSound
<1>1. IInv => JournalSound
  BY DEF IInv
<1>. QED  BY <1>1, InitIInv, Inductive, PTL DEF Spec

\* A caller is told "succeeded" only of a batch all of whose operations were
\* applied or refused, whoever applied the other chunks.
THEOREM SuccessIsComplete == Spec => []SucceededComplete
<1>1. IInv => SucceededComplete
  BY DEF IInv
<1>. QED  BY <1>1, InitIInv, Inductive, PTL DEF Spec
==============================================================================
