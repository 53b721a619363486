---------------------------- MODULE NetLogicProofs ----------------------------
(***************************************************************************)
(* Theorems about NetLogicSource, for any number of worker threads,        *)
(* attempts, versions, rewrites by Studio, calls and restarts.             *)
(***************************************************************************)
EXTENDS NetLogicSource, TLAPS

CallType == [pc : Steps, op : Ops, data : Contents \union {Absent},
             backup : Contents \union {Absent}, late : BOOLEAN,
             changed : BOOLEAN, tries : 0..Attempts]

\* The type invariant with what it needs: the bound on edits is one on versions.
SourceTypes ==
    /\ TypeOK
    /\ own + budget.edits = MaxEdits

\* Calls that have a snapshot and wait for Studio, or put it back.
Restoring == {c \in Calls : call[c].pc \in {"settle", "verify", "differs", "done"}}

\* As long as nothing clashed: one call protects the file, or several guards do that watch over
\* one content; and what a call may put back is what the user wrote last, or that is not in
\* the file.
OneProtects ==
    "clash" \notin mishaps =>
        /\ \A c, d \in Protecting :
             c = d \/ (call[c].late /\ call[d].late /\ call[c].data = call[d].data)
        /\ \A c \in Protecting : call[c].late => registry \in {Absent, call[c].data}
        /\ \A c \in Protecting : call[c].pc # "look" /\ call[c].data # own => file # own

\* A guard begins with a look and no backup; other calls begin with a snapshot.
Guards ==
    /\ \A c \in Calls \ Protecting : ~call[c].late /\ call[c].backup = Absent
    /\ \A c \in Protecting : /\ call[c].pc = "look" => call[c].late
                             /\ call[c].pc = "post" => ~call[c].late
                             /\ call[c].late => call[c].backup \in {Absent, call[c].data}

\* A create has been answered, and Studio's template may come.
Making == \E c \in Restoring : call[c].op = "create" /\ ~call[c].late

-----------------------------------------------------------------------------
(* Types.                                                                  *)

LEMMA TypesInit == Init => SourceTypes
BY SourceAssumption DEF Init, SourceTypes, TypeOK, Sources, Contents, Idle, Steps, Ops, Absent

LEMMA OnwardType == ASSUME TypeOK, NEW c \in Calls PROVE Onward(c) \in CallType
<1>1. call[c].op \in Ops /\ Idle \in CallType
  BY SourceAssumption DEF TypeOK, Idle, CallType, Steps, Ops
<1>2. [Idle EXCEPT !.op = call[c].op, !.pc = "snap"] \in CallType
  BY <1>1 DEF CallType, Steps
<1> QED
  BY <1>1, <1>2 DEF Onward

LEMMA TypesCall ==
    ASSUME SourceTypes, NEW c \in Calls, CallStep(c)
    PROVE  SourceTypes'
<1> USE SourceAssumption DEF SourceTypes, TypeOK, CallType, Mishaps, Blame
<1>0. Idle \in CallType /\ Onward(c) \in CallType
  BY OnwardType DEF Idle, Steps, Ops, Absent
<1> USE DEF Steps, Ops
<1>1. CASE GuardCopies(c)
  <2> DEFINE x == [call[c] EXCEPT !.pc = "look", !.data = registry, !.late = TRUE]
  <2>1. x \in CallType
    <3>1. call[c] \in CallType /\ registry \in Contents \union {Absent}
      OBVIOUS
    <3> QED
      BY ONLY <3>1 DEF CallType, Steps
  <2>2. call' = [call EXCEPT ![c] = Onward(c)] \/ call' = [call EXCEPT ![c] = x]
    BY <1>1 DEF GuardCopies
  <2> QED
    BY <1>0, <1>1, <2>1, <2>2 DEF GuardCopies
<1>2. CASE GuardLeaves(c)
  BY <1>0, <1>2 DEF GuardLeaves
<1>3. CASE GuardRestores(c)
  BY <1>0, <1>3 DEF GuardRestores
<1>4. CASE GuardContent(c)
  BY <1>0, <1>4 DEF GuardContent
<1>5. CASE Snapshot(c)
  <2>1. PICK b \in {file, Absent} :
          /\ call' = [call EXCEPT ![c].pc = "post", ![c].data = file, ![c].backup = b]
          /\ mishaps' \subseteq mishaps \union Mishaps
    BY <1>5 DEF Snapshot
  <2> DEFINE x == [call[c] EXCEPT !.pc = "post", !.data = file, !.backup = b]
  <2>2. x \in CallType
    <3>1. call[c] \in CallType /\ {b, file} \subseteq Contents \union {Absent}
      BY <2>1
    <3> QED
      BY ONLY <3>1 DEF CallType, Steps
  <2>3. call' = [call EXCEPT ![c] = x]
    BY <2>1
  <2>4. call' \in [Calls -> CallType]
    BY <2>2, <2>3
  <2>5. UNCHANGED <<file, kept, registry, pending, own, budget>>
    BY <1>5 DEF Snapshot
  <2> QED
    BY <2>1, <2>4, <2>5
<1>6. CASE Deleted(c)
  BY <1>0, <1>6 DEF Deleted
<1>7. CASE Created(c)
  BY <1>0, <1>7 DEF Created
<1>8. CASE CreateFails(c)
  BY <1>0, <1>8 DEF CreateFails
<1>9. CASE Settled(c)
  <2> DEFINE differs == call[c].changed \/ file # call[c].data
             x == [call[c] EXCEPT !.pc = IF file = call[c].data THEN "verify" ELSE "differs",
                                  !.changed = differs]
  <2>1. differs \in BOOLEAN
    OBVIOUS
  <2> HIDE DEF differs
  <2>2. x \in CallType
    <3>1. call[c] \in CallType
      OBVIOUS
    <3> QED
      BY ONLY <2>1, <3>1 DEF CallType, Steps
  <2>3. call' = [call EXCEPT ![c] = x]
    BY <1>9 DEF Settled, differs
  <2>4. call' \in [Calls -> CallType]
    BY <2>2, <2>3
  <2>5. UNCHANGED <<file, kept, registry, pending, own, mishaps, budget>>
    BY <1>9 DEF Settled
  <2> QED
    BY <2>4, <2>5
<1>10. CASE Verified(c)
  <2> DEFINE differs == call[c].changed \/ file # call[c].data
             x == [call[c] EXCEPT !.pc = IF file = call[c].data THEN "done" ELSE "differs",
                                  !.changed = differs]
  <2>1. differs \in BOOLEAN
    OBVIOUS
  <2> HIDE DEF differs
  <2>2. x \in CallType
    <3>1. call[c] \in CallType
      OBVIOUS
    <3> QED
      BY ONLY <2>1, <3>1 DEF CallType, Steps
  <2>3. call' = [call EXCEPT ![c] = x]
    BY <1>10 DEF Verified, differs
  <2>4. call' \in [Calls -> CallType]
    BY <2>2, <2>3
  <2>5. UNCHANGED <<file, kept, registry, pending, own, mishaps, budget>>
    BY <1>10 DEF Verified
  <2> QED
    BY <2>4, <2>5
<1>11. CASE Replace(c)
  BY <1>0, <1>11 DEF Replace
<1>12. CASE GivesUp(c)
  BY <1>0, <1>12 DEF GivesUp
<1>13. CASE Restored(c)
  BY <1>0, <1>13 DEF Restored
<1>14. CASE ServiceWrites(c)
  BY <1>0, <1>14 DEF ServiceWrites, UserWrites, Spend, Sources, Contents
<1>15. CASE WriteRefused(c)
  BY <1>0, <1>15 DEF WriteRefused
<1> QED
  BY <1>1, <1>2, <1>3, <1>4, <1>5, <1>6, <1>7, <1>8, <1>9, <1>10, <1>11, <1>12, <1>13, <1>14,
     <1>15 DEF CallStep

LEMMA TypesNext == SourceTypes /\ [Next]_vars => SourceTypes'
<1> USE SourceAssumption DEF SourceTypes, TypeOK, CallType, Mishaps, Blame, Spend
<1>1. ASSUME SourceTypes, NEW c \in Calls, NEW op \in Ops, Begin(c, op) PROVE SourceTypes'
  <2> DEFINE x == [Idle EXCEPT !.op = op, !.pc = IF op = "write" THEN "write" ELSE "guard"]
  <2>1. x \in CallType
    <3>1. Idle \in CallType
      BY DEF Idle, Steps, Ops
    <3> QED
      BY ONLY <3>1 DEF CallType, Steps
  <2>2. call' \in [Calls -> CallType]
    BY <1>1, <2>1 DEF Begin
  <2>3. /\ budget' \in [edits : Nat, rewrites : Nat, calls : Nat, restarts : Nat]
        /\ budget'.edits = budget.edits
    BY <1>1 DEF Begin
  <2>4. registry' \in {registry, Absent} /\ mishaps' \subseteq mishaps \union Mishaps
    BY <1>1 DEF Begin, Clear
  <2> QED
    BY <1>1, <2>2, <2>3, <2>4 DEF Begin
<1>2. ASSUME SourceTypes, EditorSaves PROVE SourceTypes'
  BY <1>2 DEF EditorSaves, UserWrites, Sources, Contents
<1>3. ASSUME SourceTypes, StudioTouches \/ StudioSettles \/ Forgets PROVE SourceTypes'
  <2>1. CASE StudioTouches
    BY <1>3, <2>1 DEF StudioTouches, Contents
  <2>2. CASE StudioSettles
    BY <1>3, <2>2 DEF StudioSettles
  <2>3. CASE Forgets
    BY <1>3, <2>3 DEF Forgets
  <2> QED
    BY <1>3, <2>1, <2>2, <2>3
<1>4. ASSUME SourceTypes, Restart PROVE SourceTypes'
  <2>1. Idle \in CallType
    BY DEF Idle, Steps, Ops
  <2> QED
    BY <1>4, <2>1 DEF Restart
<1>5. ASSUME SourceTypes, UNCHANGED vars PROVE SourceTypes'
  BY <1>5 DEF vars
<1> QED
  BY <1>1, <1>2, <1>3, <1>4, <1>5, TypesCall DEF Next

\* Every variable of the source protection stays in its type.
THEOREM SourceTypeCorrect == Spec => []TypeOK
<1>1. SourceTypes => TypeOK
  BY DEF SourceTypes
<1> QED
  BY <1>1, TypesInit, TypesNext, PTL DEF Spec

-----------------------------------------------------------------------------
(* A deliberate change is not reverted.                                    *)

LEMMA CallsTyped ==
    ASSUME SourceTypes
    PROVE  /\ call \in [Calls -> CallType]
           /\ file \in Contents \union {Absent} /\ own \in Sources
           /\ registry \in Contents \union {Absent}
           /\ pending \subseteq {Absent, Mixed, Template}
BY DEF SourceTypes, TypeOK, CallType

\* What becomes of the call in the two steps that begin to protect the file.
LEMMA CopyStep ==
    ASSUME SourceTypes, NEW c \in Calls, GuardCopies(c)
    PROVE  \/ call' = [call EXCEPT ![c] = Onward(c)] /\ registry = Absent
           \/ /\ registry # Absent
              /\ \A d \in Calls \ {c} : call'[d] = call[d]
              /\ call'[c].pc = "look" /\ call'[c].data = registry /\ call'[c].late
              /\ call'[c].backup = call[c].backup
BY CallsTyped DEF GuardCopies, CallType

LEMMA SnapshotStep ==
    ASSUME SourceTypes, NEW c \in Calls, Snapshot(c)
    PROVE  /\ \A d \in Calls \ {c} : call'[d] = call[d]
           /\ call'[c].pc = "post" /\ call'[c].data = file /\ call'[c].backup \in {file, Absent}
           /\ call'[c].late = call[c].late
           /\ call'[c].backup # file => "unprotected" \in mishaps'
<1>1. PICK b \in {file, Absent} :
         /\ call' = [call EXCEPT ![c].pc = "post", ![c].data = file, ![c].backup = b]
         /\ mishaps' = Blame(b # file \/ registry \notin {Absent, file}, "unprotected")
                       \union Blame(Protecting # {}, "clash")
  BY DEF Snapshot
<1>2. call \in [Calls -> CallType]
  BY CallsTyped
<1>3. /\ call'[c].pc = "post" /\ call'[c].data = file
      /\ call'[c].backup = b /\ call'[c].late = call[c].late
  BY <1>1, <1>2 DEF CallType
<1>4. b # file => "unprotected" \in mishaps'
  BY <1>1 DEF Blame
<1>5. \A d \in Calls \ {c} : call'[d] = call[d]
  BY <1>1, <1>2
<1> QED
  BY <1>1, <1>3, <1>4, <1>5

LEMMA GuardsCall ==
    ASSUME SourceTypes, Guards, NEW c \in Calls, CallStep(c)
    PROVE  Guards'
<1> USE CallsTyped DEF Guards, Protecting, CallType, Idle
<1>1. CASE GuardCopies(c)
  BY <1>1, CopyStep, ZenonT(40) DEF GuardCopies, Onward
<1>2. CASE GuardLeaves(c)
  BY <1>2 DEF GuardLeaves, Onward
<1>3. CASE GuardRestores(c)
  BY <1>3 DEF GuardRestores
<1>4. CASE GuardContent(c)
  BY <1>4 DEF GuardContent, Onward
<1>5. CASE Snapshot(c)
  <2>1. call[c].pc = "snap" /\ ~call[c].late
    BY <1>5 DEF Snapshot
  <2> QED
    BY ONLY <1>5, <2>1, SnapshotStep, SourceTypes, Guards DEF Guards, Protecting
<1>6. CASE Deleted(c)
  BY <1>6 DEF Deleted
<1>7. CASE Created(c)
  BY <1>7 DEF Created
<1>8. CASE CreateFails(c)
  BY <1>8 DEF CreateFails
<1>9. CASE Settled(c)
  BY <1>9 DEF Settled
<1>10. CASE Verified(c)
  BY <1>10 DEF Verified
<1>11. CASE Replace(c)
  BY <1>11 DEF Replace
<1>12. CASE GivesUp(c)
  BY <1>12 DEF GivesUp, Onward
<1>13. CASE Restored(c)
  BY <1>13 DEF Restored, Onward
<1>14. CASE ServiceWrites(c)
  BY <1>14 DEF ServiceWrites
<1>15. CASE WriteRefused(c)
  BY <1>15 DEF WriteRefused
<1> QED
  BY <1>1, <1>2, <1>3, <1>4, <1>5, <1>6, <1>7, <1>8,
     <1>9, <1>10, <1>11, <1>12, <1>13, <1>14, <1>15 DEF CallStep

LEMMA GuardsNext == SourceTypes /\ Guards /\ [Next]_vars => Guards'
<1> USE CallsTyped DEF Guards, Protecting, CallType, Idle
<1>1. ASSUME SourceTypes, Guards, NEW c \in Calls, NEW op \in Ops, Begin(c, op) PROVE Guards'
  BY <1>1 DEF Begin
<1>2. ASSUME SourceTypes, Guards, EditorSaves \/ StudioTouches \/ StudioSettles \/ Forgets
      PROVE  Guards'
  BY <1>2 DEF EditorSaves, StudioTouches, StudioSettles, Forgets
<1>3. ASSUME Restart PROVE Guards'
  BY <1>3 DEF Restart
<1>4. ASSUME Guards, UNCHANGED vars PROVE Guards'
  BY <1>4 DEF vars
<1> QED
  BY <1>1, <1>2, <1>3, <1>4, GuardsCall DEF Next

LEMMA OneCall ==
    ASSUME SourceTypes, Guards, OneProtects, NEW c \in Calls, CallStep(c)
    PROVE  OneProtects'
<1> USE CallsTyped DEF OneProtects, Guards, Protecting, CallType, Idle, Blame, Contents,
        Sources, Absent, Mixed, Template
<1>1. CASE GuardCopies(c)
  <2>1. call[c].pc = "guard"
    BY <1>1 DEF GuardCopies
  <2>2. CASE call' = [call EXCEPT ![c] = Onward(c)]
    BY <1>1, <2>1, <2>2 DEF GuardCopies, Onward
  <2>3. CASE registry # Absent /\ ~(call' = [call EXCEPT ![c] = Onward(c)])
    <3>1. /\ \A d \in Calls \ {c} : call'[d] = call[d]
          /\ call'[c].pc = "look" /\ call'[c].data = registry /\ call'[c].late
      BY <1>1, <2>3, CopyStep
    <3>2. UNCHANGED <<file, registry, own>> /\ mishaps \subseteq mishaps'
      BY <1>1 DEF GuardCopies
    <3>3. \A d \in Protecting : ~call[d].late => "clash" \in mishaps'
      BY <1>1, <2>3 DEF GuardCopies
    <3>4. \A d \in Protecting' : d = c \/ d \in Protecting
      BY <3>1
    <3> QED
      BY ONLY OneProtects, <2>3, <3>1, <3>2, <3>3, <3>4 DEF OneProtects
  <2> QED
    BY <1>1, <2>2, <2>3, CopyStep
<1>2. CASE GuardLeaves(c)
  BY <1>2 DEF GuardLeaves, Onward
<1>3. CASE GuardRestores(c)
  BY <1>3 DEF GuardRestores
<1>4. CASE GuardContent(c)
  BY <1>4 DEF GuardContent, Onward
<1>5. CASE Snapshot(c)
  <2>1. Protecting # {} => "clash" \in mishaps'
    BY <1>5 DEF Snapshot
  <2>2. call[c].pc = "snap" /\ ~call[c].late
    BY <1>5 DEF Snapshot
  <2>3. Protecting = {} => \A d \in Protecting' : d = c
    BY <1>5, SnapshotStep
  <2>4. UNCHANGED <<file, own>>
    BY <1>5 DEF Snapshot
  <2>5. call'[c].data = file /\ ~call'[c].late
    BY <1>5, <2>2, SnapshotStep
  <2> QED
    BY ONLY <2>1, <2>3, <2>4, <2>5 DEF OneProtects
<1>6. CASE Deleted(c)
  BY <1>6 DEF Deleted
<1>7. CASE Created(c)
  BY <1>7 DEF Created
<1>8. CASE CreateFails(c)
  BY <1>8 DEF CreateFails
<1>9. CASE Settled(c)
  BY <1>9 DEF Settled
<1>10. CASE Verified(c)
  BY <1>10 DEF Verified
<1>11. CASE Replace(c)
  BY <1>11 DEF Replace
<1>12. CASE GivesUp(c)
  BY <1>12 DEF GivesUp, Onward
<1>13. CASE Restored(c)
  BY <1>13 DEF Restored, Onward
<1>14. CASE ServiceWrites(c)
  BY <1>14 DEF ServiceWrites, UserWrites
<1>15. CASE WriteRefused(c)
  BY <1>15 DEF WriteRefused
<1> QED
  BY <1>1, <1>2, <1>3, <1>4, <1>5, <1>6, <1>7, <1>8,
     <1>9, <1>10, <1>11, <1>12, <1>13, <1>14, <1>15 DEF CallStep

LEMMA OneNext == SourceTypes /\ Guards /\ OneProtects /\ [Next]_vars => OneProtects'
<1> USE CallsTyped DEF OneProtects, Guards, Protecting, CallType, Idle, Blame
<1>1. ASSUME SourceTypes, Guards, OneProtects, NEW c \in Calls, NEW op \in Ops, Begin(c, op)
      PROVE  OneProtects'
  BY <1>1 DEF Begin, Clear
<1>2. ASSUME SourceTypes, Guards, OneProtects, EditorSaves PROVE OneProtects'
  BY <1>2 DEF EditorSaves, UserWrites
<1>3. ASSUME SourceTypes, OneProtects, StudioTouches PROVE OneProtects'
  BY <1>3 DEF StudioTouches, Sources, Absent, Mixed, Template
<1>4. ASSUME SourceTypes, OneProtects, StudioSettles \/ Forgets PROVE OneProtects'
  BY <1>4 DEF StudioSettles, Forgets
<1>5. ASSUME Restart PROVE OneProtects'
  BY <1>5 DEF Restart
<1>6. ASSUME OneProtects, UNCHANGED vars PROVE OneProtects'
  BY <1>6 DEF vars
<1> QED
  BY <1>1, <1>2, <1>3, <1>4, <1>5, <1>6, OneCall DEF Next

SourceInv == SourceTypes /\ Guards /\ OneProtects

LEMMA SourceInvariant == Spec => []SourceInv
<1>1. Init => SourceInv
  BY TypesInit DEF Init, SourceInv, Guards, OneProtects, Protecting, Idle
<1>2. SourceInv /\ [Next]_vars => SourceInv'
  BY TypesNext, GuardsNext, OneNext DEF SourceInv
<1> QED
  BY <1>1, <1>2, PTL DEF Spec

\* What the user wrote last leaves the file only by Studio's own doing, by a newer version, or
\* when somebody was at work on the file while it was written or copied.
THEOREM DeliberateEditsStay == Spec => DeliberateStays
<1> DEFINE Stays == file = own /\ file' # own /\ own' = own /\ budget'.rewrites = budget.rewrites
                      => "clash" \in mishaps
<1>1. ASSUME SourceInv, [Next]_vars PROVE Stays
  <2>1. ASSUME NEW c \in Calls, CallStep(c), file' # file PROVE Stays
    <3>1. CASE Replace(c)
      BY <1>1, <3>1 DEF SourceInv, OneProtects, Protecting, Replace
    <3>2. CASE ServiceWrites(c)
      BY <1>1, <3>2, CallsTyped DEF SourceInv, ServiceWrites, UserWrites, Sources
    <3> QED
      BY <2>1, <3>1, <3>2 DEF CallStep, GuardCopies, GuardLeaves, GuardRestores, GuardContent,
         Snapshot, Deleted, Created, CreateFails, Settled, Verified, GivesUp, Restored, WriteRefused
  <2>2. CASE StudioTouches
    BY <1>1, <2>2 DEF StudioTouches, Spend, SourceInv, SourceTypes, TypeOK
  <2>3. CASE EditorSaves
    BY <1>1, <2>3, CallsTyped, SMTT(40) DEF SourceInv, EditorSaves, UserWrites, Sources
  <2> QED
    BY <1>1, <2>1, <2>2, <2>3 DEF Next, vars, Begin, StudioSettles, Forgets, Restart
<1> QED
  BY <1>1, SourceInvariant, PTL DEF Spec, DeliberateStays

-----------------------------------------------------------------------------
(* The user's last version survives.                                       *)

\* Where the user's last version is as long as nothing happened that the code does not protect
\* against, and no backup has it for good: with every call that protects the file, or else in
\* the file or under the guard.  A guard that has seen an older one finds a newer one in the
\* file.  Studio's template comes only while a create waits for it.
Held ==
    mishaps = {} /\ own \notin kept =>
        /\ file \in {own, Absent, Mixed} \/ (file = Template /\ Making)
        /\ Template \in pending => Making
        /\ registry \in {Absent, own} \/ (file = own /\ pending = {})
        /\ \A c \in Protecting :
             \/ call[c].data = own
             \/ call[c].late /\ call[c].pc = "look" /\ file = own /\ pending = {}
        /\ \A c \in Protecting : ~call[c].late => call[c].backup = own /\ registry \in {Absent, own}
        /\ \A c \in Protecting : call[c].late => registry = own \/ (file = own /\ pending = {})
        /\ (file = own /\ pending = {}) \/ registry = own \/ Protecting # {}

LEMMA HeldCall ==
    ASSUME SourceTypes, Guards, OneProtects, Held, NEW c \in Calls, CallStep(c)
    PROVE  Held'
<1> USE CallsTyped DEF Held, OneProtects, Guards, Making, Restoring, Protecting, CallType,
        Idle, Blame, Contents, Sources, Absent, Mixed, Template
<1>1. CASE GuardCopies(c)
  <2>1. call[c].pc = "guard"
    BY <1>1 DEF GuardCopies
  <2>2. CASE call' = [call EXCEPT ![c] = Onward(c)]
    BY <1>1, <2>1, <2>2 DEF GuardCopies, Onward
  <2>3. CASE registry # Absent /\ ~(call' = [call EXCEPT ![c] = Onward(c)])
    <3>1. /\ \A d \in Calls \ {c} : call'[d] = call[d]
          /\ call'[c].pc = "look" /\ call'[c].data = registry /\ call'[c].late
      BY <1>1, <2>3, CopyStep
    <3>2. UNCHANGED <<file, registry, own, kept, pending>> /\ mishaps \subseteq mishaps'
      BY <1>1 DEF GuardCopies
    <3>3. \A d \in Protecting : ~call[d].late => "clash" \in mishaps'
      BY <1>1, <2>3 DEF GuardCopies
    <3>4. \A d \in Protecting' : d = c \/ d \in Protecting
      BY <3>1
    <3>5. Protecting \subseteq Protecting' /\ c \in Protecting'
      BY <2>1, <3>1
    <3>6. Making => Making'
      BY <2>1, <3>1
    <3> QED
      BY ONLY Held, <2>3, <3>1, <3>2, <3>3, <3>4, <3>5, <3>6 DEF Held
  <2> QED
    BY <1>1, <2>2, <2>3, CopyStep
<1>2. CASE GuardLeaves(c)
  BY <1>2 DEF GuardLeaves, Onward
<1>3. CASE GuardRestores(c)
  BY <1>3 DEF GuardRestores
<1>4. CASE GuardContent(c)
  BY <1>4 DEF GuardContent, Onward
<1>5. CASE Snapshot(c)
  <2>1. /\ mishaps \subseteq mishaps'
        /\ Protecting # {} => "clash" \in mishaps'
        /\ registry \notin {Absent, file} => "unprotected" \in mishaps'
    BY <1>5 DEF Snapshot
  <2>2. call[c].pc = "snap" /\ ~call[c].late
    BY <1>5 DEF Snapshot
  <2>3. Protecting = {} => Protecting' = {c}
    BY <1>5, SnapshotStep
  <2>4. UNCHANGED <<file, own, registry, kept, pending>>
    BY <1>5 DEF Snapshot
  <2>5. /\ call'[c].data = file /\ ~call'[c].late
        /\ call'[c].backup # file => "unprotected" \in mishaps'
    BY <1>5, <2>2, SnapshotStep
  <2>6. Making => Protecting # {}
    OBVIOUS
  <2>7. own # Absent
    OBVIOUS
  <2> QED
    BY ONLY Held, <2>1, <2>3, <2>4, <2>5, <2>6, <2>7 DEF Held
<1>6. CASE Deleted(c)
  BY <1>6 DEF Deleted
<1>7. CASE Created(c)
  BY <1>7 DEF Created
<1>8. CASE CreateFails(c)
  BY <1>8, SMTT(40) DEF CreateFails
<1>9. CASE Settled(c)
  BY <1>9, SMTT(40) DEF Settled
<1>10. CASE Verified(c)
  BY <1>10 DEF Verified
<1>11. CASE Replace(c)
  BY <1>11 DEF Replace
<1>12. CASE GivesUp(c)
  BY <1>12 DEF GivesUp, Onward
<1>13. CASE Restored(c)
  BY <1>13 DEF Restored, Onward
<1>14. CASE ServiceWrites(c)
  BY <1>14, SMTT(40) DEF ServiceWrites, UserWrites
<1>15. CASE WriteRefused(c)
  BY <1>15 DEF WriteRefused
<1> QED
  BY <1>1, <1>2, <1>3, <1>4, <1>5, <1>6, <1>7, <1>8,
     <1>9, <1>10, <1>11, <1>12, <1>13, <1>14, <1>15 DEF CallStep

LEMMA HeldNext == SourceInv /\ Held /\ [Next]_vars => Held'
<1> USE CallsTyped DEF SourceInv, Held, OneProtects, Guards, Making, Restoring, Protecting,
        CallType, Idle, Blame, Contents, Sources, Absent, Mixed, Template
<1>1. ASSUME SourceInv, Held, NEW c \in Calls, NEW op \in Ops, Begin(c, op) PROVE Held'
  BY <1>1 DEF Begin, Clear
<1>2. ASSUME SourceInv, Held, EditorSaves PROVE Held'
  BY <1>2 DEF EditorSaves, UserWrites
<1>3. ASSUME SourceInv, Held, StudioTouches PROVE Held'
  BY <1>3 DEF StudioTouches
<1>4. ASSUME SourceInv, Held, StudioSettles \/ Forgets PROVE Held'
  BY <1>4 DEF StudioSettles, Forgets
<1>5. ASSUME SourceInv, Held, Restart PROVE Held'
  <2>1. CASE mishaps' = {} /\ own \notin kept'
    <3>1. mishaps = {} /\ own \notin kept /\ pending = {} /\ (registry # Absent => file = own)
      BY <1>5, <2>1, SMTT(40) DEF Restart
    <3>2. \A c \in Calls : call[c].backup # own
      BY <1>5, <2>1 DEF Restart
    <3>3. file = own
      BY <1>5, <3>1, <3>2
    <3> QED
      BY <1>5, <3>1, <3>3 DEF Restart
  <2>2. own' = own
    BY <1>5 DEF Restart
  <2> QED
    BY ONLY <2>1, <2>2 DEF Held
<1>6. ASSUME Held, UNCHANGED vars PROVE Held'
  BY <1>6 DEF vars
<1> QED
  BY <1>1, <1>2, <1>3, <1>4, <1>5, <1>6, HeldCall DEF Next, SourceInv

\* The user's last version is in the file, in a backup that stays, under the guard, or with a
\* call that puts it back.
THEOREM SourceIsKept == Spec => []SourceKept
<1>1. Init => Held
  BY SourceAssumption DEF Init, Held, Protecting, Idle, Absent
<1>2. SourceInv /\ Held => SourceKept
  <2>1. SUFFICES ASSUME SourceInv, Held, mishaps = {}, own \notin kept, file # own, registry # own
                 PROVE  \E c \in Protecting : own \in {call[c].data, call[c].backup}
    BY DEF SourceKept
  <2> QED
    BY <2>1 DEF Held
<1> QED
  BY <1>1, <1>2, SourceInvariant, HeldNext, PTL DEF Spec
===============================================================================
