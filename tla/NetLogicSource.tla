--------------------------- MODULE NetLogicSource ---------------------------
(***************************************************************************)
(* The protection of a NetLogic's C# source, `<Class>.cs`, which Studio    *)
(* drops, overwrites or mangles while it deletes or creates a node of that *)
(* class: the snapshot with its backup, the restore, and the late guard    *)
(* that every later call on the project runs first.  One class, hence one  *)
(* file and one entry of `_RECENT_NETLOGIC_RESTORES`.                      *)
(*                                                                         *)
(* A content is an integer: the versions the user wrote are 1, 2, ...      *)
(***************************************************************************)
EXTENDS Integers, FiniteSets

CONSTANTS
    Calls,       \* worker threads of the service
    Attempts,    \* _NETLOGIC_RESTORE_ATTEMPTS
    MaxEdits,    \* bound: versions the user writes
    MaxRewrites, \* bound: times Studio touches the file by itself
    MaxCalls,    \* bound: calls that begin
    MaxRestarts  \* bound: deaths of the service

ASSUME SourceAssumption ==
    /\ Attempts \in Nat /\ MaxEdits \in Nat \ {0} /\ MaxRewrites \in Nat
    /\ MaxCalls \in Nat /\ MaxRestarts \in Nat

Absent == 0      \* no file
Mixed == -1      \* Studio wrote into it at an offset: NUL bytes
Template == -2   \* Studio's default class

VARIABLES
    file,      \* what <Class>.cs holds
    kept,      \* the user's versions in backups no call will remove any more
    registry,  \* the content the late guard watches over, or Absent
    call,      \* what each worker thread knows
    pending,   \* contents Studio may still give the file by itself
    own,       \* the version the user wrote last
    mishaps,   \* history: what happened that the code does not protect against
    budget     \* what is left of the bounds

vars == <<file, kept, registry, call, pending, own, mishaps, budget>>

Sources == 1..MaxEdits
Contents == Sources \union {Mixed, Template}

\* clash: the user wrote, or a snapshot was taken, while a call was at work on the file.
\* unprotected: a copy could not be written, or was taken of a file that the guard still had
\* to put right for another call; an entry that was still needed was dropped; or the service
\* had finished with the file, or died, before Studio had.
Mishaps == {"clash", "unprotected"}

Steps == {"idle", "guard", "look", "snap", "post", "write", "settle", "verify", "differs", "done"}
Ops == {"delete", "create", "write", "other"}

\* data and backup are Absent when there is no snapshot or no backup file;
\* late: the restore in progress is one of the late guard.
Idle == [pc |-> "idle", op |-> "other", data |-> Absent, backup |-> Absent,
         late |-> FALSE, changed |-> FALSE, tries |-> 0]

Init ==
    /\ file = 1 /\ own = 1
    /\ kept = {} /\ registry = Absent /\ pending = {} /\ mishaps = {}
    /\ call = [c \in Calls |-> Idle]
    /\ budget = [edits |-> MaxEdits - 1, rewrites |-> MaxRewrites,
                 calls |-> MaxCalls, restarts |-> MaxRestarts]

\* Where both mishaps have happened nothing is promised any more: a bound, too.
Spend(what) == /\ budget[what] > 0 /\ mishaps # Mishaps
               /\ budget' = [budget EXCEPT ![what] = @ - 1]

Protecting == {c \in Calls : call[c].pc \in {"look", "post", "settle", "verify", "differs", "done"}}

Blame(test, what) == mishaps \union (IF test THEN {what} ELSE {})

-----------------------------------------------------------------------------
(* A call begins.  Deletes, creates and writes of the class first retire   *)
(* its registry entry; every call then runs the late guard.                *)

\* _clear_netlogic_restores: what it drops is told apart only by whether it was still needed.
Clear ==
    /\ registry' = Absent
    /\ mishaps' = Blame(registry # Absent /\ (pending # {} \/ file # own), "unprotected")

Begin(c, op) ==
    /\ call[c].pc = "idle"
    /\ Spend("calls")
    /\ call' = [call EXCEPT ![c] = [Idle EXCEPT !.op = op,
                                    !.pc = IF op = "write" THEN "write" ELSE "guard"]]
    /\ IF op = "other"
       THEN UNCHANGED <<registry, mishaps>>
       ELSE Clear
    /\ UNCHANGED <<file, kept, pending, own>>

\* What a call goes on with when the guard has done its part.
Onward(c) == IF call[c].op = "other" THEN Idle
             ELSE [Idle EXCEPT !.op = call[c].op, !.pc = "snap"]

\* The guard copies the entry under the lock, and looks at the file after it.
GuardCopies(c) ==
    /\ call[c].pc = "guard"
    /\ call' = [call EXCEPT ![c] =
                   IF registry = Absent THEN Onward(c)
                   ELSE [@ EXCEPT !.pc = "look", !.data = registry, !.late = TRUE]]
    /\ mishaps' = Blame(registry # Absent /\ \E d \in Protecting : ~call[d].late, "clash")
    /\ UNCHANGED <<file, kept, registry, pending, own, budget>>

\* The file is as it was restored, or a clean edit: then it is watched no longer.
GuardLeaves(c) ==
    /\ call[c].pc = "look" /\ file \notin {Absent, Mixed}
    /\ registry' = IF file = call[c].data THEN registry ELSE Absent
    /\ call' = [call EXCEPT ![c] = Onward(c)]
    /\ UNCHANGED <<file, kept, pending, own, mishaps, budget>>

\* Slip: whatever differs from the snapshot is taken for Studio's doing.
GuardRestoresAny(c) ==
    /\ call[c].pc = "look" /\ file # call[c].data
    /\ call' = [call EXCEPT ![c].pc = "settle"]
    /\ UNCHANGED <<file, kept, registry, pending, own, mishaps, budget>>

\* Dropped or mangled: what is there is put aside (no version of the user's), and restored.
GuardRestores(c) ==
    /\ call[c].pc = "look" /\ file \in {Absent, Mixed} /\ file # call[c].data
    /\ call' = [call EXCEPT ![c].pc = "settle"]
    /\ UNCHANGED <<file, kept, registry, pending, own, mishaps, budget>>

\* A snapshot that is itself mangled compares equal and is left alone.
GuardContent(c) ==
    /\ call[c].pc = "look" /\ file = Mixed /\ file = call[c].data
    /\ call' = [call EXCEPT ![c] = Onward(c)]
    /\ UNCHANGED <<file, kept, registry, pending, own, mishaps, budget>>

-----------------------------------------------------------------------------
(* The snapshot, the request to Studio, and the restore.                   *)

\* The content and its copy, which _write_netlogic_backup may fail to write.
Snapshot(c) ==
    /\ call[c].pc = "snap"
    /\ \E b \in {file, Absent} :
         /\ call' = [call EXCEPT ![c].pc = "post", ![c].data = file, ![c].backup = b]
         /\ mishaps' = Blame(b # file \/ registry \notin {Absent, file}, "unprotected")
                       \union Blame(Protecting # {}, "clash")
    /\ UNCHANGED <<file, kept, registry, pending, own, budget>>

\* A delete that was answered, refused or lost: the restore follows in each case.
Deleted(c) ==
    /\ call[c].pc = "post" /\ call[c].op = "delete"
    /\ pending' \in {pending, pending \union {Absent, Mixed}}
    /\ call' = [call EXCEPT ![c] = IF call[c].data = Absent THEN Idle
                                   ELSE [@ EXCEPT !.pc = "settle"]]
    /\ UNCHANGED <<file, kept, registry, own, mishaps, budget>>

\* A create that was answered: Studio writes its template, and the restore follows.
Created(c) ==
    /\ call[c].pc = "post" /\ call[c].op = "create"
    /\ pending' = pending \union {Template, Mixed}
    /\ call' = [call EXCEPT ![c] = IF call[c].data = Absent THEN Idle
                                   ELSE [@ EXCEPT !.pc = "settle"]]
    /\ UNCHANGED <<file, kept, registry, own, mishaps, budget>>

\* Slip: a failed create cleans up its backup.
CreateFailsCleaning(c) ==
    /\ call[c].pc = "post" /\ call[c].op = "create"
    /\ pending' \in {pending, pending \union {Template, Mixed}}
    /\ call' = [call EXCEPT ![c] = Idle]
    /\ UNCHANGED <<file, kept, registry, own, mishaps, budget>>

\* A create that raised, or met another node: it returns with no restore, and its
\* backup stays where it is; the node, and Studio's template, may still come.
CreateFails(c) ==
    /\ call[c].pc = "post" /\ call[c].op = "create"
    /\ pending' \in {pending, pending \union {Template, Mixed}}
    /\ kept' = kept \union ({call[c].backup} \intersect Sources)
    /\ call' = [call EXCEPT ![c] = Idle]
    /\ mishaps' = Blame(call[c].data = own /\ call[c].backup # own, "unprotected")
    /\ UNCHANGED <<file, registry, own, budget>>

\* Waits until nothing changes for a while, or long enough, and compares.
Settled(c) ==
    /\ call[c].pc = "settle"
    /\ call' = [call EXCEPT ![c].pc = IF file = call[c].data THEN "verify" ELSE "differs",
                            ![c].changed = @ \/ file # call[c].data]
    /\ UNCHANGED <<file, kept, registry, pending, own, mishaps, budget>>

\* The comparison at the moment of returning.
Verified(c) ==
    /\ call[c].pc = "verify"
    /\ call' = [call EXCEPT ![c].pc = IF file = call[c].data THEN "done" ELSE "differs",
                            ![c].changed = @ \/ file # call[c].data]
    /\ UNCHANGED <<file, kept, registry, pending, own, mishaps, budget>>

\* Slip: the bound on the rounds is off by one.
ReplaceOnceMore(c) ==
    /\ call[c].pc = "differs" /\ call[c].tries <= Attempts
    /\ file' = call[c].data
    /\ call' = [call EXCEPT ![c].pc = "settle", ![c].tries = @ + 1]
    /\ UNCHANGED <<kept, registry, pending, own, mishaps, budget>>

\* os.replace puts the whole snapshot back, or fails on a file that is held open.
Replace(c) ==
    /\ call[c].pc = "differs" /\ call[c].tries < Attempts
    /\ \E b \in IF call[c].backup = Absent THEN {call[c].data, Absent} ELSE {call[c].backup} :
         \/ /\ file' = call[c].data
            /\ call' = [call EXCEPT ![c].pc = "settle", ![c].backup = b, ![c].tries = @ + 1]
         \/ /\ call' = [call EXCEPT ![c].backup = b, ![c].tries = @ + 1]
            /\ UNCHANGED file
    /\ UNCHANGED <<kept, registry, pending, own, mishaps, budget>>

\* Out of attempts: a backup is left behind, and told.
GivesUp(c) ==
    /\ call[c].pc = "differs" /\ call[c].tries >= Attempts
    /\ \E b \in {call[c].data, call[c].backup} :
         /\ kept' = kept \union ({b} \intersect Sources)
         /\ mishaps' = Blame(b = Absent, "unprotected")
    /\ pending' = pending \ (IF call[c].op = "create" /\ ~call[c].late THEN {Template} ELSE {})
    /\ call' = [call EXCEPT ![c] = IF @.late THEN Onward(c) ELSE Idle]
    /\ UNCHANGED <<file, registry, own, budget>>

\* Back for good: the backup goes (a create keeps it), and the guard watches the file.
Restored(c) ==
    /\ call[c].pc = "done"
    /\ registry' = IF call[c].changed THEN call[c].data ELSE registry
    /\ kept' = kept \union (IF call[c].op = "create" /\ ~call[c].late /\ call[c].changed
                            THEN {call[c].backup} \intersect Sources ELSE {})
    /\ pending' = pending \ (IF call[c].op = "create" /\ ~call[c].late THEN {Template} ELSE {})
    /\ call' = [call EXCEPT ![c] = IF @.late THEN Onward(c) ELSE Idle]
    /\ mishaps' = Blame(~call[c].changed /\ (pending' # {} \/ file # call[c].data), "unprotected")
    /\ UNCHANGED <<file, own, budget>>

-----------------------------------------------------------------------------
(* Deliberate changes, Studio, time and the death of the service.          *)

UserWrites ==
    /\ Spend("edits")
    /\ own' = own + 1 /\ file' = own + 1
    /\ mishaps' = Blame(Protecting # {}, "clash") \union Blame(pending # {}, "unprotected")

\* A deploy that writes the source: the entry was cleared when it began.
ServiceWrites(c) ==
    /\ call[c].pc = "write"
    /\ UserWrites
    /\ call' = [call EXCEPT ![c] = Idle]
    /\ UNCHANGED <<kept, registry, pending>>

WriteRefused(c) ==
    /\ call[c].pc = "write"
    /\ call' = [call EXCEPT ![c] = Idle]
    /\ UNCHANGED <<file, kept, registry, pending, own, mishaps, budget>>

\* An editor saves the file: the service does not know.
EditorSaves == UserWrites /\ UNCHANGED <<kept, registry, call, pending>>

StudioTouches ==
    /\ Spend("rewrites")
    /\ file' \in pending \ {file}
    /\ UNCHANGED <<kept, registry, call, pending, own, mishaps>>

StudioSettles ==
    /\ pending # {}
    /\ pending' = {}
    /\ UNCHANGED <<file, kept, registry, call, own, mishaps, budget>>

\* The entry is too old, or the project is opened or closed.
Forgets ==
    /\ registry # Absent
    /\ registry' = Absent
    /\ mishaps' = Blame(pending # {} \/ file # own, "unprotected")
    /\ UNCHANGED <<file, kept, call, pending, own, budget>>

Restart ==
    /\ Spend("restarts")
    /\ kept' = kept \union ({call[c].backup : c \in Calls} \intersect Sources)
    /\ registry' = Absent
    /\ call' = [c \in Calls |-> Idle]
    /\ mishaps' = Blame(pending # {} \/ (registry # Absent /\ file # own), "unprotected")
    /\ UNCHANGED <<file, pending, own>>

-----------------------------------------------------------------------------
CallStep(c) ==
    \/ GuardCopies(c) \/ GuardLeaves(c) \/ GuardRestores(c) \/ GuardContent(c)
    \/ Snapshot(c) \/ Deleted(c) \/ Created(c) \/ CreateFails(c)
    \/ Settled(c) \/ Verified(c) \/ Replace(c) \/ GivesUp(c) \/ Restored(c)
    \/ ServiceWrites(c) \/ WriteRefused(c)

Next ==
    \/ \E c \in Calls : \/ \E op \in Ops : Begin(c, op)
                        \/ CallStep(c)
    \/ EditorSaves \/ StudioTouches \/ StudioSettles \/ Forgets \/ Restart

Spec == Init /\ [][Next]_vars

-----------------------------------------------------------------------------
(* Properties.                                                             *)

\* The type invariant.
TypeOK ==
    /\ file \in Contents \union {Absent} /\ own \in Sources
    /\ kept \subseteq Sources
    /\ registry \in Contents \union {Absent}
    /\ pending \subseteq {Absent, Mixed, Template}
    /\ call \in [Calls -> [pc : Steps, op : Ops, data : Contents \union {Absent},
                           backup : Contents \union {Absent}, late : BOOLEAN,
                           changed : BOOLEAN, tries : 0..Attempts]]
    /\ mishaps \subseteq Mishaps
    /\ budget \in [edits : Nat, rewrites : Nat, calls : Nat, restarts : Nat]

\* The version the user wrote last is in the file, in a backup that stays, under the guard
\* or with a call that puts it back: through crashes, lost answers, failed writes and
\* whatever Studio does while it is protected.
SourceKept ==
    mishaps = {} =>
        \/ file = own \/ own \in kept \/ registry = own
        \/ \E c \in Protecting : own \in {call[c].data, call[c].backup}

\* A restore never replaces what the user wrote, unless it was written, or snapshotted,
\* while another call was at work on the file: an edit made after a delete has returned stays.
DeliberateStays ==
    [][file = own /\ file' # own /\ own' = own /\ budget'.rewrites = budget.rewrites
          => "clash" \in mishaps]_vars
=============================================================================
