------------------------------ MODULE DeployLock ------------------------------
(***************************************************************************)
(* The single-writer lock of the deploy path (service/deploy_lock.py): a   *)
(* file that is created exclusively, broken when its holder is dead or it  *)
(* is older than stale_seconds, and fenced by an epoch that the holder     *)
(* checks again before each irreversible step.                             *)
(*                                                                         *)
(* Every request runs in a worker thread of the one service process, and   *)
(* every access to the file is a step of its own, so the requests          *)
(* interleave between looking at the file, creating it, breaking it and    *)
(* releasing it.  A holder is identified by its process (pid and           *)
(* pid_create_time) and its epoch, as in the file; the field by of the     *)
(* file records who really wrote it and is read by no action.  The file    *)
(* system is that of Windows, the only platform of the service: a file     *)
(* that somebody has open cannot be unlinked.                              *)
(***************************************************************************)
EXTENDS Integers, FiniteSets

CONSTANTS
    Deployers,    \* requests that may run at once
    Nobody,       \* not a deployer
    MaxMishaps    \* bound: how often the service process is replaced, or a lock outlives
                  \* stale_seconds

ASSUME LockAssumption ==
    /\ Nobody \notin Deployers
    /\ MaxMishaps \in Nat

VARIABLES
    lock,     \* the lock file
    proc,     \* the service process now running
    pc,       \* per deployer: the step of _try_acquire, or where it is inside
    prev,     \* per deployer: prev_epoch
    tries,    \* per deployer: exclusive creates attempted
    mine,     \* per deployer: _my_epoch
    ages,     \* history: locks that outlived stale_seconds
    stolen    \* history: an acquirer unlinked a lock of the running process

lockVars == <<lock, proc, pc, prev, tries, mine, ages, stolen>>

Kinds == {"absent", "empty", "held"}
Pcs   == {"idle", "look", "create", "stamp", "recheck", "break", "inside",
          "guarded", "release", "unlink"}
Files == [kind : Kinds, by : Deployers \cup {Nobody}, proc : Nat, epoch : Nat,
          aged : {"fresh", "aged"}]

NoFile == [kind |-> "absent", by |-> Nobody, proc |-> 0, epoch |-> 0, aged |-> "fresh"]

LockInit ==
    /\ lock = NoFile
    /\ proc = 0
    /\ pc = [d \in Deployers |-> "idle"]
    /\ prev = [d \in Deployers |-> 0]
    /\ tries = [d \in Deployers |-> 0]
    /\ mine = [d \in Deployers |-> 0]
    /\ ages = 0
    /\ stolen = 0

------------------------------------------------------------------------------
(* Reading the file.                                                       *)

\* read_state: None for a missing or unparseable file.
Parsed == lock.kind = "held"

\* is_stale, of a state that was read: the holder's process is gone (its pid is
\* dead or was recycled), or the lock is older than stale_seconds.
Stale == lock.proc # proc \/ lock.aged = "aged"

Live == Parsed /\ ~Stale

EpochOf == IF Parsed THEN lock.epoch ELSE 0

Larger(a, b) == IF a < b THEN b ELSE a

Goes(d, to) == pc' = [pc EXCEPT ![d] = to]

\* The request is over, and what it knew of the lock is gone with it.
Ended(d) ==
    /\ Goes(d, "idle")
    /\ prev' = [prev EXCEPT ![d] = 0]
    /\ tries' = [tries EXCEPT ![d] = 0]
    /\ mine' = [mine EXCEPT ![d] = 0]

------------------------------------------------------------------------------
(* _try_acquire: two rounds of look, create, and break.                    *)

Request(d) ==
    /\ pc[d] = "idle"
    /\ Goes(d, "look")
    /\ UNCHANGED <<lock, proc, prev, tries, mine, ages, stolen>>

\* LockHeld: a live lock, or both creates lost to somebody else.
Refused(d) ==
    /\ \/ pc[d] \in {"look", "recheck"} /\ Live
       \/ pc[d] = "look" /\ tries[d] = 2
    /\ Ended(d)
    /\ UNCHANGED <<lock, proc, ages, stolen>>

\* Slip: the rounds are not counted.
LookForever(d) ==
    /\ pc[d] = "look" /\ ~Live
    /\ prev' = [prev EXCEPT ![d] = Larger(@, EpochOf)]
    /\ Goes(d, "create")
    /\ UNCHANGED <<lock, proc, tries, mine, ages, stolen>>

Look(d) ==
    /\ pc[d] = "look" /\ ~Live /\ tries[d] < 2
    /\ prev' = [prev EXCEPT ![d] = Larger(@, EpochOf)]
    /\ Goes(d, "create")
    /\ UNCHANGED <<lock, proc, tries, mine, ages, stolen>>

\* Slip: the file is created whether or not one exists.
CreateAnyway(d) ==
    /\ pc[d] = "create"
    /\ lock' = [NoFile EXCEPT !.kind = "empty", !.by = d]
    /\ Goes(d, "stamp")
    /\ UNCHANGED <<proc, prev, tries, mine, ages, stolen>>

\* O_CREAT|O_EXCL: exactly one creates the file.
Create(d) ==
    /\ pc[d] = "create"
    /\ \/ /\ lock.kind = "absent"
          /\ lock' = [NoFile EXCEPT !.kind = "empty", !.by = d]
          /\ Goes(d, "stamp")
       \/ /\ lock.kind # "absent"
          /\ lock' = lock
          /\ Goes(d, "recheck")
    /\ UNCHANGED <<proc, prev, tries, mine, ages, stolen>>

\* The identity is written into the file that was created: while it is open
\* nobody can unlink it.
Stamp(d) ==
    /\ pc[d] = "stamp"
    /\ lock' = [lock EXCEPT !.kind = "held", !.proc = proc, !.epoch = prev[d] + 1]
    /\ mine' = [mine EXCEPT ![d] = prev[d] + 1]
    /\ prev' = [prev EXCEPT ![d] = 0]
    /\ tries' = [tries EXCEPT ![d] = 0]
    /\ Goes(d, "inside")
    /\ UNCHANGED <<proc, ages, stolen>>

Recheck(d) ==
    /\ pc[d] = "recheck" /\ ~Live
    /\ prev' = [prev EXCEPT ![d] = Larger(@, EpochOf)]
    /\ Goes(d, "break")
    /\ UNCHANGED <<lock, proc, tries, mine, ages, stolen>>

\* Another request has the file open: to write it, or perhaps to read it.
BeingWritten == lock.kind = "empty" /\ \E d \in Deployers : pc[d] = "stamp"
BeingRead(d) == \E e \in Deployers \ {d} : pc[e] \in {"look", "recheck", "release"}

\* The file of that name is unlinked, whichever it is by now.
BreakLock(d) ==
    /\ pc[d] = "break" /\ ~BeingWritten
    /\ lock' = NoFile
    /\ stolen' = IF Parsed /\ lock.proc = proc THEN 1 ELSE stolen
    /\ tries' = [tries EXCEPT ![d] = @ + 1]
    /\ Goes(d, "look")
    /\ UNCHANGED <<proc, prev, mine, ages>>

\* PermissionError, not caught by _try_acquire: the request fails.
BreakFails(d) ==
    /\ pc[d] = "break" /\ lock.kind # "absent"
    /\ BeingWritten \/ BeingRead(d)
    /\ Ended(d)
    /\ UNCHANGED <<lock, proc, ages, stolen>>

------------------------------------------------------------------------------
(* check_still_held and _release.                                          *)

StillHeld(d) == Parsed /\ lock.proc = proc /\ lock.epoch = mine[d]

\* A checkpoint passed: the irreversible step that follows is under way.
Enter(d) ==
    /\ pc[d] = "inside" /\ StillHeld(d)
    /\ Goes(d, "guarded")
    /\ UNCHANGED <<lock, proc, prev, tries, mine, ages, stolen>>

Leave(d) ==
    /\ pc[d] \in {"inside", "guarded"}
    /\ Goes(d, "release")
    /\ UNCHANGED <<lock, proc, prev, tries, mine, ages, stolen>>

\* The file is read: somebody else's epoch means that it is not ours to unlink.
Release(d) ==
    /\ pc[d] = "release"
    /\ IF Parsed /\ lock.epoch # mine[d]
       THEN Ended(d)
       ELSE Goes(d, "unlink") /\ UNCHANGED <<prev, tries, mine>>
    /\ UNCHANGED <<lock, proc, ages, stolen>>

\* An error of the unlink is swallowed, and the file stays.
Unlink(d) ==
    /\ pc[d] = "unlink"
    /\ \/ ~BeingWritten /\ lock' = NoFile
       \/ (BeingWritten \/ BeingRead(d)) /\ lock' = lock
    /\ Ended(d)
    /\ UNCHANGED <<proc, ages, stolen>>

------------------------------------------------------------------------------
(* Time and crashes.                                                       *)

Age ==
    /\ proc + ages < MaxMishaps
    /\ Live
    /\ lock' = [lock EXCEPT !.aged = "aged"]
    /\ ages' = ages + 1
    /\ UNCHANGED <<proc, pc, prev, tries, mine, stolen>>

LockRestart ==
    /\ proc + ages < MaxMishaps
    /\ proc' = proc + 1
    /\ pc' = [d \in Deployers |-> "idle"]
    /\ prev' = [d \in Deployers |-> 0]
    /\ tries' = [d \in Deployers |-> 0]
    /\ mine' = [d \in Deployers |-> 0]
    /\ UNCHANGED <<lock, ages, stolen>>

LockStep(d) ==
    \/ Request(d) \/ Refused(d) \/ Look(d) \/ Create(d) \/ Stamp(d) \/ Recheck(d)
    \/ BreakLock(d) \/ BreakFails(d) \/ Enter(d) \/ Leave(d) \/ Release(d) \/ Unlink(d)

LockNext ==
    \/ \E d \in Deployers : LockStep(d)
    \/ Age
    \/ LockRestart

LockSpec == LockInit /\ [][LockNext]_lockVars

------------------------------------------------------------------------------
(* Properties.                                                             *)

\* Type invariant: every variable stays in the set its code counterpart ranges over.
LockTypeOK ==
    /\ lock \in Files
    /\ proc \in Nat
    /\ pc \in [Deployers -> Pcs]
    /\ prev \in [Deployers -> Nat]
    /\ tries \in [Deployers -> 0 .. 2]
    /\ mine \in [Deployers -> Nat]
    /\ ages \in Nat
    /\ stolen \in 0 .. 1

Holding == {d \in Deployers : pc[d] \in {"stamp", "inside", "guarded", "release", "unlink"}}

\* As long as no acquirer has unlinked a lock of the running process, there is one
\* holder at a time, however often the process dies with a lock and the next one
\* breaks it; and the file names the holder.
OneHolder == stolen = 0 => \A d \in Holding : lock.by = d

\* "A holder whose lock was broken and re-taken raises DeployLockEvicted": a
\* checkpoint lets through only the request whose lock is on disk.
CheckpointFences == [][\A d \in Deployers : Enter(d) => lock.by = d]_lockVars
==============================================================================
