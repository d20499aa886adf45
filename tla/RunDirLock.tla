---------------------------- MODULE RunDirLock -----------------------------
(***************************************************************************)
(* lock_run_dir and release_run_lock (core/aperture/aperture_sink.py): the *)
(* exclusive lock on an aperture run directory, taken by every engine that *)
(* would truncate the directory's capture files.                           *)
(*                                                                         *)
(* The lock is a flock on a file that its holder unlinks when it is done,  *)
(* so a waiting engine may have opened a file that is no longer the one at *)
(* the path.  A file is its inode; an inode number is free for reuse once  *)
(* no path and no descriptor refers to it.  The Bug operators are mistaken *)
(* versions of the definition after them, no part of LockNext.             *)
(***************************************************************************)
EXTENDS Naturals, FiniteSets

CONSTANTS
  Engines,   \* processes that may open a drain on the directory
  Inodes     \* inode numbers

Nil == "none"

ASSUME RunDirLockAssumption == Nil \notin Engines /\ Nil \notin Inodes

VARIABLES
  path,      \* inode of the lock file, or Nil
  fd,        \* the inode each engine's descriptor refers to, or Nil
  holder,    \* which engine's descriptor holds each inode's flock, or Nil
  pc         \* where each engine is

lockVars == <<path, fd, holder, pc>>

LockInit == /\ path = Nil
            /\ fd = [e \in Engines |-> Nil]
            /\ holder = [i \in Inodes |-> Nil]
            /\ pc = [e \in Engines |-> "idle"]

\* Numbers the file system may give to a new file.
FreeInodes == Inodes \ ({path} \cup { fd[e] : e \in Engines })

\* os.open(path, O_RDWR | O_CREAT | O_CLOEXEC)
OpenLockFile(e) ==
  /\ pc[e] \in {"idle", "retry"}
  /\ \/ /\ path # Nil
        /\ fd' = [fd EXCEPT ![e] = path]
        /\ UNCHANGED path
     \/ /\ path = Nil
        /\ \E i \in FreeInodes : path' = i /\ fd' = [fd EXCEPT ![e] = i]
  /\ pc' = [pc EXCEPT ![e] = "opened"]
  /\ UNCHANGED holder

\* (Mistake: a refused engine removes the lock file on its way out.)
BugRefusalUnlinks(e) ==
  /\ pc[e] = "opened"
  /\ IF holder[fd[e]] = Nil
     THEN /\ holder' = [holder EXCEPT ![fd[e]] = e]
          /\ pc' = [pc EXCEPT ![e] = "flocked"]
          /\ UNCHANGED <<fd, path>>
     ELSE /\ fd' = [fd EXCEPT ![e] = Nil]
          /\ pc' = [pc EXCEPT ![e] = "idle"]
          /\ path' = Nil
          /\ UNCHANGED holder

\* flock(LOCK_EX | LOCK_NB): taken, or the engine is refused (RunDirInUseError)
\* and does not start.
TryFlock(e) ==
  /\ pc[e] = "opened"
  /\ IF holder[fd[e]] = Nil
     THEN /\ holder' = [holder EXCEPT ![fd[e]] = e]
          /\ pc' = [pc EXCEPT ![e] = "flocked"]
          /\ UNCHANGED fd
     ELSE /\ fd' = [fd EXCEPT ![e] = Nil]
          /\ pc' = [pc EXCEPT ![e] = "idle"]
          /\ UNCHANGED holder
  /\ UNCHANGED path

\* (Mistake: the locked file is taken for the one at the path.)
BugSameFileAssumed(e) == TRUE

\* os.fstat(fd).st_ino == os.stat(path).st_ino, a missing path being "no".
SameFile(e) == path = fd[e]

\* What closing engine e's descriptor does to the flocks.
Unlocked(e) == [i \in Inodes |-> IF i = fd[e] /\ holder[i] = e THEN Nil ELSE holder[i]]

\* The locked file is the one at the path, or it was unlinked meanwhile and the
\* engine starts over.  A live engine clears the run directory and truncates
\* its capture files.
CheckInode(e) ==
  /\ pc[e] = "flocked"
  /\ IF SameFile(e)
     THEN pc' = [pc EXCEPT ![e] = "live"] /\ UNCHANGED <<fd, holder>>
     ELSE /\ pc' = [pc EXCEPT ![e] = "retry"]
          /\ fd' = [fd EXCEPT ![e] = Nil]
          /\ holder' = Unlocked(e)
  /\ UNCHANGED path

\* release_run_lock, at the end of _close_write_path or when the drain's
\* construction raises: unlink the path, whatever is there,
UnlinkLockFile(e) ==
  /\ pc[e] = "live"
  /\ path' = Nil
  /\ pc' = [pc EXCEPT ![e] = "unlinked"]
  /\ UNCHANGED <<fd, holder>>

\* ... then close the descriptor, which drops the flock.
CloseLockFile(e) ==
  /\ pc[e] = "unlinked"
  /\ holder' = Unlocked(e)
  /\ fd' = [fd EXCEPT ![e] = Nil]
  /\ pc' = [pc EXCEPT ![e] = "idle"]
  /\ UNCHANGED path

\* The process dies: its descriptors close, the lock file stays.
Crash(e) ==
  /\ pc[e] # "idle"
  /\ holder' = Unlocked(e)
  /\ fd' = [fd EXCEPT ![e] = Nil]
  /\ pc' = [pc EXCEPT ![e] = "idle"]
  /\ UNCHANGED path

LockStep(e) == \/ OpenLockFile(e) \/ TryFlock(e) \/ CheckInode(e)
               \/ UnlinkLockFile(e) \/ CloseLockFile(e)

LockNext == \E e \in Engines : LockStep(e) \/ Crash(e)

LockSpec == LockInit /\ [][LockNext]_lockVars

-----------------------------------------------------------------------------
LockTypeOK ==
  /\ path \in Inodes \cup {Nil}
  /\ fd \in [Engines -> Inodes \cup {Nil}]
  /\ holder \in [Inodes -> Engines \cup {Nil}]
  /\ pc \in [Engines -> {"idle", "opened", "flocked", "retry", "live", "unlinked"}]

Live(e) == pc[e] = "live"

\* Two engines are never live on one run directory: neither truncates files the
\* other is writing, although the lock file is unlinked and recreated, engines
\* die holding it, and inode numbers are reused.
MutualExclusion == \A e1, e2 \in Engines : Live(e1) /\ Live(e2) => e1 = e2

\* While an engine is live the lock file stays in place and stays its own: a
\* release by another engine never unlinks it.
LiveLockStays ==
  [][ \A e \in Engines : Live(e) /\ pc'[e] = "live" => path' = fd[e] ]_lockVars

\* A strengthening of MutualExclusion that every step preserves.
LockInv ==
  /\ \A e \in Engines :
       /\ pc[e] \in {"idle", "retry"} <=> fd[e] = Nil
       /\ pc[e] \in {"flocked", "live", "unlinked"} => holder[fd[e]] = e
       /\ Live(e) => path = fd[e]
  /\ \A i \in Inodes :
       holder[i] # Nil => /\ fd[holder[i]] = i
                           /\ pc[holder[i]] \in {"flocked", "live", "unlinked"}

=============================================================================
