------------------------------ MODULE GitCache ------------------------------
(***************************************************************************)
(* The cache of Git dependencies (cli/src/git.rs), shared by every Ruddy   *)
(* process of a user.  A build opens a resolver, which reads the project's *)
(* lockfile; resolving a dependency takes the advisory lock of the cache,  *)
(* picks a commit, restores or clones its checkout and records the         *)
(* selection; the lock is held until the sources have been read and the    *)
(* lockfile is written.  A process may die between any two steps: the      *)
(* operating system gives back its lock and the files stay as they are.    *)
(*                                                                         *)
(* One dependency with a branch selector stands for all: every path in the *)
(* cache starts with the key of a dependency.  A process may be a build or *)
(* an acquisition by the language server, which writes no lockfile.        *)
(***************************************************************************)

CONSTANTS
  Process,    \* processes; one that has ended may start again
  Project,    \* projects that depend on the branch, each with a lockfile
  Commit,     \* commits the branch has had
  Null,
  Reliable    \* TRUE: neither the network nor the disk fails; processes still die

ASSUME NullIsNothing == Null \notin Process /\ Null \notin Commit
ASSUME ReliableIsBoolean == Reliable \in BOOLEAN

VARIABLES
  tip,        \* the commit the branch is at, on the server
  cacheLock,  \* the process that holds cache.lock
  selection,  \* the commit in selections/<key>
  checkout,   \* [Commit -> state of checkouts/<key>/<commit>]
  temporary,  \* processes whose directory in tmp/ exists
  lockfile,   \* [Project -> commit in Ruddy.lock]
  \* The state of a process.
  pc, project,
  pinned,     \* what Resolver::new read in the lockfile
  commit,     \* the commit being resolved
  purpose     \* which of its callers restore_checkout returns to

files == <<selection, checkout, temporary, lockfile>>
vars == <<tip, cacheLock, files, pc, project, pinned, commit, purpose>>

\* A checkout is whole when its files are those of its commit, torn when they
\* are not but its Git data is sound, and damaged when the Git data is not.
Absent == "absent"
CheckoutState == {Absent, "damaged", "torn", "whole"}

\* The steps a process takes under the lock.
Locked == {"choose", "restore", "rewrite", "remove", "clone", "fetch", "install",
           "rename", "save", "reading", "failed"}

Here(p) == checkout[commit[p]]
SetHere(p, state) == checkout' = [checkout EXCEPT ![commit[p]] = state]
GoTo(p, step) == pc' = [pc EXCEPT ![p] = step]

-----------------------------------------------------------------------------
(* Resolver::new and the start of resolve *)

Open(p, j) ==
  /\ pc[p] = "idle"
  /\ GoTo(p, "opened")
  /\ project' = [project EXCEPT ![p] = j]
  /\ pinned' = [pinned EXCEPT ![p] = lockfile[j]]
  /\ commit' = [commit EXCEPT ![p] = Null]
  /\ UNCHANGED <<tip, cacheLock, files, purpose>>

\* acquire_cache_lock polls until no other process holds the lock.
Acquire(p) ==
  /\ pc[p] = "opened"
  /\ cacheLock = Null
  /\ cacheLock' = p
  /\ GoTo(p, "choose")
  /\ UNCHANGED <<tip, files, project, pinned, commit, purpose>>

\* Mutant: what dead processes left in tmp/ stays there.
CleanedNever == temporary

\* clean_stale_temporary_checkouts removes the directories of whatever process.
Cleaned == {}

\* Mutant: a selection counts only while its checkout is whole.
SelectedIfWhole ==
  IF selection # Null /\ checkout[selection] = "whole" THEN selection ELSE Null

\* The cached selection, while the directory of its checkout exists.
Selected ==
  IF selection # Null /\ checkout[selection] # Absent THEN selection ELSE Null

\* The commit is the one in the lockfile, else the cached selection, else the
\* branch decides.
Choose(p) ==
  LET locked == IF pinned[p] # Null THEN pinned[p] ELSE Selected IN
  /\ pc[p] = "choose"
  /\ temporary' = Cleaned
  /\ commit' = [commit EXCEPT ![p] = locked]
  /\ IF locked # Null /\ checkout[locked] # Absent
     THEN GoTo(p, "restore") /\ purpose' = [purpose EXCEPT ![p] = "reuse"]
     ELSE GoTo(p, "clone") /\ UNCHANGED purpose
  /\ UNCHANGED <<tip, cacheLock, selection, checkout, lockfile, project, pinned>>

-----------------------------------------------------------------------------
(* restore_checkout and its three callers *)

\* Git opens the checkout and clear_worktree empties it; one that Git cannot
\* open is left alone.
Restore(p) ==
  /\ pc[p] = "restore"
  /\ IF Here(p) = "damaged"
     THEN GoTo(p, "remove") /\ UNCHANGED checkout
     ELSE GoTo(p, "rewrite") /\ SetHere(p, "torn")
  /\ UNCHANGED <<tip, cacheLock, selection, temporary, lockfile, project, pinned,
                 commit, purpose>>

\* The files of the commit are written, then the index and HEAD.  A clone whose
\* commit was there all along is dropped.
Rewrite(p) ==
  /\ pc[p] = "rewrite"
  /\ SetHere(p, "whole")
  /\ temporary' = IF purpose[p] = "existing" THEN temporary \ {p} ELSE temporary
  /\ GoTo(p, "save")
  /\ UNCHANGED <<tip, cacheLock, selection, lockfile, project, pinned, commit, purpose>>

\* Something in restore_checkout fails: a file cannot be written, or the commit
\* holds no Ruddy project.
RestoreFails(p) ==
  /\ pc[p] \in {"restore", "rewrite"} /\ ~Reliable
  /\ GoTo(p, "remove")
  /\ UNCHANGED <<tip, cacheLock, files, project, pinned, commit, purpose>>

\* remove_dir_all has removed some of a checkout that could not be restored.
RemoveSome(p) ==
  /\ pc[p] = "remove" /\ Here(p) # "damaged"
  /\ \E state \in {"torn", "damaged"} : SetHere(p, state)
  /\ UNCHANGED <<tip, cacheLock, selection, temporary, lockfile, pc, project, pinned,
                 commit, purpose>>

\* It has removed all.  resolve goes on with a clone, install_checkout with the
\* clone it has; one that was installed and then could not be restored is given up.
AfterRemoval == [reuse |-> "clone", existing |-> "rename", installed |-> "failed"]
RemoveAll(p) ==
  /\ pc[p] = "remove" /\ Here(p) = "damaged"
  /\ SetHere(p, Absent)
  /\ GoTo(p, AfterRemoval[purpose[p]])
  /\ UNCHANGED <<tip, cacheLock, selection, temporary, lockfile, project, pinned,
                 commit, purpose>>

-----------------------------------------------------------------------------
(* clone_locked, clone_unlocked and install_checkout *)

StartClone(p) ==
  /\ pc[p] = "clone"
  /\ temporary' = Cleaned \cup {p}
  /\ GoTo(p, "fetch")
  /\ UNCHANGED <<tip, cacheLock, selection, checkout, lockfile, project, pinned, commit,
                 purpose>>

\* The commit is fetched and checked out in tmp/: the one that is locked, or the
\* one the branch is at.
Fetch(p) ==
  /\ pc[p] = "fetch"
  /\ commit' = [commit EXCEPT ![p] = IF @ = Null THEN tip ELSE @]
  /\ GoTo(p, "install")
  /\ UNCHANGED <<tip, cacheLock, files, project, pinned, purpose>>

\* A checkout of the commit that exists is preferred to the clone.
Install(p) ==
  /\ pc[p] = "install"
  /\ IF Here(p) # Absent
     THEN GoTo(p, "restore") /\ purpose' = [purpose EXCEPT ![p] = "existing"]
     ELSE GoTo(p, "rename") /\ UNCHANGED purpose
  /\ UNCHANGED <<tip, cacheLock, files, project, pinned, commit>>

\* The clone is renamed into place, which fails if something is there, and
\* restored once more.
Rename(p) ==
  /\ pc[p] = "rename"
  /\ IF Here(p) # Absent
     THEN GoTo(p, "failed") /\ UNCHANGED <<checkout, temporary, purpose>>
     ELSE /\ SetHere(p, "whole")
          /\ temporary' = temporary \ {p}
          /\ purpose' = [purpose EXCEPT ![p] = "installed"]
          /\ GoTo(p, "restore")
  /\ UNCHANGED <<tip, cacheLock, selection, lockfile, project, pinned, commit>>

-----------------------------------------------------------------------------
(* The end of resolve, compilation, and the lockfile *)

\* Mutant: the lock is given back once the selection is recorded.
SaveSelectionAndUnlock(p) ==
  /\ pc[p] = "save"
  /\ selection' = commit[p]
  /\ cacheLock' = Null
  /\ GoTo(p, "reading")
  /\ UNCHANGED <<tip, checkout, temporary, lockfile, project, pinned, commit, purpose>>

SaveSelection(p) ==
  /\ pc[p] = "save"
  /\ selection' = commit[p]
  /\ GoTo(p, "reading")
  /\ UNCHANGED <<tip, cacheLock, checkout, temporary, lockfile, project, pinned, commit,
                 purpose>>

\* The error is reported: the temporary clone and the lock are dropped.
Fail(p) ==
  /\ pc[p] = "failed"
  /\ temporary' = temporary \ {p}
  /\ cacheLock' = Null
  /\ GoTo(p, "idle")
  /\ UNCHANGED <<tip, selection, checkout, lockfile, project, pinned, commit, purpose>>

\* The network or the disk fails where only an error can follow.
IoFails(p) ==
  /\ pc[p] \in {"choose", "remove", "clone", "fetch", "install", "rename", "save"}
  /\ ~Reliable
  /\ GoTo(p, "failed")
  /\ UNCHANGED <<tip, cacheLock, files, project, pinned, commit, purpose>>

\* The program has been compiled.  A build that succeeds writes its lockfile
\* (write_if_changed); the resolver is dropped and with it the lock.
Finish(p) ==
  /\ pc[p] = "reading"
  /\ lockfile' \in {lockfile, [lockfile EXCEPT ![project[p]] = commit[p]]}
  /\ cacheLock' = Null
  /\ GoTo(p, "idle")
  /\ UNCHANGED <<tip, selection, checkout, temporary, project, pinned, commit, purpose>>

-----------------------------------------------------------------------------
(* What happens to the cache from outside *)

\* A process dies, or the acquisition of a language server is cancelled and
\* drops its temporary clone.
Abandon(p) ==
  /\ pc[p] # "idle"
  /\ GoTo(p, "idle")
  /\ cacheLock' = IF cacheLock = p THEN Null ELSE cacheLock
  /\ temporary' \in {temporary, temporary \ {p}}
  /\ UNCHANGED <<tip, selection, checkout, lockfile, project, pinned, commit, purpose>>

Push(c) ==
  /\ tip' = c
  /\ UNCHANGED <<cacheLock, files, pc, project, pinned, commit, purpose>>

\* The user refreshes the branch by removing the selection (README.md:27).
ForgetSelection ==
  /\ selection' = Null
  /\ UNCHANGED <<tip, cacheLock, checkout, temporary, lockfile, pc, project, pinned,
                 commit, purpose>>

\* A checkout nobody uses is modified or removed.
Tamper(c) ==
  /\ cacheLock = Null /\ checkout[c] # Absent
  /\ \E state \in {Absent, "damaged", "torn"} :
       checkout' = [checkout EXCEPT ![c] = state]
  /\ UNCHANGED <<tip, cacheLock, selection, temporary, lockfile, pc, project, pinned,
                 commit, purpose>>

-----------------------------------------------------------------------------

\* The cache is empty and the branch is somewhere; projects come with the
\* lockfiles they were published with.
Init ==
  /\ tip \in Commit
  /\ cacheLock = Null
  /\ selection = Null
  /\ checkout = [c \in Commit |-> Absent]
  /\ temporary = {}
  /\ lockfile \in [Project -> Commit \cup {Null}]
  /\ pc = [p \in Process |-> "idle"]
  /\ project \in [Process -> Project]
  /\ pinned = [p \in Process |-> Null]
  /\ commit = [p \in Process |-> Null]
  /\ purpose = [p \in Process |-> "reuse"]

Resolve(p) ==
  \/ Acquire(p) \/ Choose(p)
  \/ Restore(p) \/ Rewrite(p) \/ RestoreFails(p) \/ RemoveSome(p) \/ RemoveAll(p)
  \/ StartClone(p) \/ Fetch(p) \/ Install(p) \/ Rename(p)
  \/ SaveSelection(p) \/ IoFails(p) \/ Fail(p)

Outside ==
  \/ \E p \in Process : Abandon(p)
  \/ \E c \in Commit : Push(c) \/ Tamper(c)
  \/ ForgetSelection

Next ==
  \/ \E p \in Process, j \in Project : Open(p, j)
  \/ \E p \in Process : Resolve(p) \/ Finish(p)
  \/ Outside

Spec == Init /\ [][Next]_vars

-----------------------------------------------------------------------------
(* Correctness *)

\* The types of all variables; a process past the choice knows its commit,
\* unless the branch is still to decide.
TypeOK ==
  /\ tip \in Commit
  /\ cacheLock \in Process \cup {Null}
  /\ selection \in Commit \cup {Null}
  /\ checkout \in [Commit -> CheckoutState]
  /\ temporary \subseteq Process
  /\ lockfile \in [Project -> Commit \cup {Null}]
  /\ pc \in [Process -> Locked \cup {"idle", "opened"}]
  /\ project \in [Process -> Project]
  /\ pinned \in [Process -> Commit \cup {Null}]
  /\ commit \in [Process -> Commit \cup {Null}]
  /\ purpose \in [Process -> DOMAIN AfterRemoval]
  /\ \A p \in Process :
       pc[p] \in Locked \ {"choose", "clone", "fetch", "failed"} => commit[p] # Null

\* The lock "protects cache installation and restored worktrees until
\* compilation has finished reading them": while a process compiles, the files
\* it reads are those of its commit, whoever else installs, restores or dies.
ReadsWholeCheckout ==
  \A p \in Process : pc[p] = "reading" => checkout[commit[p]] = "whole"

\* Whatever a dead process has left behind, later resolutions repair it: they
\* fail only when the network or the disk fails.
OnlyFaultsFail ==
  Reliable => \A p \in Process : pc[p] # "failed"

\* Clones abandoned by processes that died do not pile up.
OneTemporary == \A p, q \in temporary : p = q

\* "Cached source selections are shared across projects": as long as the
\* checkout of the selected commit exists, only a user or a build whose
\* lockfile says so turns the selection to another commit.
SelectionSticks ==
  [][ selection # Null /\ checkout[selection] # Absent /\ selection' # selection =>
        \/ selection' = Null
        \/ \E p \in Process : pc[p] = "save" /\ pinned[p] = selection' ]_vars

\* "Existing lockfiles keep their pinned revisions" (README.md:27).
LockfilesKeepTheirPins ==
  [][ \A j \in Project : lockfile[j] # Null => lockfile'[j] = lockfile[j] ]_vars

-----------------------------------------------------------------------------
(* The inductive invariant behind the theorems of GitCacheProofs: whoever  *)
(* changes the cache holds its lock, so that what a process has found out  *)
(* about a checkout or the selection stays true until it gives the lock    *)
(* back.                                                                   *)

LockHeld == \A p \in Process : pc[p] \in Locked <=> cacheLock = p

\* What a process has restored or installed is whole until it lets go of it.
Restored == \A p \in Process : pc[p] \in {"save", "reading"} => Here(p) = "whole"

\* What is there where a process is about to put a clone, and which checkouts
\* may turn out to be damaged.
Repairable ==
  \A p \in Process :
    /\ pc[p] = "rename" => Here(p) = Absent
    /\ Reliable /\ pc[p] = "restore" /\ purpose[p] = "installed" => Here(p) = "whole"
    /\ Reliable /\ pc[p] = "remove" => purpose[p] # "installed"
    /\ Reliable => pc[p] # "failed"

\* A process without a pin follows the selection, if that has a checkout.
FollowsSelection ==
  \A p \in Process :
    pc[p] \in Locked \ {"choose", "failed"} /\ pinned[p] = Null =>
      \/ selection \in {Null, commit[p]}
      \/ checkout[selection] = Absent

\* A process with a pin resolves that.
FollowsPin ==
  \A p \in Process :
    pc[p] \in Locked \ {"choose", "failed"} /\ pinned[p] # Null => commit[p] = pinned[p]

GitInv == LockHeld /\ Restored /\ Repairable /\ FollowsSelection /\ FollowsPin
=============================================================================
