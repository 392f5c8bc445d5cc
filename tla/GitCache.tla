------------------------------ MODULE GitCache ------------------------------
(***************************************************************************)
(* The git cache of one repository: a mirror on disk that the index        *)
(* workers of several processes clone or fetch into, each process under a  *)
(* lock of its own, and the worktrees they check out, use and remove.      *)
(* Git commands are modelled by what they do to the mirror; a commit of    *)
(* the indexed branch is the number of the push that brought it.           *)
(***************************************************************************)
EXTENDS Integers

CONSTANTS
    Threads,      \* index workers
    Processes,
    Deployments,  \* how the threads may be distributed over processes
    Nobody,
    Head,         \* "refs/heads/<branch>", the revision of a job without a commit
    MaxCommits,   \* bound: commits pushed
    MaxRequests,  \* bound: checkouts
    MaxFaults     \* bound: failing networks and dying processes

ASSUME GitCacheAssumption ==
    /\ Deployments \subseteq [Threads -> Processes]
    /\ Nobody \notin Threads /\ Head \notin 0..MaxCommits
    /\ {MaxCommits, MaxRequests, MaxFaults} \subseteq Nat

VARIABLES
    processOf,  \* the process of each thread; it does not change
    default,    \* the branch is the server's default; it does not change
    remote,     \* the commit of the branch on the server
    history,    \* of each commit: those of the branch when it was pushed
    mirror,     \* the bare repository: no directory, an unfinished one, or complete
    fetched,    \* its commit of the branch
    kept,       \* the commits of the branch it ever got
    atHead,     \* its HEAD names the branch
    lock,       \* who holds a process's lock of this repository
    job,        \* what each thread does
    disk,       \* worktree directories
    requests,
    faults,
    left,       \* history: checkouts that raised and those whose process died
    stuck       \* history: worktrees whose removal failed

fixed == <<processOf, default>>
server == <<remote, history>>
repo == <<mirror, fetched, kept, atHead>>
shared == <<server, repo>>
vars == <<fixed, shared, lock, job, disk, requests, faults, left, stuck>>

Waiting == {"lock", "clone", "cloning", "fetch", "fetching", "checkout"}
Commits == 0..MaxCommits

\* worktree 0: none. content: the branch as a git command first saw it, then the
\* commit checked out. since is history: the branch when the job began.
Job == [pc : Waiting \cup {"idle", "use"}, worktree : 0..MaxRequests,
        wanted : Commits \cup {Head}, content : Commits, since : Commits]
NoJob == [pc |-> "idle", worktree |-> 0, wanted |-> Head, content |-> 0, since |-> 0]

\* A checkout that is over, and what it asked for.
Checkouts == [worktree : 0..MaxRequests, wanted : Commits \cup {Head}]

TypeOK ==
    /\ processOf \in Deployments /\ default \in BOOLEAN
    /\ {remote, fetched} \subseteq Commits
    /\ history \in [Commits -> SUBSET Commits]
    /\ mirror \in {"absent", "partial", "complete"}
    /\ kept \subseteq Commits /\ atHead \in BOOLEAN
    /\ lock \in [Processes -> Threads \cup {Nobody}]
    /\ job \in [Threads -> Job]
    /\ disk \subseteq 1..MaxRequests /\ left \subseteq Checkouts /\ stuck \subseteq 1..MaxRequests
    /\ requests \in 0..MaxRequests /\ faults \in 0..MaxFaults

Init ==
    /\ processOf \in Deployments /\ default \in BOOLEAN
    /\ remote = 0 /\ history = [c \in Commits |-> IF c = 0 THEN {0} ELSE {}]
    /\ mirror = "absent" /\ fetched = 0 /\ kept = {} /\ atHead = FALSE
    /\ lock = [p \in Processes |-> Nobody]
    /\ job = [t \in Threads |-> NoJob]
    /\ disk = {} /\ left = {} /\ stuck = {}
    /\ requests = 0 /\ faults = 0

-----------------------------------------------------------------------------
(* checkout                                                                *)

Goto(t, step) == job' = [job EXCEPT ![t].pc = step]

\* The worktree directory is made before the lock is asked for.
Begin(t) ==
    /\ job[t].pc = "idle" /\ requests < MaxRequests
    /\ requests' = requests + 1
    /\ disk' = disk \cup {requests'}
    /\ \E r \in {Head} \cup 0..remote :
         job' = [job EXCEPT ![t] = [pc |-> "lock", worktree |-> requests', wanted |-> r,
                                    content |-> 0, since |-> remote]]
    /\ UNCHANGED <<fixed, shared, lock, faults, left, stuck>>

MayEnter(t) == TRUE
MayLock(t) == lock[processOf[t]] \in {Nobody, t}

\* A process has one reentrant lock per repository; under it the directory of the
\* mirror is looked for.
Lock(t) ==
    /\ job[t].pc = "lock"
    /\ MayLock(t)
    /\ lock' = [lock EXCEPT ![processOf[t]] = t]
    /\ Goto(t, IF mirror = "absent" THEN "clone" ELSE "fetch")
    /\ UNCHANGED <<fixed, shared, disk, requests, faults, left, stuck>>

KeptOnError(p) == lock
Released(p) == [lock EXCEPT ![p] = Nobody]

\* An exception leaves the with block, and the caller never sees the worktree.
Over(t) == [worktree |-> job[t].worktree, wanted |-> job[t].wanted]
Raise(t) ==
    /\ lock' = Released(processOf[t])
    /\ left' = left \cup {Over(t)}
    /\ job' = [job EXCEPT ![t] = NoJob]
    /\ UNCHANGED <<fixed, server, disk, requests, stuck>>

Fault == faults < MaxFaults /\ faults' = faults + 1

\* A git command runs from here, and from here on sees what the server has.
Connect(t, step) == job' = [job EXCEPT ![t].pc = step, ![t].content = remote]

\* git clone --mirror refuses a directory that another process has made meanwhile.
Clone(t) ==
    /\ job[t].pc = "clone"
    /\ \/ /\ mirror = "absent" /\ mirror' = "partial"
          /\ Connect(t, "cloning")
          /\ UNCHANGED <<fixed, server, lock, disk, requests, left, stuck>>
       \/ mirror # "absent" /\ Raise(t) /\ UNCHANGED mirror
    /\ UNCHANGED <<fetched, kept, atHead, faults>>

\* A clone that fails removes what it made.
CloneFails(t) ==
    /\ job[t].pc = "cloning"
    /\ Fault
    /\ mirror' = "absent" /\ kept' = {} /\ atHead' = FALSE
    /\ Raise(t)
    /\ UNCHANGED fetched

Fetch(t) ==
    /\ job[t].pc = "fetch"
    /\ Connect(t, "fetching")
    /\ UNCHANGED <<fixed, shared, lock, disk, requests, faults, left, stuck>>

NothingNew(t) == {fetched}
SinceConnected(t) == job[t].content..remote

\* The mirror gets the branch as the server had it at some time of the command, also
\* when another command has brought a newer commit meanwhile: its refspec is forced.
\* Its HEAD is what a clone found to be the default branch; a fetch leaves it alone.
\* Into an unfinished mirror, with whatever HEAD, a fetch may succeed or not.
GitReturns(t) ==
    /\ job[t].pc = "cloning" \/ (job[t].pc = "fetching" /\ mirror # "absent")
    /\ mirror' = "complete"
    /\ fetched' \in SinceConnected(t)
    /\ kept' = kept \cup history[fetched']
    /\ atHead' \in IF job[t].pc = "cloning" THEN {default}
                   ELSE IF mirror = "partial" THEN BOOLEAN ELSE {atHead}
    /\ Goto(t, "checkout")
    /\ UNCHANGED <<fixed, server, lock, disk, requests, faults, left, stuck>>

\* Another git command writes to the mirror.
Contended(t) == \E u \in Threads \ {t} : job[u].pc \in {"cloning", "fetching"}

FetchFails(t) ==
    /\ job[t].pc = "fetching"
    /\ Fault \/ ((Contended(t) \/ mirror # "complete") /\ UNCHANGED faults)
    /\ Raise(t)
    /\ UNCHANGED repo

\* A clone of the mirror has one branch of its own, the mirror's HEAD: only that is
\* found as refs/heads/<branch>. A commit is found if the branch still has it; once
\* rewritten away it is found as long as git has not removed it from the mirror.
Found(r) == mirror = "complete" /\ IF r = Head THEN atHead ELSE r \in history[fetched]
MayFind(r) == Found(r) \/ (mirror = "complete" /\ r \in kept)

\* The worktree is cloned from the mirror and the revision checked out in it.
Checkout(t) ==
    /\ job[t].pc = "checkout"
    /\ LET r == job[t].wanted IN
       \/ /\ MayFind(r)
          /\ job' = [job EXCEPT ![t].pc = "use",
                                ![t].content = IF r = Head THEN fetched ELSE r]
          /\ lock' = [lock EXCEPT ![processOf[t]] = Nobody]
          /\ UNCHANGED <<fixed, server, disk, requests, left, stuck>>
       \/ ~Found(r) /\ Raise(t)
    /\ UNCHANGED <<repo, faults>>

-----------------------------------------------------------------------------
(* The caller, and the environment.                                        *)

CleanedOnSuccess(t, raised) == IF raised THEN disk ELSE disk \ {job[t].worktree}
Cleaned(t, raised) == disk \ {job[t].worktree}

\* The service indexes the files and removes the worktree in a finally. A removal that
\* raises is logged, and the directory stays.
Use(t) ==
    /\ job[t].pc = "use"
    /\ \/ (\E raised \in BOOLEAN : disk' = Cleaned(t, raised)) /\ UNCHANGED stuck
       \/ stuck' = stuck \cup {job[t].worktree} /\ UNCHANGED disk
    /\ job' = [job EXCEPT ![t] = NoJob]
    /\ UNCHANGED <<fixed, shared, lock, requests, faults, left>>

\* A process dies, and its locks with it. Its git command may go on to its end or be
\* killed as well; killed while it clones, it leaves what it has.
Die(p) ==
    LET mine == {t \in Threads : processOf[t] = p /\ job[t].pc # "idle"} IN
    /\ mine # {} /\ Fault
    /\ job' = [t \in Threads |-> IF t \in mine THEN NoJob ELSE job[t]]
    /\ left' = left \cup {Over(t) : t \in mine}
    /\ lock' = [lock EXCEPT ![p] = Nobody]
    /\ \/ UNCHANGED repo
       \/ /\ \E t \in mine : job[t].pc = "cloning"
          /\ mirror' = "complete" /\ fetched' = remote
          /\ kept' = kept \cup history[remote] /\ atHead' = default
    /\ UNCHANGED <<fixed, server, disk, requests, stuck>>

\* A push goes on from the commit of the branch. A forced one goes on from an earlier
\* one or from none: the branch loses what came after.
Push ==
    /\ remote < MaxCommits
    /\ remote' = remote + 1
    /\ \E past \in {history[c] : c \in history[remote]} \cup {{}} :
         history' = [history EXCEPT ![remote'] = past \cup {remote'}]
    /\ UNCHANGED <<fixed, repo, lock, job, disk, requests, faults, left, stuck>>

Proceed(t) ==
    \/ Lock(t) \/ Clone(t) \/ CloneFails(t) \/ Fetch(t) \/ GitReturns(t)
    \/ FetchFails(t) \/ Checkout(t) \/ Use(t)

Next ==
    \/ \E t \in Threads : Begin(t) \/ Proceed(t)
    \/ \E p \in Processes : Die(p)
    \/ Push

\* Git commands end, and a thread that can go on does.
Spec == Init /\ [][Next]_vars /\ \A t \in Threads : WF_vars(Proceed(t))

-----------------------------------------------------------------------------
(* Properties.                                                             *)

OneProcess == \A t, u \in Threads : processOf[t] = processOf[u]

\* A job indexes what it asked for. In one process a job that asked for the branch
\* indexes no commit older than the branch was when the job began, whoever fetched in
\* between; with two, the fetch of another process may set the mirror back.
FreshWorktree ==
    \A t \in Threads : job[t].pc = "use" =>
        IF job[t].wanted = Head THEN OneProcess => job[t].content >= job[t].since
        ELSE job[t].content = job[t].wanted

\* In one process, with a network that works and no process dying, a checkout raises
\* only if it asked for the branch and the server's default is another, or for a commit
\* that a forced push has taken from the branch: a lock per repository is enough among
\* the threads of one process.
FailsForCause ==
    OneProcess /\ faults = 0 => \A l \in left :
        IF l.wanted = Head THEN ~default ELSE l.wanted \notin history[remote]

\* On disk are the worktree of each job, which nobody else removes, those whose checkout
\* raised or whose process died, those whose removal failed, and no others.
WorktreesAccounted ==
    disk = {job[t].worktree : t \in {u \in Threads : job[u].pc # "idle"}}
           \cup {l.worktree : l \in left} \cup stuck

\* Every checkout ends, however many threads wait for the lock and whatever raises
\* under it.
CheckoutEnds ==
    \A t \in Threads : job[t].pc \in Waiting ~> job[t].pc \in {"idle", "use"}
=============================================================================
