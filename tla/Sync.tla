-------------------------------- MODULE Sync --------------------------------
(***************************************************************************)
(* A directory that synchronises with a web project: the pull and the push *)
(* of the command line and of the companion's Git connection.              *)
(*                                                                         *)
(* The directory is a plain folder, a Git repository the command line      *)
(* drives, or one the companion's connection drives, for good.  What it    *)
(* remembers of the project (State) is saved as a whole, in one step.  A   *)
(* transfer runs through `op`, one at a time; each of its network answers, *)
(* saves and file writes is a step, and it may stop between any two.  A    *)
(* person edits, commits and settles merges at any time.                   *)
(***************************************************************************)
EXTENDS Project

VARIABLES
    kind,       \* "folder", "repository" or "connection"
    local,      \* the working tree
    commits,    \* every commit of the repository, by the order it was made in
    HEAD,       \* the branch
    main,       \* refs/librepaper/main, 0 before the first fetch
    merging,    \* MERGE_HEAD, 0 when no merge is in progress
    saved,      \* the State on disk
    op,         \* the transfer under way and what it holds in memory
    seen,       \* the status request under way
    stray,      \* requests whose sender gave up while they were on their way
    taken,      \* ghost: the <<path, content>> the person's side has had
    told,       \* ghost: the keys the project answered for (a refused one while a copy is about)
    lostHere,   \* ghost: local contents a pull wrote over
    lostThere   \* ghost: web contents a push wrote over

here == <<local, commits, HEAD, main, merging>>
ghosts == <<taken, told, lostHere, lostThere>>
vars == <<project, kind, here, saved, op, seen, stray, ghosts>>

NoHead == -1
Idle == [pc |-> "idle"]
Empty == [p \in Paths |-> Absent]
Present(tree) == {p \in Paths : tree[p] # Absent}

(* State::new: linked, nothing pulled and nothing recorded.                *)
NewState ==
    [pulled |-> 0, files |-> Empty, head |-> 0, fetched |-> {}, web |-> NoHead,
     synced |-> {}, pushed |-> {}, pending |-> {}]

-----------------------------------------------------------------------------
(* Git, as the code uses it. *)

Commit(tree, parents, label) ==
    [tree |-> tree, label |-> label,
     past |-> parents \cup UNION {commits[c].past : c \in parents}]

Root(tree) == [tree |-> tree, label |-> 0, past |-> {}]

(* The commits c can reach, itself included. *)
Reach(list, c) == IF c = 0 THEN {} ELSE {c} \cup list[c].past
IsAncestor(list, a, c) == a \in Reach(list, c)
TreeOf(list, c) == IF c = 0 THEN Empty ELSE list[c].tree
MergeBase(a, c) ==
    LET common == Reach(commits, a) \cap Reach(commits, c)
    IN TreeOf(commits, IF common = {} THEN 0 ELSE Max(common))

Dirty == {p \in Paths : local[p] # TreeOf(commits, HEAD)[p]}

(* Both sides changed the file since the merge base, each its own way.     *)
Conflicts(ours, theirs, base) ==
    {p \in Paths : ours[p] # theirs[p] /\ ours[p] # base[p] /\ theirs[p] # base[p]}
Merged(ours, theirs, base) ==
    [p \in Paths |-> IF ours[p] = base[p] THEN theirs[p] ELSE ours[p]]

-----------------------------------------------------------------------------
(* What the state records. *)

(* Makes a fetched version the one the directory is based on.              *)
Promote(list, st) ==
    LET f == CHOOSE f \in st.fetched : TRUE
    IN [st EXCEPT !.fetched = {}, !.files = f.files,
                  !.head = IF st.head = 0 \/ IsAncestor(list, st.head, f.commit)
                           THEN f.commit ELSE st.head]

(* A fetch that git has merged since, perhaps by hand, is promoted.        *)
Settled(st) == \E f \in st.fetched : IsAncestor(commits, f.commit, HEAD)
Settle(st) == IF Settled(st) THEN Promote(commits, st) ELSE st

(* The effects a pending push saved with its request, once it is accepted. *)
Accept(st, request) ==
    [st EXCEPT
        !.files = [p \in Paths |-> IF p \in DOMAIN request.put THEN request.put[p] ELSE @[p]],
        !.synced = @ \cup DOMAIN request.put,
        !.pushed = @ \cup {[key |-> request.key, commit |-> request.commit]},
        !.head = IF request.commit # 0 THEN request.commit ELSE @,
        !.web = NoHead,
        !.pending = {}]

(* What the directory agrees with, or will once a fetch is merged.         *)
Recorded(st) == IF st.fetched = {} THEN st.files ELSE (CHOOSE f \in st.fetched : TRUE).files

(* Nothing to take: no unseen version, a base, and the head read last.     *)
Quiet(found, st) == found.versions = {} /\ ~found.fromHead /\ found.head = st.web

(* The newest version taken in, once found has been.                       *)
PulledBy(found, st) ==
    IF found.versions # {} THEN Max(found.versions)
    ELSE IF found.fromHead THEN 0 ELSE st.pulled

-----------------------------------------------------------------------------
(* The person. *)

Edit(p) ==
    /\ Event
    /\ merging = 0
    /\ \E content \in Rewritten(local[p]) :
         /\ local' = [local EXCEPT ![p] = content]
         /\ made' = Max({made, content})
    /\ taken' = taken \cup Held(local')
    /\ UNCHANGED <<web, head, labels, onWeb, kind, commits, HEAD, main, merging,
                   saved, op, seen, stray, told, lostHere, lostThere>>

(* Commits the working tree: an edit, or a merge with each conflicted file *)
(* kept from one side, as the companion's resolve route does it.           *)
CommitWork ==
    /\ kind # "folder"
    /\ merging = 0 => Dirty # {}
    /\ LET theirs == TreeOf(commits, merging)
           torn == IF merging = 0 THEN {}
                   ELSE Conflicts(TreeOf(commits, HEAD), theirs, MergeBase(HEAD, merging))
       IN \E keep \in {{}, torn} :
            local' = [p \in Paths |-> IF p \in keep THEN theirs[p] ELSE local[p]]
    /\ commits' = Append(commits, Commit(local', {HEAD, merging} \ {0}, 0))
    /\ HEAD' = Len(commits')
    /\ taken' = taken \cup UNION {Held(commits'[c].tree) : c \in Reach(commits', HEAD')}
    /\ merging' = 0
    /\ UNCHANGED <<project, kind, main, saved, op, seen, stray, told, lostHere, lostThere>>

AbortMerge ==
    /\ merging # 0
    /\ Event
    /\ merging' = 0
    /\ local' = TreeOf(commits, HEAD)
    /\ UNCHANGED <<standing, kind, commits, HEAD, main, saved, op, seen, stray, ghosts>>

-----------------------------------------------------------------------------
(* push *)

Free == op.pc = "idle"

(* Keys are drawn at random: no two requests that can meet share one.      *)
Abroad == {r.key : r \in stray} \cup {labels[s].key : s \in DOMAIN labels}
Copies == saved.pending \cup IF seen.pc = "idle" THEN {} ELSE seen.st.pending
FreshKey ==
    LET used == told \cup Abroad \cup {r.key : r \in Copies}
    IN Min((1..(Cardinality(used) + 2)) \ used)

(* A connection refuses a tree with uncommitted changes, and an open merge. *)
Ready == kind = "connection" => merging = 0 /\ Dirty = {}

(* A push that was posted and never settled is settled first.              *)
PushStart ==
    /\ Free /\ Ready
    /\ merging = 0
    /\ op' = IF saved.pending = {}
             THEN [pc |-> "scan", st |-> saved]
             ELSE [pc |-> "post", st |-> saved, again |-> TRUE,
                   request |-> CHOOSE r \in saved.pending : TRUE]
    /\ UNCHANGED <<project, kind, here, saved, seen, stray, ghosts>>

(* The directory (or a commit) against the baseline; the texts that differ *)
(* must still be on the web what was recorded; and the request is saved    *)
(* with its effects before it is posted.                                   *)
PushPlan ==
    /\ op.pc = "scan"
    /\ LET st == Settle(op.st)
           scan == IF kind = "connection" THEN TreeOf(commits, HEAD) ELSE local
           changes == {p \in Paths : scan[p] # st.files[p]}
           edited == {p \in changes \ Assets : Absent \notin {scan[p], st.files[p]}}
           request == [key |-> FreshKey,
                       expect |-> [p \in changes |-> st.files[p]],
                       put |-> [p \in changes |-> scan[p]],
                       commit |-> HEAD]
       IN IF changes = {} \/ \E p \in edited : web[p] # st.files[p]
          THEN /\ saved' = IF Settle(op.st) # op.st THEN st ELSE saved
               /\ op' = Idle
          ELSE /\ saved' = [st EXCEPT !.pending = {request}]
               /\ op' = [pc |-> "post", st |-> saved', again |-> FALSE,
                         request |-> request]
    /\ UNCHANGED <<project, kind, here, seen, stray, ghosts>>

(* What a request writes over that this side never had.                    *)
Overwritten(request) ==
    {<<p, web[p]>> : p \in {q \in DOMAIN request.put : web[q] # Absent}} \ taken

(* The request reaches the project, which answers it.                      *)
PostLands ==
    /\ op.pc = "post"
    /\ \/ /\ Applied(op.request)
          /\ lostThere' = lostThere \cup Overwritten(op.request)
          /\ op' = [op EXCEPT !.pc = "accepted"]
       \/ /\ Replayed(op.request)
          /\ op' = [op EXCEPT !.pc = "accepted"]
          /\ UNCHANGED lostThere
       \/ /\ Refused(op.request)
          /\ op' = [op EXCEPT !.pc = "refused"]
          /\ UNCHANGED lostThere
    /\ UNCHANGED <<kind, here, saved, seen, stray, taken, told, lostHere>>

(* A pending suggestion is in the way: refused whatever the hashes say.    *)
PostSuggestion ==
    /\ op.pc = "post"
    /\ Event
    /\ LabelForRequest(op.request.key) = {}
    /\ op' = [op EXCEPT !.pc = "refused"]
    /\ UNCHANGED <<standing, kind, here, saved, seen, stray, ghosts>>

FaultyPostFails ==
    /\ op.pc = "accepted"
    /\ Event
    /\ op' = Idle
    /\ saved' = [saved EXCEPT !.pending = {}]
    /\ UNCHANGED <<standing, kind, here, seen, stray, ghosts>>

(* No answer, or none that settles anything: the attempt stays saved.  The *)
(* request may be on its way still, or its answer is lost and it is sent   *)
(* again.                                                                  *)
PostFails ==
    /\ op.pc \in {"post", "accepted"}
    /\ Event
    /\ \/ op.pc = "post" /\ op' = Idle /\ stray' = stray \cup {op.request}
       \/ op.pc = "accepted" /\ op' = [op EXCEPT !.pc = "post"] /\ stray' = stray
    /\ UNCHANGED <<standing, kind, here, saved, seen, ghosts>>

(* A request arrives after its sender gave up on it.                       *)
StrayLands ==
    /\ \E request \in stray :
         /\ \/ Applied(request) /\ lostThere' = lostThere \cup Overwritten(request)
            \/ Replayed(request) /\ UNCHANGED lostThere
            \/ Refused(request) /\ UNCHANGED lostThere
         /\ stray' = stray \ {request}
    /\ UNCHANGED <<kind, here, saved, op, seen, taken, told, lostHere>>

PushAccepted ==
    /\ op.pc = "accepted"
    /\ saved' = Accept(op.st, op.request)
    /\ op' = IF op.again THEN [pc |-> "scan", st |-> saved'] ELSE Idle
    /\ told' = told \cup {op.request.key}
    /\ UNCHANGED <<project, kind, here, seen, stray, taken, lostHere, lostThere>>

PushRefused ==
    /\ op.pc = "refused"
    /\ saved' = [op.st EXCEPT !.pending = {}]
    /\ op' = Idle
    /\ told' = told \cup ({op.request.key} \cap Abroad)
    /\ UNCHANGED <<project, kind, here, seen, stray, taken, lostHere, lostThere>>

-----------------------------------------------------------------------------
(* pull, of a folder *)

PullFolder(side) ==
    /\ Free /\ kind = "folder"
    /\ saved.pending = {}
    /\ LET found == Discover(saved.pulled)
       IN /\ ~Quiet(found, saved)
          /\ op' = [pc |-> "read", st |-> saved, found |-> found, side |-> side]
    /\ UNCHANGED <<project, kind, here, saved, seen, stray, ghosts>>

FaultyApply(base, mine, theirs, side) ==
    {p \in Paths : mine[p] # theirs[p] /\ (theirs[p] # base[p] \/ side = "theirs")}

(* The recorded files, the folder and the project, path by path.           *)
Apply(base, mine, theirs, side) ==
    {p \in Paths : /\ mine[p] # theirs[p]
                   /\ \/ mine[p] = base[p]
                      \/ theirs[p] # base[p] /\ side = "theirs"}
Unsettled(base, mine, theirs, side) ==
    {p \in Conflicts(mine, theirs, base) : side = "none"}

FaultyRecords(base, mine, theirs, side) ==
    [p \in Paths |-> IF p \in Unsettled(base, mine, theirs, side) THEN mine[p] ELSE theirs[p]]

(* A file that is not settled keeps the record it had.                     *)
Records(base, mine, theirs, side) ==
    [p \in Paths |-> IF p \in Unsettled(base, mine, theirs, side) THEN base[p] ELSE theirs[p]]

(* The project's files, read after the page that gave its head; then the   *)
(* folder; then what to do with each path.                                 *)
PullRead ==
    /\ op.pc = "read"
    /\ op' = [pc |-> "write", st |-> op.st, found |-> op.found, side |-> op.side,
              snap |-> web, scan |-> local,
              todo |-> Apply(op.st.files, local, web, op.side)]
    /\ taken' = taken \cup (Held(web) \cap Held(local))
    /\ UNCHANGED <<project, kind, here, saved, seen, stray, told, lostHere, lostThere>>

(* One file is written, or moved to the trash: whatever it holds by now.   *)
PullWrite(p) ==
    /\ op.pc = "write" /\ p \in op.todo
    /\ local' = [local EXCEPT ![p] = op.snap[p]]
    /\ op' = [op EXCEPT !.todo = @ \ {p}]
    /\ taken' = taken \cup {<<p, op.snap[p]>>}
    /\ lostHere' = IF /\ local[p] = op.scan[p] /\ local[p] # Absent
                      /\ <<p, local[p]>> \notin onWeb /\ op.side # "theirs"
                   THEN lostHere \cup {<<p, local[p]>>} ELSE lostHere
    /\ UNCHANGED <<project, kind, commits, HEAD, main, merging, saved, seen, stray,
                   told, lostThere>>

FaultyPullSave ==
    /\ op.pc = "write" /\ op.todo = {}
    /\ saved' = [op.st EXCEPT
          !.files = Records(op.st.files, op.scan, op.snap, op.side),
          !.pulled = PulledBy(op.found, op.st),
          !.web = op.found.head]
    /\ op' = Idle
    /\ UNCHANGED <<project, kind, here, seen, stray, ghosts>>

(* With a file unsettled the same version is met again by the next pull.   *)
PullSave ==
    /\ op.pc = "write" /\ op.todo = {}
    /\ LET records == Records(op.st.files, op.scan, op.snap, op.side)
           done == Unsettled(op.st.files, op.scan, op.snap, op.side) = {}
       IN saved' = [op.st EXCEPT
             !.files = records,
             !.synced = @ \cup Present(records),
             !.pulled = IF done THEN PulledBy(op.found, op.st) ELSE @,
             !.web = IF done THEN op.found.head ELSE @]
    /\ op' = Idle
    /\ taken' = IF op.side = "mine"
                THEN taken \cup {<<p, op.snap[p]>> : p \in Conflicts(op.scan, op.snap, op.st.files)}
                ELSE taken
    /\ UNCHANGED <<project, kind, here, seen, stray, told, lostHere, lostThere>>

-----------------------------------------------------------------------------
(* pull, of a repository *)

(* A quiet pull, and one a dirty tree refuses, keep only what was settled. *)
PullRepository(merge) ==
    /\ Free /\ Ready
    /\ kind # "folder" /\ (kind = "connection" => merge)
    /\ saved.pending = {}
    /\ LET st == Settle(saved)
           found == Discover(st.pulled)
           quiet == Quiet(found, st)
           stop == \/ quiet /\ ~(st.fetched # {} /\ merge)
                   \/ merge /\ (Dirty # {} \/ merging # 0)
       IN IF stop
          THEN saved' = st /\ UNCHANGED op
          ELSE /\ op' = [pc |-> IF quiet THEN "save" ELSE "fetch", st |-> st, merge |-> merge,
                         found |-> [found EXCEPT !.versions = [s \in @ |-> labels[s]]]]
               /\ UNCHANGED saved
    /\ UNCHANGED <<project, kind, here, seen, stray, ghosts>>

(* The tree of base with the version's files over it; a path that was      *)
(* synced once and is not in the version goes.                             *)
Overlay(base, files, known) ==
    [p \in Paths |-> IF files[p] # Absent \/ p \in known THEN files[p] ELSE base[p]]

(* One version as a commit on the chain.  own is the commit this directory *)
(* pushed the version from, 0 when it did not: adopted when it holds the   *)
(* version exactly, built upon when it does not.  A commit with the same   *)
(* tree, parents and label is the same commit.                             *)
Chained(chain, files, label, own, skip) ==
    LET list == chain.list
        tip == chain.tip
        onto == own = 0 \/ IsAncestor(list, own, tip)
        base == IF onto THEN tip ELSE own
        parents == (IF onto THEN {tip}
                    ELSE IF IsAncestor(list, tip, own) THEN {own} ELSE {tip, own}) \ {0}
        tree == Overlay(TreeOf(list, base), files, chain.known)
        commit == [tree |-> tree, label |-> label,
                   past |-> parents \cup UNION {list[c].past : c \in parents}]
        same == {c \in DOMAIN list : list[c] = commit}
        placed == IF parents = {own} /\ TreeOf(list, own) = tree
                  THEN [list |-> list, tip |-> own]
                  ELSE IF label # 0 /\ same # {}
                  THEN [list |-> list, tip |-> Max(same)]
                  ELSE [list |-> Append(list, commit), tip |-> Len(list) + 1]
    IN IF skip /\ tip # 0 /\ TreeOf(list, tip) = tree
       THEN chain
       ELSE [list |-> placed.list, tip |-> placed.tip, new |-> chain.new + 1,
             known |-> chain.known \cup Present(files)]

OwnCommit(st, label) ==
    LET own == {r.commit : r \in {q \in st.pushed : q.key = label.key}}
    IN IF label.key = NoKey \/ own = {} THEN 0 ELSE Max(own)

(* The history up to version n on the chain, if n is one of those to take. *)
Walked(chain, n, versions, st) ==
    IF n \in DOMAIN versions
    THEN Chained(chain, versions[n].tree, n, OwnCommit(st, versions[n]), FALSE)
    ELSE chain

(* The versions to take, by number, each on the one before.                *)
Walk(start, versions, st) ==
    LET last == Max({0} \cup DOMAIN versions)
        walk[n \in 0..last] == IF n = 0 THEN start ELSE Walked(walk[n - 1], n, versions, st)
    IN walk[last]

(* Each named version and then the project as it stands, chained on        *)
(* refs/librepaper/main, which moves before anything is saved.             *)
Fetch ==
    /\ op.pc = "fetch"
    /\ LET st == op.st
           versions == op.found.versions
           start == [list |-> commits, tip |-> IF main # 0 THEN main ELSE st.head, new |-> 0,
                     known |-> st.synced \cup Present(st.files) \cup Present(Recorded(st))]
           chain == Chained(Walk(start, versions, st), web, 0, 0, TRUE)
           read == [st EXCEPT
                     !.web = op.found.head,
                     !.synced = @ \cup Present(web)
                                  \cup UNION {Present(versions[n].tree) : n \in DOMAIN versions}]
       IN /\ commits' = chain.list
          /\ IF chain.new = 0
             THEN /\ main' = main
                  /\ IF st.fetched = {}
                     THEN saved' = read /\ op' = Idle
                     ELSE saved' = saved /\ op' = [op EXCEPT !.pc = "save", !.st = read]
             ELSE /\ main' = chain.tip
                  /\ saved' = saved
                  /\ op' = [op EXCEPT
                       !.pc = "save",
                       !.st = [read EXCEPT
                          !.pulled = PulledBy([op.found EXCEPT !.versions = DOMAIN @], st),
                          !.fetched = {[commit |-> chain.tip, files |-> web]},
                          !.pushed = {r \in @ : r.key \notin {versions[n].key : n \in DOMAIN versions}}]]
    /\ UNCHANGED <<project, kind, local, HEAD, merging, seen, stray, ghosts>>

(* Saved before git merges, so that a merge which stops is not fetched again. *)
PullSaveFetched ==
    /\ op.pc = "save"
    /\ saved' = op.st
    /\ op' = IF op.merge THEN [op EXCEPT !.pc = "merge"] ELSE Idle
    /\ UNCHANGED <<project, kind, here, seen, stray, ghosts>>

(* git merge refs/librepaper/main.  It refuses to write over a file that   *)
(* is not committed, and stops at a conflict for the person to settle.     *)
MergeFetched ==
    /\ op.pc = "merge"
    /\ LET ours == TreeOf(commits, HEAD)
           theirs == TreeOf(commits, main)
           base == MergeBase(HEAD, main)
           both == IF IsAncestor(commits, HEAD, main) THEN theirs ELSE Merged(ours, theirs, base)
           torn == IF IsAncestor(commits, HEAD, main) THEN {} ELSE Conflicts(ours, theirs, base)
           work == [p \in Paths |-> IF p \in Dirty THEN local[p] ELSE both[p]]
       IN \/ /\ IsAncestor(commits, main, HEAD)
             /\ op' = [op EXCEPT !.pc = "promote"]
             /\ UNCHANGED <<local, commits, HEAD, merging, taken>>
          \/ /\ ~IsAncestor(commits, main, HEAD)
             /\ \/ merging # 0 \/ \E p \in Dirty : both[p] # ours[p]
             /\ op' = Idle
             /\ UNCHANGED <<local, commits, HEAD, merging, taken>>
          \/ /\ ~IsAncestor(commits, main, HEAD)
             /\ merging = 0 /\ \A p \in Dirty : both[p] = ours[p]
             /\ local' = work
             /\ IF torn # {}
                THEN /\ merging' = main
                     /\ op' = Idle
                     /\ UNCHANGED <<commits, HEAD, taken>>
                ELSE /\ commits' = IF IsAncestor(commits, HEAD, main) THEN commits
                                   ELSE Append(commits, Commit(both, {HEAD, main}, 0))
                     /\ HEAD' = IF IsAncestor(commits, HEAD, main) THEN main ELSE Len(commits')
                     /\ taken' = taken \cup UNION {Held(commits[c].tree) : c \in Reach(commits, main)}
                     /\ op' = [op EXCEPT !.pc = "promote"]
                     /\ UNCHANGED merging
    /\ UNCHANGED <<project, kind, main, saved, seen, stray, told, lostHere, lostThere>>

PullPromote ==
    /\ op.pc = "promote"
    /\ saved' = IF op.st.fetched = {} THEN op.st ELSE Promote(commits, op.st)
    /\ op' = Idle
    /\ UNCHANGED <<project, kind, here, seen, stray, ghosts>>

-----------------------------------------------------------------------------
(* The status route of a connection asks whether the project changed, and  *)
(* records the head it read.  It does not claim the connection.            *)

StatusRead ==
    /\ kind = "connection" /\ seen.pc = "idle"
    /\ {s \in DOMAIN labels : labels[s].named /\ s > saved.pulled} = {}
    /\ head # saved.web
    /\ web = Recorded(saved)
    /\ seen' = [pc |-> "save", st |-> saved, head |-> head]
    /\ UNCHANGED <<project, kind, here, saved, op, stray, ghosts>>

StatusSave ==
    /\ seen.pc = "save"
    /\ saved' = [seen.st EXCEPT !.web = seen.head]
    /\ seen' = Idle
    /\ UNCHANGED <<project, kind, here, op, stray, ghosts>>

-----------------------------------------------------------------------------

(* The process dies, or a request of a pull or a write fails: what the     *)
(* transfer held in memory is gone, what it wrote stays.                   *)
Stop ==
    /\ op.pc # "idle"
    /\ Event
    /\ op' = Idle
    /\ UNCHANGED <<standing, kind, here, saved, seen, stray, ghosts>>

Quietly == UNCHANGED <<kind, here, saved, op, seen, stray, ghosts>>

(* A directory published as the project, on which either side may have     *)
(* gone on since, or one that was just linked to an existing project.      *)
Init ==
    /\ kind \in {"folder", "repository", "connection"}
    /\ op = Idle /\ seen = Idle /\ stray = {} /\ events = 0
    /\ main = 0 /\ merging = 0
    /\ made = 3
    /\ LET first == [p \in Paths |-> 1]
           edited(c) == {first} \cup {[first EXCEPT ![p] = c] : p \in Paths \ Assets}
       IN /\ web \in edited(2)
          /\ head = IF web = first THEN 0 ELSE 1
          /\ labels = <<Label(NoKey, first, FALSE)>>
          /\ onWeb = Held(first) \cup Held(web)
          /\ \/ /\ local \in edited(3)
                /\ commits = IF kind = "folder" THEN <<>>
                             ELSE IF local = first THEN <<Root(first)>>
                             ELSE <<Root(first), [Root(local) EXCEPT !.past = {1}]>>
                /\ saved = [NewState EXCEPT !.pulled = 1, !.files = first, !.synced = Paths,
                                            !.head = IF kind = "folder" THEN 0 ELSE 1]
                /\ taken = Held(first) \cup Held(local) \cup Held(Empty)
             \/ /\ local = [p \in Paths |-> IF p \in Assets THEN Absent ELSE 3]
                /\ commits = IF kind = "folder" THEN <<>> ELSE <<Root(local)>>
                /\ saved = NewState
                /\ taken = Held(local) \cup Held(Empty)
    /\ HEAD = Len(commits)
    /\ told = {} /\ lostHere = {} /\ lostThere = {}

Next ==
    \/ \E p \in Paths : WebEdit(p) /\ Quietly
    \/ WebName /\ Quietly
    \/ WebTrim /\ Quietly
    \/ \E p \in Paths : Edit(p)
    \/ CommitWork
    \/ AbortMerge
    \/ PushStart
    \/ PushPlan
    \/ PostLands
    \/ PostSuggestion
    \/ PostFails
    \/ StrayLands
    \/ PushAccepted
    \/ PushRefused
    \/ \E side \in {"none", "mine", "theirs"} : PullFolder(side)
    \/ PullRead
    \/ \E p \in Paths : PullWrite(p)
    \/ PullSave
    \/ \E merge \in BOOLEAN : PullRepository(merge)
    \/ Fetch
    \/ PullSaveFetched
    \/ MergeFetched
    \/ PullPromote
    \/ StatusRead
    \/ StatusSave
    \/ Stop

Spec == Init /\ [][Next]_vars

-----------------------------------------------------------------------------
(* No push ever replaces or deletes a file on the web whose content this    *)
(* side never had, whatever was edited between the plan and the post, and   *)
(* however often and late a request arrives (plan_change, validate).        *)
WebKept == lostThere = {}

(* No pull writes over a file whose content, as the pull scanned it, was    *)
(* made here and never sent, unless it was told to take theirs (reconcile). *)
LocalKept == lostHere = {}

(* What the directory takes for the version both sides agreed on was the    *)
(* project's content of that path at some moment: through lost answers,     *)
(* refused and late requests, and transfers that stopped half way.          *)
BaselineWasThere == \A p \in Paths : saved.files[p] # Absent => <<p, saved.files[p]>> \in onWeb

(* The branch the next fetch chains on, and whether the project as it       *)
(* stands would add nothing to it: it holds the project's files, and a path *)
(* it has besides was never recorded as synchronised.                       *)
Branch(st) == TreeOf(commits, IF main # 0 THEN main ELSE st.head)
Shown(st) == Overlay(Branch(st), web, st.synced) = Branch(st)

(* A pull that finds the head it read last says "up to date".  By then the  *)
(* project's files are recorded, or are on the branch it fetches to, also   *)
(* after a fetch whose save never came (Discovery::is_quiet).               *)
NothingHidden ==
    kind # "connection" /\ saved.web = head => web = Recorded(saved) \/ Shown(saved)

(* A change the project accepted is one the sender was told of or still     *)
(* holds as pending, so that its answer can be asked for again (send,       *)
(* settle_pending).                                                         *)
PushRemembered ==
    kind # "connection" => \A s \in DOMAIN labels :
        labels[s].key # NoKey =>
            labels[s].key \in told \cup {r.key : r \in saved.pending}
============================================================================
