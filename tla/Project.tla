------------------------------- MODULE Project -------------------------------
(***************************************************************************)
(* A web project as a directory that synchronises with it sees it: its     *)
(* accepted files, the identity of its head, and its history of versions.  *)
(*                                                                         *)
(* The state is that of the room and its log (modelled for themselves in   *)
(* Sequencer); here one edit of a browser is one step.  A file's content   *)
(* is a number that stands for its text and for its hash: every edit, on   *)
(* the web or in a directory, makes a content nobody held before.          *)
(***************************************************************************)
EXTENDS Integers, Sequences, FiniteSets, FiniteSetsExt

CONSTANTS
    Paths,      \* the paths both sides may hold
    Assets,     \* those of them that are binary files
    MaxEvents   \* bound: edits, marks in the history and faults, together

ASSUME ProjectAssumption ==
    /\ Assets \subseteq Paths
    /\ MaxEvents \in Nat

VARIABLES
    web,    \* the accepted content of each path, Absent when there is none
    head,   \* the head identity: the digest of the head vector
    labels, \* the history: a label's sequence number is its place
    made,   \* contents made so far, on either side
    events, \* edits, marks and faults so far
    onWeb   \* ghost: every <<path, content>> the project ever held

standing == <<web, head, labels, made, onWeb>>
project == <<standing, events>>

Absent == 0
NoKey == 0

Label(key, tree, named) == [key |-> key, tree |-> tree, named |-> named]

Held(tree) == {<<p, tree[p]>> : p \in Paths}

Event == events < MaxEvents /\ events' = events + 1

(* A content nobody held before, or the deletion of the file.              *)
Rewritten(old) == {made + 1} \cup ({Absent} \ {old})

(* Somebody edits, creates or deletes a file in the browser.  Whatever     *)
(* moves the document moves the head vector, and so its digest.            *)
WebEdit(p) ==
    /\ Event
    /\ \E content \in Rewritten(web[p]) :
         /\ web' = [web EXCEPT ![p] = content]
         /\ made' = Max({made, content})
    /\ head' = head + 1
    /\ onWeb' = onWeb \cup Held(web')
    /\ UNCHANGED labels

(* Somebody names the current version: a label, and no edit.               *)
WebName ==
    /\ Event
    /\ labels' = Append(labels, Label(NoKey, web, TRUE))
    /\ UNCHANGED <<web, head, made, onWeb>>

(* An editor trims the history: every label goes, and the next one is      *)
(* numbered from one again (the newest number is read from the rows left). *)
WebTrim ==
    /\ labels # <<>>
    /\ Event
    /\ labels' = <<>>
    /\ UNCHANGED <<web, head, made, onWeb>>

(* The label an earlier attempt at a request left behind, if any.          *)
LabelForRequest(key) == {s \in DOMAIN labels : labels[s].key = key}

FaultyUnchanged(request) == \A p \in DOMAIN request.put \ Assets : web[p] = request.expect[p]

(* Every path a change touches still holds what the change was planned     *)
(* against: the hash of a patched or deleted text, the digest of a binary  *)
(* file, and nothing where it creates one.                                 *)
Unchanged(request) == \A p \in DOMAIN request.put : web[p] = request.expect[p]

(* One source change, run as a command.  A request whose label is there is *)
(* answered again and changes nothing; a file that moved, or a suggestion  *)
(* in the way, refuses the whole change; otherwise the files and the label *)
(* are written in one transaction.                                         *)
Replayed(request) ==
    /\ LabelForRequest(request.key) # {}
    /\ UNCHANGED project

Applied(request) ==
    /\ LabelForRequest(request.key) = {}
    /\ Unchanged(request)
    /\ web' = [p \in Paths |-> IF p \in DOMAIN request.put THEN request.put[p] ELSE web[p]]
    /\ head' = head + 1
    /\ labels' = Append(labels, Label(request.key, web', TRUE))
    /\ onWeb' = onWeb \cup Held(web')
    /\ UNCHANGED <<made, events>>

Refused(request) ==
    /\ LabelForRequest(request.key) = {}
    /\ ~Unchanged(request)
    /\ UNCHANGED project

(* What a pull learns from the first page of the history, read before any  *)
(* content: the named versions above pulled, whether anything is left at   *)
(* or below it, and the head.                                              *)
Discover(pulled) ==
    LET newer == {s \in DOMAIN labels : labels[s].named /\ s > pulled}
        trimmed == pulled # 0 /\ ~\E s \in DOMAIN labels : s <= pulled
        take == IF trimmed /\ newer # {} THEN {Max(newer)} ELSE newer
    IN [versions |-> take,
        fromHead |-> take = {} /\ (pulled = 0 \/ trimmed),
        head |-> head]

==============================================================================
