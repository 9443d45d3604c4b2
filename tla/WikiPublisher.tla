------------------------------ MODULE WikiPublisher ----------------------------
(* scripts/publish_wiki.py: several people run it against one wiki remote, while   *)
(* others edit pages in the browser. A branch is the sequence of its commits, and  *)
(* an absent branch is the empty one. The tree of a commit is all of its pages: the *)
(* number of the docs revision they were written from, or an edit's own.           *)
EXTENDS Integers, FiniteSets, SequencesExt

CONSTANTS
  Publishers,
  ShownBranches,   \* the branches that the wiki may be showing
  Revisions,       \* revisions of docs/ in the publishers' checkouts
  MaxCommits       \* bound: commits made in a behaviour, pushed or not

Branches == {"master", "main"}

ASSUME WikiAssumption ==
  /\ ShownBranches \subseteq Branches
  /\ Revisions \subseteq Nat
  /\ MaxCommits \in Nat

VARIABLES
  shown,      \* the branch that the wiki shows and that a clone checks out
  remote,     \* branch -> its commits
  pc,         \* publisher -> where its run is, or how its last run ended
  wiki,       \* publisher -> the commits of its clone
  tree,       \* publisher -> the pages in its clone
  made,       \* number of commits made: the identity of the next one
  published   \* history: commits whose run printed "Published"

vars == <<shown, remote, pc, wiki, tree, made, published>>

NoTree == 0
Ended == {"none", "preview", "raised", "up to date", "published", "not published"}

Init ==
  /\ shown \in ShownBranches
  /\ remote = [b \in Branches |-> <<>>]
  /\ pc = [p \in Publishers |-> "none"]
  /\ wiki = [p \in Publishers |-> <<>>]
  /\ tree = [p \in Publishers |-> NoTree]
  /\ made = 0
  /\ published = {}

\* The temporary directory goes with the run.
End(p, how) ==
  /\ pc' = [pc EXCEPT ![p] = how]
  /\ wiki' = [wiki EXCEPT ![p] = <<>>]
  /\ tree' = [tree EXCEPT ![p] = NoTree]

--------------------------------------------------------------------------------
(* The remote: a wiki has no git remote before its first page, and a push moves a  *)
(* branch only forward.                                                            *)

\* Someone creates the first page or edits one in the browser.
WebEdit ==
  /\ made < MaxCommits
  /\ made' = made + 1
  /\ remote' = [remote EXCEPT ![shown] = Append(@, [id |-> made', tree |-> -made'])]
  /\ UNCHANGED <<shown, pc, wiki, tree, published>>

\* A faulty push: with --force, a branch is moved wherever it was.
ForwardForced(b, history) == TRUE

Forward(b, history) == IsPrefix(remote[b], history)

\* Branch b becomes the clone of p.
Advance(b, p) ==
  /\ Forward(b, wiki[p])
  /\ remote' = [remote EXCEPT ![b] = wiki[p]]

--------------------------------------------------------------------------------
(* One run of the script                                                           *)

Clone(p) ==
  /\ pc[p] \in Ended
  /\ remote[shown] # <<>>
  /\ pc' = [pc EXCEPT ![p] = "cloned"]
  /\ wiki' = [wiki EXCEPT ![p] = remote[shown]]
  /\ UNCHANGED <<shown, remote, tree, made, published>>

\* No remote yet, or any other failure: pages go to build/wiki-preview, exit 2.
CloneFails(p) ==
  /\ pc[p] \in Ended
  /\ End(p, "preview")
  /\ UNCHANGED <<shown, remote, made, published>>

\* Every *.md of the clone is removed and all pages are written from docs/ as the
\* publisher happens to have it checked out.
WritePages(p) ==
  /\ pc[p] = "cloned"
  /\ \E r \in Revisions : tree' = [tree EXCEPT ![p] = r]
  /\ pc' = [pc EXCEPT ![p] = "written"]
  /\ UNCHANGED <<shown, remote, wiki, made, published>>

\* A faulty comparison: the pages count as new whatever the clone has.
CleanNever(p) == FALSE

\* git status after git add: the pages are those of the clone's last commit.
Clean(p) == Last(wiki[p]).tree = tree[p]

UpToDate(p) ==
  /\ pc[p] = "written"
  /\ Clean(p)
  /\ End(p, "up to date")
  /\ UNCHANGED <<shown, remote, made, published>>

Commit(p) ==
  /\ pc[p] = "written"
  /\ ~Clean(p)
  /\ made < MaxCommits
  /\ made' = made + 1
  /\ wiki' = [wiki EXCEPT ![p] = Append(@, [id |-> made', tree |-> tree[p]])]
  /\ pc' = [pc EXCEPT ![p] = "committed"]
  /\ UNCHANGED <<shown, remote, tree, published>>

\* git add, status and commit run with check=True, and anyone may press ^C.
Raises(p) ==
  /\ pc[p] \notin Ended
  /\ End(p, "raised")
  /\ UNCHANGED <<shown, remote, made, published>>

Published(p) ==
  /\ published' = published \union {Last(wiki[p]).id}
  /\ End(p, "published")

PushMaster(p) ==
  /\ pc[p] = "committed"
  /\ Advance("master", p)
  /\ Published(p)
  /\ UNCHANGED <<shown, made>>

\* Refused because others have pushed, or failed on the way, before or after the
\* branch was moved.
MasterNotPushed(p) ==
  /\ pc[p] = "committed"
  /\ Advance("master", p) \/ UNCHANGED remote
  /\ pc' = [pc EXCEPT ![p] = "fallback"]
  /\ UNCHANGED <<shown, wiki, tree, made, published>>

PushMain(p) ==
  /\ pc[p] = "fallback"
  /\ Advance("main", p)
  /\ Published(p)
  /\ UNCHANGED <<shown, made>>

\* A faulty end: the return code of the second push is not looked at.
MainNotPushedUnseen(p) ==
  /\ pc[p] = "fallback"
  /\ Advance("main", p) \/ UNCHANGED remote
  /\ Published(p)
  /\ UNCHANGED <<shown, made>>

\* exit 1
MainNotPushed(p) ==
  /\ pc[p] = "fallback"
  /\ Advance("main", p) \/ UNCHANGED remote
  /\ End(p, "not published")
  /\ UNCHANGED <<shown, made, published>>

Next ==
  \/ WebEdit
  \/ \E p \in Publishers :
       \/ Clone(p) \/ CloneFails(p) \/ WritePages(p)
       \/ UpToDate(p) \/ Commit(p) \/ Raises(p)
       \/ PushMaster(p) \/ MasterNotPushed(p)
       \/ PushMain(p) \/ MainNotPushed(p)

Spec == Init /\ [][Next]_vars

--------------------------------------------------------------------------------
(* Properties *)

Ids(b) == {remote[b][i].id : i \in DOMAIN remote[b]}

\* "Published", exit 0, is said only of pages that are in a branch of the remote,
\* whichever of the two pushes failed, and how, and whatever was pushed since.
PublishedIsKept ==
  published \subseteq Ids("master") \union Ids("main")

\* "Published" may be said of pages that the wiki never shows: a push to the shown
\* branch that was refused falls back to the other one, and a wiki that shows main
\* gets its first pages in master. But it happens to one run only: from then on the
\* two branches have parted and nothing moves the hidden one again.
HiddenAtMostOnce ==
  Cardinality(published \ Ids(shown)) <= 1

\* A run compares its pages with the clone only, yet no branch gets the pages that it
\* already ends with: a branch that has moved since the clone refuses the push. Two
\* branches may: when the wiki shows main, the first run goes to master, and a rerun
\* commits the same pages to main.
NoPagesTwiceInARow ==
  \A b \in Branches : \A i \in 1 .. Len(remote[b]) - 1 :
    remote[b][i].tree # remote[b][i + 1].tree

================================================================================
