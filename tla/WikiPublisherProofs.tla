--------------------------- MODULE WikiPublisherProofs -------------------------
(* Proofs about WikiPublisher for any publishers, revisions and number of commits. *)
EXTENDS WikiPublisher, FiniteSetTheorems, SequenceTheorems, TLAPS

--------------------------------------------------------------------------------
(* The inductive invariant *)

Commits == [id : Nat, tree : Int]
Running == {"cloned", "written", "committed", "fallback"}

TypeOK ==
  /\ shown \in Branches
  /\ remote \in [Branches -> Seq(Commits)]
  /\ pc \in [Publishers -> Ended \union Running]
  /\ wiki \in [Publishers -> Seq(Commits)]
  /\ tree \in [Publishers -> Nat]
  /\ made \in Nat

\* The first n commits of a history are those of the shown branch.
Agrees(s, n) ==
  /\ n <= Len(remote[shown])
  /\ \A i \in 1..n : s[i] = remote[shown][i]

\* A clone is a part of the shown branch, and one commit on top of it.
ClonesOnTop ==
  \A p \in Publishers :
    /\ pc[p] \in {"cloned", "written"} =>
         wiki[p] # <<>> /\ Agrees(wiki[p], Len(wiki[p]))
    /\ pc[p] \in {"committed", "fallback"} =>
         wiki[p] # <<>> /\ Agrees(wiki[p], Len(wiki[p]) - 1)

\* So is every branch that clones are pushed to: only its last commit can be hidden.
BranchesOnTop ==
  \A b \in Branches : remote[b] # <<>> => Agrees(remote[b], Len(remote[b]) - 1)

\* No history has the same pages twice in a row, and the edit to come is new to it.
Sound(s, n) ==
  /\ \A i \in 1..Len(s) : s[i].tree >= -n
  /\ \A i \in 1 .. Len(s) - 1 : s[i].tree # s[i + 1].tree

HistoriesSound ==
  /\ \A b \in Branches : Sound(remote[b], made)
  /\ \A p \in Publishers : Sound(wiki[p], made)

IInv == TypeOK /\ ClonesOnTop /\ BranchesOnTop /\ HistoriesSound /\ PublishedIsKept

--------------------------------------------------------------------------------
(* Lemmas *)

\* A history consists of commits.
LEMMA CommitType ==
  ASSUME NEW s \in Seq(Commits), NEW i \in 1..Len(s)
  PROVE  s[i] \in Commits /\ s[i].id \in Nat /\ s[i].tree \in Int
<1>1. s[i] \in Commits
  OBVIOUS
<1>2. QED
  BY <1>1 DEF Commits

\* The prefix relation of histories, position by position.
LEMMA PrefixMeans ==
  ASSUME NEW s \in Seq(Commits), NEW t \in Seq(Commits)
  PROVE  IsPrefix(s, t) <=> Len(s) <= Len(t) /\ \A i \in 1..Len(s) : s[i] = t[i]
<1>1. Len(s) \in Nat /\ Len(t) \in Nat
  OBVIOUS
<1>2. ASSUME Len(s) <= Len(t)
      PROVE  /\ Len(SubSeq(s, 1, Len(s))) = Len(s) /\ Len(SubSeq(t, 1, Len(s))) = Len(s)
             /\ \A i \in 1..Len(s) : SubSeq(s, 1, Len(s))[i] = s[i]
                                     /\ SubSeq(t, 1, Len(s))[i] = t[i]
             /\ SubSeq(s, 1, Len(s)) \in Seq(Commits) /\ SubSeq(t, 1, Len(s)) \in Seq(Commits)
  BY <1>1, <1>2
<1>3. ASSUME IsPrefix(s, t) PROVE Len(s) <= Len(t) /\ \A i \in 1..Len(s) : s[i] = t[i]
  <2>1. Len(s) <= Len(t) /\ SubSeq(s, 1, Len(s)) = SubSeq(t, 1, Len(s))
    BY <1>3 DEF IsPrefix
  <2>2. \A i \in 1..Len(s) : SubSeq(s, 1, Len(s))[i] = s[i] /\ SubSeq(t, 1, Len(s))[i] = t[i]
    BY <1>2, <2>1
  <2>3. QED
    BY <2>1, <2>2
<1>4. ASSUME Len(s) <= Len(t), \A i \in 1..Len(s) : s[i] = t[i] PROVE IsPrefix(s, t)
  <2>1. SubSeq(s, 1, Len(s)) = SubSeq(t, 1, Len(s))
    BY <1>1, <1>2, <1>4
  <2>2. QED
    BY <1>4, <2>1 DEF IsPrefix
<1>5. QED
  BY <1>3, <1>4

\* A commit on top of a history.
LEMMA CommitOnTop ==
  ASSUME NEW s \in Seq(Commits), NEW c \in Commits
  PROVE  /\ Append(s, c) \in Seq(Commits) /\ Append(s, c) # <<>>
         /\ Len(s) \in Nat /\ Len(Append(s, c)) = Len(s) + 1
         /\ \A i \in 1..Len(s) : Append(s, c)[i] = s[i]
         /\ Append(s, c)[Len(s) + 1] = c
         /\ IsPrefix(s, Append(s, c))
<1>1. /\ Append(s, c) \in Seq(Commits) /\ Append(s, c) # <<>>
      /\ Len(s) \in Nat /\ Len(Append(s, c)) = Len(s) + 1
      /\ \A i \in 1..Len(s) : Append(s, c)[i] = s[i]
      /\ Append(s, c)[Len(s) + 1] = c
  BY AppendProperties
<1>2. Len(s) <= Len(Append(s, c))
  BY <1>1
<1>3. IsPrefix(s, Append(s, c))
  BY <1>1, <1>2, PrefixMeans
<1>4. QED
  BY <1>1, <1>3

\* Commits with other pages than the last one keep a history sound.
LEMMA SoundOnTop ==
  ASSUME NEW s \in Seq(Commits), NEW c \in Commits, NEW n \in Nat, Sound(s, n),
         c.tree >= -(n + 1), s # <<>> => Last(s).tree # c.tree
  PROVE  Sound(Append(s, c), n + 1)
<1> DEFINE t == Append(s, c)
<1> HIDE DEF t
<1>1. /\ t \in Seq(Commits) /\ Len(s) \in Nat /\ Len(t) = Len(s) + 1
      /\ \A i \in 1..Len(s) : t[i] = s[i]
      /\ t[Len(s) + 1] = c
  BY CommitOnTop DEF t
<1>2. \A i \in 1..Len(s) : s[i].tree \in Int /\ s[i].tree >= -n
  BY CommitType DEF Sound
<1>3. \A i \in 1..Len(t) : t[i].tree >= -(n + 1)
  <2>1. ASSUME NEW i \in 1..Len(t) PROVE t[i].tree >= -(n + 1)
    <3>1. CASE i = Len(s) + 1
      BY <1>1, <3>1
    <3>2. CASE i \in 1..Len(s)
      BY <1>1, <1>2, <3>2
    <3>3. QED
      BY <1>1, <3>1, <3>2
  <2>2. QED
    BY <2>1
<1>4. \A i \in 1 .. Len(t) - 1 : t[i].tree # t[i + 1].tree
  <2>1. ASSUME NEW i \in 1 .. Len(t) - 1 PROVE t[i].tree # t[i + 1].tree
    <3>1. CASE i = Len(s)
      <4>1. s # <<>>
        BY <1>1, <3>1
      <4>2. QED
        BY <1>1, <3>1, <4>1 DEF Last
    <3>2. CASE i \in 1 .. Len(s) - 1
      BY <1>1, <3>2 DEF Sound
    <3>3. QED
      BY <1>1, <3>1, <3>2
  <2>2. QED
    BY <2>1
<1>5. QED
  BY <1>3, <1>4 DEF Sound, t

\* What is sound now is sound when more commits have been made.
LEMMA SoundLater ==
  ASSUME NEW s \in Seq(Commits), NEW n \in Nat, NEW m \in Nat, n <= m, Sound(s, n)
  PROVE  Sound(s, m)
<1>1. \A i \in 1..Len(s) : s[i].tree \in Int
  BY CommitType
<1>2. QED
  BY <1>1 DEF Sound

--------------------------------------------------------------------------------
(* What a step does to the remote, and to a clone *)

\* The remote gets an edit or the clone of a run that has committed, or nothing.
LEMMA RemoteMoves ==
  ASSUME TypeOK, [Next]_vars
  PROVE  \/ remote' = remote
         \/ WebEdit
         \/ \E b \in Branches, p \in Publishers :
              pc[p] \in {"committed", "fallback"} /\ Advance(b, p)
<1>1. CASE UNCHANGED vars
  BY <1>1 DEF vars
<1>2. ASSUME NEW p \in Publishers,
             \/ Clone(p) \/ CloneFails(p) \/ WritePages(p)
             \/ UpToDate(p) \/ Commit(p) \/ Raises(p)
      PROVE  remote' = remote
  BY <1>2 DEF Clone, CloneFails, WritePages, UpToDate, Commit, Raises
<1>3. ASSUME NEW p \in Publishers,
             PushMaster(p) \/ MasterNotPushed(p) \/ PushMain(p) \/ MainNotPushed(p)
      PROVE  \/ remote' = remote
             \/ \E b \in Branches : pc[p] \in {"committed", "fallback"} /\ Advance(b, p)
  BY <1>3 DEF PushMaster, MasterNotPushed, PushMain, MainNotPushed, Branches
<1>4. QED
  BY <1>1, <1>2, <1>3 DEF Next

\* A clone is taken, gets a commit, goes with its run, or stays as it is.
LEMMA CloneMoves ==
  ASSUME TypeOK, [Next]_vars, NEW p \in Publishers
  PROVE  \/ wiki'[p] = <<>> /\ pc'[p] \in Ended
         \/ /\ wiki'[p] = wiki[p]
            /\ \/ pc'[p] = pc[p]
               \/ pc[p] = "cloned" /\ pc'[p] = "written"
               \/ pc[p] = "committed" /\ pc'[p] = "fallback"
         \/ /\ remote[shown] # <<>> /\ wiki'[p] = remote[shown] /\ pc'[p] = "cloned"
         \/ /\ pc[p] = "written" /\ pc'[p] = "committed" /\ made' = made + 1
            /\ ~Clean(p)
            /\ wiki'[p] = Append(wiki[p], [id |-> made + 1, tree |-> tree[p]])
<1> USE DEF TypeOK
<1>1. CASE UNCHANGED vars
  BY <1>1 DEF vars
<1>2. CASE WebEdit
  BY <1>2 DEF WebEdit
<1>3. ASSUME NEW q \in Publishers, NEW how \in Ended, End(q, how)
      PROVE  \/ wiki'[p] = <<>> /\ pc'[p] \in Ended
             \/ wiki'[p] = wiki[p] /\ pc'[p] = pc[p]
  BY <1>3 DEF End
<1>4. ASSUME NEW q \in Publishers,
             \/ CloneFails(q) \/ UpToDate(q) \/ Raises(q) \/ PushMaster(q) \/ PushMain(q)
             \/ MainNotPushed(q)
      PROVE  \/ wiki'[p] = <<>> /\ pc'[p] \in Ended
             \/ wiki'[p] = wiki[p] /\ pc'[p] = pc[p]
  <2>1. \E how \in Ended : End(q, how)
    BY <1>4 DEF CloneFails, UpToDate, Raises, PushMaster, PushMain, MainNotPushed, Published, Ended
  <2>2. QED
    BY <1>3, <2>1
<1>5. ASSUME NEW q \in Publishers, Clone(q)
      PROVE  \/ wiki'[p] = wiki[p] /\ pc'[p] = pc[p]
             \/ remote[shown] # <<>> /\ wiki'[p] = remote[shown] /\ pc'[p] = "cloned"
  BY <1>5 DEF Clone
<1>6. ASSUME NEW q \in Publishers, WritePages(q)
      PROVE  /\ wiki'[p] = wiki[p]
             /\ \/ pc'[p] = pc[p]
                \/ pc[p] = "cloned" /\ pc'[p] = "written"
  BY <1>6 DEF WritePages, Running
<1>7. ASSUME NEW q \in Publishers, MasterNotPushed(q)
      PROVE  /\ wiki'[p] = wiki[p]
             /\ \/ pc'[p] = pc[p]
                \/ pc[p] = "committed" /\ pc'[p] = "fallback"
  BY <1>7 DEF MasterNotPushed, Running
<1>8. ASSUME NEW q \in Publishers, Commit(q)
      PROVE  \/ wiki'[p] = wiki[p] /\ pc'[p] = pc[p]
             \/ /\ pc[p] = "written" /\ pc'[p] = "committed" /\ made' = made + 1
                /\ ~Clean(p)
                /\ wiki'[p] = Append(wiki[p], [id |-> made + 1, tree |-> tree[p]])
  BY <1>8 DEF Commit
<1>9. QED
  BY <1>1, <1>2, <1>4, <1>5, <1>6, <1>7, <1>8 DEF Next

\* The shown branch stays the same, commits are only ever made, and a run reads
\* revisions of docs/.
LEMMA Frame ==
  ASSUME TypeOK, [Next]_vars
  PROVE  /\ shown' = shown
         /\ made' \in Nat /\ made <= made'
         /\ tree' \in [Publishers -> Nat]
         /\ pc' \in [Publishers -> Ended \union Running]
<1> USE DEF TypeOK
<1>1. shown' = shown
  BY DEF Next, vars, WebEdit, Clone, CloneFails, WritePages, UpToDate, Commit, Raises, PushMaster,
         MasterNotPushed, PushMain, MainNotPushed
<1>2. made' = made \/ made' = made + 1
  BY DEF Next, vars, WebEdit, Clone, CloneFails, WritePages, UpToDate, Commit, Raises, PushMaster,
         MasterNotPushed, PushMain, MainNotPushed
<1>3. tree' \in [Publishers -> Nat]
  <2>1. ASSUME NEW p \in Publishers, NEW how, End(p, how) PROVE tree' \in [Publishers -> Nat]
    BY <2>1 DEF End, NoTree
  <2>2. ASSUME NEW p \in Publishers, WritePages(p) PROVE tree' \in [Publishers -> Nat]
    <3>1. PICK r \in Revisions : tree' = [tree EXCEPT ![p] = r]
      BY <2>2 DEF WritePages
    <3>2. r \in Nat
      BY WikiAssumption
    <3>3. QED
      BY <3>1, <3>2
  <2>3. ASSUME NEW p \in Publishers,
               \/ CloneFails(p) \/ UpToDate(p) \/ Raises(p) \/ PushMaster(p) \/ PushMain(p)
               \/ MainNotPushed(p)
        PROVE  tree' \in [Publishers -> Nat]
    BY <2>1, <2>3 DEF CloneFails, UpToDate, Raises, PushMaster, PushMain, MainNotPushed, Published
  <2>4. ASSUME NEW p \in Publishers, Clone(p) \/ Commit(p) \/ MasterNotPushed(p)
        PROVE  tree' = tree
    BY <2>4 DEF Clone, Commit, MasterNotPushed
  <2>5. CASE WebEdit \/ UNCHANGED vars
    BY <2>5 DEF WebEdit, vars
  <2>6. QED
    BY <2>2, <2>3, <2>4, <2>5 DEF Next
<1>4. pc' \in [Publishers -> Ended \union Running]
  BY DEF Next, vars, WebEdit, Clone, CloneFails, WritePages, UpToDate, Commit, Raises, PushMaster,
         MasterNotPushed, PushMain, MainNotPushed, Published, End, Ended, Running
<1>5. QED
  BY <1>1, <1>2, <1>3, <1>4

\* What someone does in the browser: a commit on the shown branch, of its own pages.
LEMMA EditMoves ==
  ASSUME TypeOK, WebEdit
  PROVE  /\ made' = made + 1
         /\ \E c \in Commits : /\ c.tree = -(made + 1)
                              /\ remote'[shown] = Append(remote[shown], c)
         /\ \A b \in Branches \ {shown} : remote'[b] = remote[b]
         /\ remote' \in [Branches -> Seq(Commits)]
<1> DEFINE c == [id |-> made + 1, tree |-> -(made + 1)]
<1>1. made' = made + 1 /\ c \in Commits /\ c.tree = -(made + 1)
  BY DEF TypeOK, WebEdit, Commits
<1>2. remote' = [remote EXCEPT ![shown] = Append(remote[shown], c)]
  BY <1>1 DEF WebEdit
<1> HIDE DEF c
<1>3. remote[shown] \in Seq(Commits) /\ Append(remote[shown], c) \in Seq(Commits)
  BY <1>1, CommitOnTop DEF TypeOK
<1>4. remote' \in [Branches -> Seq(Commits)] /\ remote'[shown] = Append(remote[shown], c)
  BY <1>2, <1>3 DEF TypeOK
<1>5. QED
  BY <1>1, <1>2, <1>4 DEF TypeOK

\* Pages, clones and branches keep their types.
LEMMA TypeStep ==
  ASSUME TypeOK, [Next]_vars
  PROVE  TypeOK'
<1>1. remote' \in [Branches -> Seq(Commits)]
  <2>1. CASE WebEdit
    BY <2>1, EditMoves
  <2>2. ASSUME NEW b \in Branches, NEW p \in Publishers, Advance(b, p)
        PROVE  remote' \in [Branches -> Seq(Commits)]
    BY <2>2 DEF Advance, TypeOK
  <2>3. CASE remote' = remote
    BY <2>3 DEF TypeOK
  <2>4. QED
    BY <2>1, <2>2, <2>3, RemoteMoves
<1>2. wiki' \in [Publishers -> Seq(Commits)]
  <2>1. ASSUME NEW p \in Publishers, NEW how, End(p, how)
        PROVE  wiki' \in [Publishers -> Seq(Commits)]
    BY <2>1 DEF End, TypeOK
  <2>2. ASSUME NEW p \in Publishers,
               \/ CloneFails(p) \/ UpToDate(p) \/ Raises(p) \/ PushMaster(p) \/ PushMain(p)
               \/ MainNotPushed(p)
        PROVE  wiki' \in [Publishers -> Seq(Commits)]
    BY <2>1, <2>2 DEF CloneFails, UpToDate, Raises, PushMaster, PushMain, MainNotPushed, Published
  <2>3. ASSUME NEW p \in Publishers, Clone(p)
        PROVE  wiki' \in [Publishers -> Seq(Commits)]
    BY <2>3 DEF Clone, TypeOK
  <2>4. ASSUME NEW p \in Publishers, Commit(p)
        PROVE  wiki' \in [Publishers -> Seq(Commits)]
    <3>1. /\ wiki' = [wiki EXCEPT ![p] = Append(wiki[p], [id |-> made + 1, tree |-> tree[p]])]
          /\ [id |-> made + 1, tree |-> tree[p]] \in Commits
      BY <2>4 DEF Commit, TypeOK, Commits
    <3>2. QED
      BY <3>1, CommitOnTop DEF TypeOK
  <2>5. ASSUME NEW p \in Publishers, WritePages(p) \/ MasterNotPushed(p)
        PROVE  wiki' = wiki
    BY <2>5 DEF WritePages, MasterNotPushed
  <2>6. CASE WebEdit \/ UNCHANGED vars
    BY <2>6 DEF WebEdit, vars, TypeOK
  <2>7. QED
    BY <2>2, <2>3, <2>4, <2>5, <2>6 DEF Next, TypeOK
<1>3. QED
  BY <1>1, <1>2, Frame DEF TypeOK

\* No commit leaves a branch.
LEMMA BranchesGrow ==
  ASSUME TypeOK, [Next]_vars, NEW b \in Branches
  PROVE  /\ IsPrefix(remote[b], remote'[b])
         /\ Len(remote[b]) \in Nat /\ Len(remote'[b]) \in Nat
         /\ Len(remote[b]) <= Len(remote'[b])
         /\ \A i \in 1..Len(remote[b]) : remote'[b][i] = remote[b][i]
<1>1. remote[b] \in Seq(Commits) /\ remote'[b] \in Seq(Commits)
  BY TypeStep DEF TypeOK
<1>2. IsPrefix(remote[b], remote'[b])
  <2>1. CASE remote'[b] = remote[b]
    BY <1>1, <2>1, PrefixMeans
  <2>2. CASE WebEdit /\ b = shown
    <3>1. PICK c \in Commits : remote'[b] = Append(remote[b], c)
      BY <2>2, EditMoves
    <3>2. QED
      BY <1>1, <3>1, CommitOnTop
  <2>3. CASE WebEdit /\ b # shown
    BY <2>1, <2>3, EditMoves DEF TypeOK
  <2>4. ASSUME NEW c \in Branches, NEW p \in Publishers, Advance(c, p)
        PROVE  IsPrefix(remote[b], remote'[b])
    <3>1. CASE b = c
      BY <2>4, <3>1 DEF Advance, Forward, TypeOK
    <3>2. CASE b # c
      BY <2>1, <2>4, <3>2 DEF Advance, TypeOK
    <3>3. QED
      BY <3>1, <3>2
  <2>5. QED
    BY <2>1, <2>2, <2>3, <2>4, RemoteMoves
<1>3. QED
  BY <1>1, <1>2, PrefixMeans

\* What agrees with the shown branch goes on to do so.
LEMMA AgreesOn ==
  ASSUME TypeOK, [Next]_vars, NEW s, NEW n \in Int, Agrees(s, n)
  PROVE  /\ n <= Len(remote'[shown])
         /\ \A i \in 1..n : s[i] = remote'[shown][i]
<1>1. shown \in Branches
  BY DEF TypeOK
<1>2. /\ Len(remote[shown]) \in Nat /\ Len(remote'[shown]) \in Nat
      /\ Len(remote[shown]) <= Len(remote'[shown])
      /\ \A i \in 1..Len(remote[shown]) : remote'[shown][i] = remote[shown][i]
  BY <1>1, BranchesGrow
<1>3. QED
  BY <1>2 DEF Agrees

--------------------------------------------------------------------------------
(* The steps *)

\* A run works on a clone of the shown branch, which others only add to.
LEMMA ClonesStep ==
  ASSUME IInv, [Next]_vars
  PROVE  ClonesOnTop'
<1> SUFFICES ASSUME NEW p \in Publishers
             PROVE  (/\ pc[p] \in {"cloned", "written"} =>
                          wiki[p] # <<>> /\ Agrees(wiki[p], Len(wiki[p]))
                     /\ pc[p] \in {"committed", "fallback"} =>
                          wiki[p] # <<>> /\ Agrees(wiki[p], Len(wiki[p]) - 1))'
  BY DEF ClonesOnTop
<1>1. /\ TypeOK /\ shown' = shown /\ shown \in Branches
      /\ wiki[p] \in Seq(Commits) /\ Len(wiki[p]) \in Nat
      /\ remote[shown] \in Seq(Commits) /\ Len(remote[shown]) \in Nat
  BY Frame DEF IInv, TypeOK
<1>2. CASE wiki'[p] = <<>> /\ pc'[p] \in Ended
  BY <1>2 DEF Ended
<1>3. CASE /\ wiki'[p] = wiki[p]
           /\ \/ pc'[p] = pc[p]
              \/ pc[p] = "cloned" /\ pc'[p] = "written"
              \/ pc[p] = "committed" /\ pc'[p] = "fallback"
  <2>1. ASSUME pc'[p] \in {"cloned", "written"}
        PROVE  wiki[p] # <<>> /\ Agrees(wiki[p], Len(wiki[p]))'
    <3>1. wiki[p] # <<>> /\ Agrees(wiki[p], Len(wiki[p]))
      BY <1>3, <2>1 DEF IInv, ClonesOnTop
    <3>2. /\ Len(wiki[p]) <= Len(remote'[shown])
          /\ \A i \in 1..Len(wiki[p]) : wiki[p][i] = remote'[shown][i]
      BY <1>1, <3>1, AgreesOn
    <3>3. QED
      BY <1>1, <1>3, <3>1, <3>2 DEF Agrees
  <2>2. ASSUME pc'[p] \in {"committed", "fallback"}
        PROVE  wiki[p] # <<>> /\ Agrees(wiki[p], Len(wiki[p]) - 1)'
    <3>1. wiki[p] # <<>> /\ Agrees(wiki[p], Len(wiki[p]) - 1)
      BY <1>3, <2>2 DEF IInv, ClonesOnTop
    <3>2. /\ Len(wiki[p]) - 1 <= Len(remote'[shown])
          /\ \A i \in 1 .. Len(wiki[p]) - 1 : wiki[p][i] = remote'[shown][i]
      <4>1. Len(wiki[p]) - 1 \in Int
        BY <1>1
      <4>2. QED
        BY <1>1, <3>1, <4>1, AgreesOn
    <3>3. QED
      BY <1>1, <1>3, <3>1, <3>2 DEF Agrees
  <2>3. QED
    BY <1>3, <2>1, <2>2
<1>4. CASE remote[shown] # <<>> /\ wiki'[p] = remote[shown] /\ pc'[p] = "cloned"
  <2>1. Agrees(remote[shown], Len(remote[shown]))
    BY <1>1 DEF Agrees
  <2>2. /\ Len(remote[shown]) <= Len(remote'[shown])
        /\ \A i \in 1..Len(remote[shown]) : remote[shown][i] = remote'[shown][i]
    BY <1>1, <2>1, AgreesOn
  <2>3. Agrees(wiki[p], Len(wiki[p]))'
    BY <1>1, <1>4, <2>2 DEF Agrees
  <2>4. QED
    BY <1>4, <2>3
<1>5. CASE /\ pc[p] = "written" /\ pc'[p] = "committed"
           /\ wiki'[p] = Append(wiki[p], [id |-> made + 1, tree |-> tree[p]])
  <2>1. [id |-> made + 1, tree |-> tree[p]] \in Commits
    BY DEF IInv, TypeOK, Commits
  <2>2. /\ wiki'[p] # <<>> /\ Len(wiki'[p]) = Len(wiki[p]) + 1
        /\ \A i \in 1..Len(wiki[p]) : wiki'[p][i] = wiki[p][i]
    BY <1>1, <1>5, <2>1, CommitOnTop
  <2>3. Agrees(wiki[p], Len(wiki[p]))
    BY <1>5 DEF IInv, ClonesOnTop
  <2>4. /\ Len(wiki[p]) <= Len(remote'[shown])
        /\ \A i \in 1..Len(wiki[p]) : wiki[p][i] = remote'[shown][i]
    BY <1>1, <2>3, AgreesOn
  <2>5. Len(wiki'[p]) - 1 = Len(wiki[p])
    BY <1>1, <2>2
  <2>6. Agrees(wiki[p], Len(wiki[p]) - 1)'
    BY <1>1, <2>2, <2>4, <2>5 DEF Agrees
  <2>7. QED
    BY <1>5, <2>2, <2>6
<1>6. QED
  BY <1>1, <1>2, <1>3, <1>4, <1>5, CloneMoves

\* A branch is moved to a clone, or gets one commit while it is the shown one.
LEMMA BranchesStep ==
  ASSUME IInv, [Next]_vars
  PROVE  BranchesOnTop'
<1> SUFFICES ASSUME NEW b \in Branches, remote'[b] # <<>>
             PROVE  Agrees(remote[b], Len(remote[b]) - 1)'
  BY DEF BranchesOnTop
<1>1. TypeOK /\ shown' = shown /\ shown \in Branches /\ TypeOK'
  BY Frame, TypeStep DEF IInv, TypeOK
<1>2. remote[b] \in Seq(Commits) /\ remote'[b] \in Seq(Commits)
  BY <1>1 DEF TypeOK
<1>3. CASE b = shown
  BY <1>1, <1>2, <1>3 DEF Agrees
<1>4. CASE remote'[b] = remote[b]
  <2>1. Agrees(remote[b], Len(remote[b]) - 1)
    BY <1>4 DEF IInv, BranchesOnTop
  <2>2. Len(remote[b]) - 1 \in Int
    BY <1>2
  <2>3. /\ Len(remote[b]) - 1 <= Len(remote'[shown])
        /\ \A i \in 1 .. Len(remote[b]) - 1 : remote[b][i] = remote'[shown][i]
    BY <1>1, <2>1, <2>2, AgreesOn
  <2>4. QED
    BY <1>1, <1>4, <2>3 DEF Agrees
<1>5. CASE WebEdit /\ b # shown
  BY <1>1, <1>4, <1>5, EditMoves DEF TypeOK
<1>6. ASSUME NEW c \in Branches, NEW p \in Publishers, Advance(c, p),
             pc[p] \in {"committed", "fallback"}
      PROVE  Agrees(remote[b], Len(remote[b]) - 1)'
  <2>1. CASE b = c
    <3>1. remote'[b] = wiki[p] /\ wiki[p] \in Seq(Commits)
      BY <1>1, <1>6, <2>1 DEF Advance, TypeOK
    <3>2. Agrees(wiki[p], Len(wiki[p]) - 1)
      BY <1>6 DEF IInv, ClonesOnTop
    <3>3. Len(wiki[p]) - 1 \in Int
      BY <3>1
    <3>4. /\ Len(wiki[p]) - 1 <= Len(remote'[shown])
          /\ \A i \in 1 .. Len(wiki[p]) - 1 : wiki[p][i] = remote'[shown][i]
      BY <1>1, <3>2, <3>3, AgreesOn
    <3>5. QED
      BY <1>1, <3>1, <3>4 DEF Agrees
  <2>2. CASE b # c
    BY <1>1, <1>4, <1>6, <2>2 DEF Advance, TypeOK
  <2>3. QED
    BY <2>1, <2>2
<1>7. QED
  BY <1>1, <1>3, <1>4, <1>5, <1>6, RemoteMoves

\* An edit is new, a commit is made of pages that differ from the last ones, and a
\* push copies a history.
LEMMA SoundStep ==
  ASSUME IInv, [Next]_vars
  PROVE  HistoriesSound'
<1>1. /\ TypeOK /\ made \in Nat /\ made' \in Nat /\ made <= made' /\ shown \in Branches
      /\ \A b \in Branches : remote[b] \in Seq(Commits) /\ Sound(remote[b], made)
      /\ \A p \in Publishers : wiki[p] \in Seq(Commits) /\ Sound(wiki[p], made)
  BY Frame DEF IInv, TypeOK, HistoriesSound
<1>2. ASSUME NEW s \in Seq(Commits), Sound(s, made) PROVE Sound(s, made')
  BY <1>1, <1>2, SoundLater
<1>3. ASSUME NEW b \in Branches PROVE Sound(remote'[b], made')
  <2>1. CASE remote'[b] = remote[b]
    BY <1>1, <1>2, <2>1
  <2>2. CASE WebEdit /\ b = shown
    <3>1. PICK c \in Commits : c.tree = -(made + 1) /\ remote'[b] = Append(remote[b], c)
      BY <1>1, <2>2, EditMoves
    <3>2. made' = made + 1
      BY <1>1, <2>2, EditMoves
    <3>3. remote[b] # <<>> => Last(remote[b]).tree # c.tree
      <4>1. SUFFICES ASSUME remote[b] # <<>> PROVE Last(remote[b]).tree # c.tree
        OBVIOUS
      <4>2. remote[b] \in Seq(Commits)
        BY <1>1
      <4>3. Len(remote[b]) \in 1..Len(remote[b])
        BY <4>1, <4>2
      <4>4. Last(remote[b]).tree \in Int /\ Last(remote[b]).tree >= -made
        BY <1>1, <4>2, <4>3, CommitType DEF Last, Sound
      <4>5. QED
        BY <1>1, <3>1, <4>4
    <3>4. c.tree >= -(made + 1)
      BY <1>1, <3>1
    <3>5. QED
      BY <1>1, <3>1, <3>2, <3>3, <3>4, SoundOnTop
  <2>3. CASE WebEdit /\ b # shown
    BY <1>1, <2>1, <2>3, EditMoves
  <2>4. ASSUME NEW c \in Branches, NEW p \in Publishers, Advance(c, p)
        PROVE  Sound(remote'[b], made')
    <3>1. remote'[b] = wiki[p] \/ remote'[b] = remote[b]
      BY <1>1, <2>4 DEF Advance, TypeOK
    <3>2. QED
      BY <1>1, <1>2, <3>1
  <2>5. QED
    BY <1>1, <2>1, <2>2, <2>3, <2>4, RemoteMoves
<1>4. ASSUME NEW p \in Publishers PROVE Sound(wiki'[p], made')
  <2>1. CASE wiki'[p] = <<>>
    BY <2>1 DEF Sound
  <2>2. CASE wiki'[p] = wiki[p] \/ wiki'[p] = remote[shown]
    BY <1>1, <1>2, <2>2
  <2>3. CASE /\ made' = made + 1 /\ ~Clean(p)
             /\ wiki'[p] = Append(wiki[p], [id |-> made + 1, tree |-> tree[p]])
    <3>1. PICK c \in Commits : c.tree = tree[p] /\ wiki'[p] = Append(wiki[p], c)
      <4>1. [id |-> made + 1, tree |-> tree[p]] \in Commits
        BY <1>1 DEF TypeOK, Commits
      <4>2. QED
        BY <2>3, <4>1
    <3>2. Last(wiki[p]).tree # c.tree
      BY <2>3, <3>1 DEF Clean
    <3>3. c.tree >= -(made + 1)
      BY <1>1, <3>1 DEF TypeOK
    <3>4. QED
      BY <1>1, <2>3, <3>1, <3>2, <3>3, SoundOnTop
  <2>4. QED
    BY <1>1, <2>1, <2>2, <2>3, CloneMoves
<1>5. QED
  BY <1>3, <1>4 DEF HistoriesSound

\* "Published" is said of the last commit of a clone that a branch has been moved to.
LEMMA PublishedStep ==
  ASSUME IInv, [Next]_vars
  PROVE  PublishedIsKept'
<1>1. TypeOK
  BY DEF IInv
<1>2. \/ published' = published
      \/ \E b \in Branches, p \in Publishers :
           /\ pc[p] \in {"committed", "fallback"} /\ Advance(b, p)
           /\ published' = published \union {Last(wiki[p]).id}
  <2>1. ASSUME NEW p \in Publishers, PushMaster(p) \/ PushMain(p)
        PROVE  \E b \in Branches :
                 /\ pc[p] \in {"committed", "fallback"} /\ Advance(b, p)
                 /\ published' = published \union {Last(wiki[p]).id}
    BY <2>1 DEF PushMaster, PushMain, Published, Branches
  <2>2. ASSUME NEW p \in Publishers,
               \/ Clone(p) \/ CloneFails(p) \/ WritePages(p) \/ UpToDate(p) \/ Commit(p)
               \/ Raises(p) \/ MasterNotPushed(p) \/ MainNotPushed(p)
        PROVE  published' = published
    BY <2>2 DEF Clone, CloneFails, WritePages, UpToDate, Commit, Raises, MasterNotPushed,
                MainNotPushed
  <2>3. CASE WebEdit \/ UNCHANGED vars
    BY <2>3 DEF WebEdit, vars
  <2>4. QED
    BY <2>1, <2>2, <2>3 DEF Next
<1>3. ASSUME NEW b \in Branches PROVE Ids(b) \subseteq Ids(b)'
  <2>1. remote[b] \in Seq(Commits) /\ remote'[b] \in Seq(Commits)
    BY <1>1, TypeStep DEF TypeOK
  <2>2. /\ DOMAIN remote[b] = 1..Len(remote[b]) /\ DOMAIN remote'[b] = 1..Len(remote'[b])
        /\ DOMAIN remote[b] \subseteq DOMAIN remote'[b]
        /\ \A i \in DOMAIN remote[b] : remote'[b][i] = remote[b][i]
    BY <1>1, <2>1, BranchesGrow
  <2>3. QED
    BY <2>2 DEF Ids
<1>4. published \subseteq Ids("master")' \union Ids("main")'
  BY <1>3 DEF IInv, PublishedIsKept, Branches
<1>5. ASSUME NEW b \in Branches, NEW p \in Publishers,
             pc[p] \in {"committed", "fallback"}, Advance(b, p)
      PROVE  Last(wiki[p]).id \in Ids(b)'
  <2>1. wiki[p] # <<>> /\ wiki[p] \in Seq(Commits) /\ remote'[b] = wiki[p]
    BY <1>1, <1>5 DEF IInv, ClonesOnTop, TypeOK, Advance
  <2>2. Len(wiki[p]) \in DOMAIN wiki[p]
    BY <2>1
  <2>3. QED
    BY <2>1, <2>2 DEF Ids, Last
<1>6. QED
  BY <1>2, <1>4, <1>5 DEF PublishedIsKept, Branches

\* Nothing has been made or said.
LEMMA InitInv == Init => IInv
<1> SUFFICES ASSUME Init PROVE IInv
  OBVIOUS
<1>1. TypeOK
  <2>1. <<>> \in Seq(Commits)
    OBVIOUS
  <2>2. QED
    BY <2>1, WikiAssumption DEF Init, TypeOK, NoTree, Ended
<1>2. ClonesOnTop /\ BranchesOnTop
  BY DEF Init, ClonesOnTop, BranchesOnTop
<1>3. Sound(<<>>, 0)
  BY DEF Sound
<1>4. HistoriesSound
  BY <1>3 DEF Init, HistoriesSound
<1>5. PublishedIsKept
  BY DEF Init, PublishedIsKept
<1>6. QED
  BY <1>1, <1>2, <1>4, <1>5 DEF IInv

--------------------------------------------------------------------------------
(* Theorems *)

\* Clones and branches stay on top of the shown branch, for any number of runs at once.
THEOREM WikiInv == Spec => []IInv
<1>1. IInv /\ [Next]_vars => IInv'
  BY TypeStep, ClonesStep, BranchesStep, SoundStep, PublishedStep DEF IInv
<1>2. QED
  BY <1>1, InitInv, PTL DEF Spec

\* A run that exits with 0 after a push has its pages in the remote, now and later.
THEOREM PublishedStays == Spec => []PublishedIsKept
<1>1. IInv => PublishedIsKept
  BY DEF IInv
<1>2. QED
  BY <1>1, WikiInv, PTL

\* No push puts on a branch the pages that the branch already ends with, whenever the
\* run compared its pages with its clone.
THEOREM RerunsAreIdle == Spec => []NoPagesTwiceInARow
<1>1. IInv => NoPagesTwiceInARow
  BY DEF IInv, HistoriesSound, Sound, NoPagesTwiceInARow
<1>2. QED
  BY <1>1, WikiInv, PTL

\* However many publish, at most one of the commits called published is not shown.
THEOREM OneHidden == Spec => []HiddenAtMostOnce
<1>1. ASSUME IInv PROVE HiddenAtMostOnce
  <2>1. /\ shown \in Branches
        /\ \A b \in Branches : remote[b] \in Seq(Commits)
    BY <1>1 DEF IInv, TypeOK
  <2>2. PICK h \in Branches : h # shown /\ \A b \in Branches : b # shown => b = h
    BY <2>1 DEF Branches
  <2>3. ASSUME NEW c \in published \ Ids(shown) PROVE c = Last(remote[h]).id
    <3>1. c \in Ids(h)
      BY <1>1, <2>2, <2>3 DEF IInv, PublishedIsKept, Branches
    <3>2. PICK i \in 1..Len(remote[h]) : c = remote[h][i].id
      BY <2>1, <3>1 DEF Ids
    <3>3. remote[h] # <<>> /\ Len(remote[h]) \in Nat
      BY <2>1, <3>2
    <3>4. CASE i \in 1 .. Len(remote[h]) - 1
      <4>1. Agrees(remote[h], Len(remote[h]) - 1)
        BY <1>1, <3>3 DEF IInv, BranchesOnTop
      <4>2. i \in 1..Len(remote[shown]) /\ remote[h][i] = remote[shown][i]
        BY <2>1, <3>3, <3>4, <4>1 DEF Agrees
      <4>3. QED
        BY <2>1, <2>3, <3>2, <4>2 DEF Ids
    <3>5. CASE i = Len(remote[h])
      BY <3>2, <3>5 DEF Last
    <3>6. QED
      BY <3>2, <3>3, <3>4, <3>5
  <2>4. published \ Ids(shown) \subseteq {Last(remote[h]).id}
    BY <2>3
  <2>5. IsFiniteSet({}) /\ Cardinality({}) = 0
    BY FS_EmptySet
  <2>6. ASSUME NEW x PROVE Cardinality({x}) = 1
    <3>1. Cardinality({} \union {x}) = IF x \in {} THEN Cardinality({}) ELSE Cardinality({}) + 1
      BY <2>5, FS_AddElement
    <3>2. {} \union {x} = {x} /\ x \notin {}
      OBVIOUS
    <3>3. QED
      BY <2>5, <3>1, <3>2
  <2>7. published \ Ids(shown) = {} \/ published \ Ids(shown) = {Last(remote[h]).id}
    BY <2>4
  <2>8. QED
    BY <2>5, <2>6, <2>7 DEF HiddenAtMostOnce
<1>2. QED
  BY <1>1, WikiInv, PTL

================================================================================
