SPECIFICATION Spec
CONSTANTS
  Publishers = {p1, p2}
  ShownBranches = {"master", "main"}
  Revisions = {1, 2}
  MaxCommits = 5
INVARIANTS
  PublishedIsKept
  HiddenAtMostOnce
  NoPagesTwiceInARow
