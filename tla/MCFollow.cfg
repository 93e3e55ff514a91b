\* Two followers, scheduled fairly, of a session that others write, end and
\* reconcile.  Events are recorded before the row ends, so that a terminal one is
\* also what any other event is to a follower until then.
SPECIFICATION FairSpec
CONSTANTS
  f1 = f1
  f2 = f2
  Follower <- TwoFollowers
  Type = {"completed", "crashed"}
  Terminal = {"completed", "crashed"}
  Crashed = "crashed"
  MaxEvents = 2
CHECK_DEADLOCK FALSE
INVARIANTS PrintsTheLog ShowsTheOutcome
PROPERTIES KeepsTheSession FollowersEnd
