---------------------------- MODULE MCAdvisoryLock ----------------------------
(***************************************************************************)
(* A small instance of AdvisoryLock for TLC: two instances with two        *)
(* connections each.  The LivePix sync and the licence sweep, s1 and s2,   *)
(* share lock l in the first, s3 takes it in the second, and s4 is a sync  *)
(* of the first with a lock of its own.                                    *)
(***************************************************************************)
EXTENDS AdvisoryLock

MCHomeOf == [x \in Runs \cup Conns |-> IF x \in {"b1", "b2", "s3"} THEN "b" ELSE "a"]

MCLockOf == [r \in Runs |-> IF r = "s4" THEN "m" ELSE "l"]
===============================================================================
