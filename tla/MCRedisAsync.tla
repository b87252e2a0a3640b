---------------------------- MODULE MCRedisAsync ----------------------------
(* RedisAsync for TLC: up to two topics. *)
EXTENDS AsyncRefinement, TLC

CONSTANTS a, b

MCTopicLists == {<<a>>, <<b>>, <<a, b>>, <<b, a>>}

TopicSymmetry == Permutations({a, b})
=============================================================================
