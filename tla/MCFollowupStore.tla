--------------------------- MODULE MCFollowupStore ---------------------------
(* FollowupStore on a small instance.                                      *)
EXTENDS FollowupStore

CONSTANTS c1, c2, w, s1, s2

Request(chain, id, expected, payload) ==
  [chain |-> chain, id |-> id, expected |-> expected, payload |-> payload]

(* Two chains are created; of one, a request, a rival for its revision, its*)
(* retry at the next revision, and its id with another payload.            *)
Sent ==
  {Request(c, Creation, 0, "p") : c \in {c1, c2}}
  \cup {Request(c1, "r1", 0, "p"), Request(c1, "r2", 0, "q"), Request(c1, "r1", 1, "p"),
        Request(c1, "r1", 1, "q")}
=============================================================================
