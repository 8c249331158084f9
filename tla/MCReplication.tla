--------------------------- MODULE MCReplication ---------------------------
\* Instances of Replication for TLC: two users who have rooms; one follows the
\* other, and leaves him again while he says something.
EXTENDS Replication

Login(u) == [op |-> "join", user |-> u, arg |-> u]
Follow == [op |-> "join", user |-> "ann", arg |-> "bob"]
Unfollow == [op |-> "leave", user |-> "ann", arg |-> "bob"]
Say == [op |-> "post", user |-> "bob", arg |-> "hello"]

Followed == <<Login("ann"), Login("bob"), Follow>>
LeaveAndSay == {Unfollow, Say}
=============================================================================
