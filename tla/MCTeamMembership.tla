-------------------------- MODULE MCTeamMembership --------------------------
(***************************************************************************)
(* Instances of TeamMembership for TLC.                                    *)
(***************************************************************************)
EXTENDS TeamMembership

CONSTANTS u1, u2, u3

\* A team of three admins, one of an admin and a member, and one without members.
MCSeed == {[u \in User |-> "admin"],
           [u \in User |-> CASE u = u1 -> "admin" [] u = u2 -> "member" [] OTHER -> "none"],
           [u \in User |-> "none"]}

\* The console adds anybody; two users manage each other and the third.
MCCall ==
  {[op |-> "add", by |-> Console, target |-> u, role |-> "unset"] : u \in User}
  \cup {[op |-> "add", by |-> u1, target |-> u2, role |-> "member"]}
  \cup {[op |-> "setRole", by |-> c[1], target |-> c[2], role |-> "member"] :
          c \in {<<u1, u2>>, <<u2, u1>>, <<u1, u3>>}}
  \cup {[op |-> "setRole", by |-> u2, target |-> u1, role |-> "admin"],
        [op |-> "revoke", by |-> u2, target |-> u1],
        [op |-> "revoke", by |-> u1, target |-> u2],
        [op |-> "setFloor", by |-> u1, level |-> "redacted"]}

=============================================================================
