------------------------------- MODULE MCExtras -------------------------------
(* Instances of the six components: two lists, a task with two comments, two  *)
(* attachments, one label beside the system's three, and an owner and two     *)
(* others with three rows to insert, three requests at a time.                *)
EXTENDS Extras, TLC

CONSTANTS k1, k2, k3, s1, s2, s3, u1, u2, c2, p1, p2,
          ann, o1

MCRow == {k1, k2, k3, s1, s2, s3}
MCParentOf == [x \in MCRow |-> IF x \in {k1, k2, k3} THEN board ELSE checklist]
MCTemplate == board :> <<k1, k2>> @@ checklist :> <<>>

MCMentions == {<<>>, <<u1>>, <<u2, u2>>}
MCLabels == <<"Bug", "Feature", "Design">>

\* The second comment mentions nobody and is not edited.
Plain ==
    \A r \in Client : posts'[r].comment = c2 =>
        /\ posts'[r].pc \notin {"select", "write"} /\ posts'[r].names = {}
        /\ posts'[r].entity.author = u2

MCSpec == PartsInit /\ [][PartsNext /\ Plain]_parts

\* The rows of a list are alike, and so are the two sub-tasks, and the rows to
\* insert and the people but for the owner, for which the same values stand: no
\* behaviour is of two parts.
Symmetric == Permutations({s1, s2, s3}) \cup Permutations({p1, p2})
=============================================================================
