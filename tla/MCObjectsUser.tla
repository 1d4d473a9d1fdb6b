----------------------------- MODULE MCObjectsUser -----------------------------
(* Small instances of ObjectsUser for TLC. *)
EXTENDS ObjectsUser, TLC

\* Tag maps: none, one tag, the same tag and another.
NoTags == <<>>
OneTag == "env" :> "prod"
TwoTags == "env" :> "prod" @@ "team" :> "a"

OnlyNoTags == {NoTags}
OneOrTwoTags == {OneTag, TwoTags}
AllTagMaps == {NoTags, OneTag, TwoTags}

Interchangeable == Permutations(Workers) \cup Permutations(UserIDs)

\* IDs are handed out in one order.  Which of the unused ones a user gets makes no
\* difference to anything, and TLC cannot use symmetry to find out when it checks
\* liveness.
IDsInOrder ==
    \A u \in UserIDs :
        cloud[u].state = "free" /\ cloud'[u].state # "free"
            => u = CHOOSE x \in UserIDs : cloud[x].state = "free"

==============================================================================
