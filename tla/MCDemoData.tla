----------------------------- MODULE MCDemoData -----------------------------
(* Small instances of DemoData for TLC: a real user who posted, and two    *)
(* runs that create two accounts each.                                     *)
EXTENDS DemoData, TLC

CONSTANTS r1, s1, s2, e1, e2

TwoEmails == <<e1, e2>>
MyPost    == <<"post", r1>>
RealP     == {MyPost}
AllPersons == {r1} \cup ({e1, e2} \X {s1, s2})
AllPosts   == {<<"post", x>> : x \in AllPersons}
OfPost == [p \in AllPosts |-> p[2]]

\* A real and a demo account follow the first demo account, and the real one
\* likes its post.
Named == {Follow(r1, <<e1, s1>>), Follow(<<e2, s1>>, <<e1, s1>>),
          Like(r1, <<"post", <<e1, s1>>>>), Follow(r1, r1)}

Symmetric == Permutations(Adds)
=============================================================================
