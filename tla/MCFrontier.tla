------------------------------ MODULE MCFrontier ------------------------------
(* Small instances of Frontier: a site of two or three pages. *)
EXTENDS Frontier, TLC

CONSTANTS u1, u2, u3, o1, b1, b2, p1, p2, c1, c2, noUrl

\* One site; the home page links to the others.
TwoUrls == {u1, u2}
ThreeUrls == {u1, u2, u3}
OneHost == {o1}
HostOf == [u \in Urls |-> o1]
LinksOfTwo == u1 :> {u2} @@ u2 :> {}
LinksOfThree == u1 :> {u2, u3} @@ u2 :> {u1} @@ u3 :> {}

OneCrawl == {b1}
TwoCrawls == {b1, b2}
Seeds == [b \in Crawls |-> IF b = b1 THEN u1 ELSE u2]
TwoPages == [b \in Crawls |-> 2]
Limits == [b \in Crawls |-> IF b = b1 THEN 1 ELSE 2]

OneCaller == {p1}
TwoCallers == {p1, p2}
TwoCrawlers == {c1, c2}
OneJsCrawler == {c2}

CallerSymmetry == Permutations(Callers)

CrashAndStop == {"crash", "stop"}
Overlaps == {"split_claim", "stop"}
=============================================================================
