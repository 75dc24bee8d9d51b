-------------------------- MODULE MCPreCacheQueue --------------------------
\* Constants for model-checking PreCacheQueue: two URLs of one media file, signed differently,
\* a playlist, and a URL that decodeURIComponent rejects.
EXTENDS PreCacheQueue, TLC

CONSTANTS m1, m2, s1, x1

SignedPaths == (m1 :> "media") @@ (m2 :> "media") @@ (s1 :> "playlist") @@ (x1 :> "malformed")
ListedPages == {<<m1, m2>>, <<s1, m1>>, <<x1, m2>>, <<m1>>}
=============================================================================
