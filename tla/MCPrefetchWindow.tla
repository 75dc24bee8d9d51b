-------------------------- MODULE MCPrefetchWindow --------------------------
\* Constants for model-checking PrefetchWindow: a feed of two HLS items, one of them a
\* master playlist, and a media file, seen whole or without its first item.
EXTENDS PrefetchWindow

CONSTANTS h1, h2, m1

FeedLists   == {<<h1, m1, h2>>, <<m1, h2>>}
FeedIndices == {-1, 0, 2}
FeedOptions == {[ahead |-> 1, behind |-> 0, segmentCount |-> 2],
                [ahead |-> 2, behind |-> 1, segmentCount |-> 0]}
=============================================================================
