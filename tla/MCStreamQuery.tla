---------------------------- MODULE MCStreamQuery ----------------------------
\* What servers say, for StreamQuery.
EXTENDS StreamQuery

MCQuery == <<7, 8, 9>>

\* A message, two of them, one with too few bytes, an empty one, half a size, one so
\* large that it never comes to an end, and none.
MCStreams == {<<0, 3, 1, 2, 3>>, <<0, 2, 1, 2, 0, 1, 3>>, <<0, 3, 1>>, <<0, 0, 5>>, <<0>>,
              <<1, 0, 1>>, << >>}
=============================================================================
