----------------------------- MODULE MCObjectTree -----------------------------
\* An instance of ObjectTree for TLC.
EXTENDS ObjectTree

\* Names: a and b are ASCII, long and stem are not; long is stem with an ASCII letter after
\* it, so that storePuoids() leaves stem of long, and half a character of stem.
CONSTANTS a, b, long, stem

Entry(p, dir) == [path |-> p, dir |-> dir]
FolderAndFile == {{Entry(<<a>>, TRUE), Entry(<<a, a>>, FALSE), Entry(<<b>>, FALSE)}}
MCCut == [p \in {<<long>>} |-> <<stem>>]
WideFiles == {{Entry(<<long>>, FALSE), Entry(<<stem>>, FALSE)}}
Folders == FolderAndFile \cup {{Entry(<<a>>, TRUE), Entry(<<a, b>>, TRUE)}}
MCDisks == Folders \cup WideFiles
=============================================================================
