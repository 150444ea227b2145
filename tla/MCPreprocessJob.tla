--------------------------- MODULE MCPreprocessJob ---------------------------
EXTENDS PreprocessJob, TLC
CONSTANTS j1, j2, f1, f2, root, d1, d2

TwoJobs == {j1, j2}
TwoFiles == {f1, f2}
\* The content directory and one directory for each file.
ThreeDirs == {root, d1, d2}
UnderThreeDirs == root :> {f1, f2} @@ d1 :> {f1} @@ d2 :> {f2}
\* One job takes everything, the other names two directories.
OneOfEach == [j \in Jobs |-> IF j = j1 THEN {root} ELSE {d1, d2}]
\* One version adds a file, the next removes it.
GrowAndShrink == <<{f1}, {f1, f2}, {f1}>>
\* A text may be half or twice its source, and that of the last version is too large.
Sizes == [x \in TwoFiles \X Versions |-> IF x = <<f1, 1>> THEN 2 ELSE 1]
OutputSizes == [x \in TwoFiles \X Texts |-> CASE x = <<f1, 3>> -> 3
                                             [] x = <<f1, Cut>> -> 0
                                             [] x = <<f2, 2>> -> 2
                                             [] OTHER -> 1]
\* One file's text is noticed when it is cut short, the other's is not.
CutNoticed == {<<f1, Cut>>}
=============================================================================
