---------------------------- MODULE MCJobPipeline ----------------------------
(* Small instances of JobPipeline. *)
EXTENDS JobPipeline, TLC

CONSTANTS j1, j2, c1, c2, noCrawler, noItem, t1, t2

OneJob == {j1}
TwoJobs == {j1, j2}
TwoCrawlers == {c1, c2}
OneJsCrawler == {c2}
OneTask == {t1}
TwoTasks == {t1, t2}

NoRaces == {}
AllRaces == RaceKinds

TaskSymmetry == Permutations(Tasks)
=============================================================================
