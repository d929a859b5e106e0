------------------------------ MODULE MCRunner ------------------------------
(***************************************************************************)
(* Instances of Runner: every kind of job, the classes of the repository,  *)
(* two parameter files and ten hosts.                                      *)
(***************************************************************************)
EXTENDS MCExperiment, Runner

AllJobs == [yaml : BOOLEAN,
            topology : {"fine", "unreadable", "unknown", "unconfigurable"},
            experiment : {"none", "unknown", "known"}]

(* started with nohup, or daemons that leave their process group           *)
MCDetached == {"mpath-server", "netserver", "apache2"}

RunnerFiles ==
    FilesWith({ClassFacts \cup {"random", "netlinkClient", "changeNetem"},
               {"priorities", "serverPcap"}})
=============================================================================
