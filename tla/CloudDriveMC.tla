---------------------------- MODULE CloudDriveMC ----------------------------
(* Values for the constants of CloudDrive shared by its model-checking runs. *)
EXTENDS CloudDrive, TLC

CONSTANTS w1, w2, h1

File(size, outcome) == [size |-> size, outcome |-> outcome]

\* A link turns out to be one file, two files or a broken one.
DriveListings == { <<File(3, "done"), File(2, "deleted")>>, <<File(1, "failed")>> }
DriveWorkers == {w1, w2}
DriveThreads == {h1}
DriveDeleters == {w1}
FailedLinks == {"failed"}
DriveSizes == {2}
DriveReports == {0, 3}
=============================================================================
