---------------------------- MODULE MCGuestChecks ---------------------------
(* The disk may start a request at the neighbours of every test sector, at *)
(* sector 0 and into the run; a sample may miss or prefer few or many      *)
(* values, by amounts on both sides of every threshold.                    *)
EXTENDS GuestChecks

AllJobs == Validators \cup {"config", "bar"}
BlkOnly == {"blk"}
Targets == {0, 1, 1233, 1234, 1235, 7999, 8000, 8001, 8004}
Values == {1, 2, 11, 12, 13, 14, 56, 57, 128, 200, 255}
Hits == {0, 1, 24, 25, 26, 31, 32, 33, 38, 39, 40, 41, 64, 144, 145, 146, 8192}
OneBar == {5}
=============================================================================
