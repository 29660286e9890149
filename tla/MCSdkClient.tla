---------------------------- MODULE MCSdkClient ----------------------------
(* One session with three refill keys, or one job.  A session and a job      *)
(* share no state, so a behaviour has the one or the other.                  *)
EXTENDS SdkClient

NoSession == ~runner.session /\ ~runner.closing /\ broker.state = "none" /\ loc.funds = 1
NoJob == job.at = "new" /\ locJob = "none"

MCNext == \/ SessionNext /\ NoJob
          \/ JobNext /\ NoSession

MCSpec == SdkInit /\ [][MCNext]_vars /\ WF_vars(SubmitStep /\ NoSession)
=============================================================================
