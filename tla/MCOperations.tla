---------------------------- MODULE MCOperations ----------------------------
(***************************************************************************)
(* An instance of Operations for TLC: the units daily-early and            *)
(* daily-start with the lines of their service files, daily-early's        *)
(* listing of the derivatives, its procedure cut to three steps of five,   *)
(* and the token that daily-start asks for; two threads of the API server, *)
(* and two hosts of one site.                                              *)
(***************************************************************************)
EXTENDS Operations

Cycle(c, m) == [cycle |-> c, mode |-> m, procedure |-> ""]
CallProc(p) == [cycle |-> "", mode |-> "", procedure |-> p]

MCLines ==
  [u \in {"daily-early", "daily-start"} |->
     IF u = "daily-early"
     THEN <<Cycle("daily_early", "both"), CallProc("sp_run_daily_early"),
            Cycle("3m_call", "generate-only"), Cycle("3m_put", "generate-only")>>
     ELSE <<Cycle("daily_start", "both")>>]

MCSteps ==
  [p \in {"sp_run_daily_early"} |->
     <<"sp_retire_expired_jobs", "sp_meta_maturity_sync", "sp_mst_fuopt_sync">>]

\* A line for each step: a whole batch and a short one.
MCWritten == [p \in DOMAIN MCSteps |-> Len(MCSteps[p])]

MCCollects ==
  [c \in {"daily_early", "3m_call", "3m_put", "daily_start"} |->
     IF c = "daily_early" THEN {"krx_deriv_info"} ELSE {}]

MCRefreshes == [c \in {"daily_start"} |-> {"KIS_ACCESS_TOKEN"}]

MCProcessOf == [t \in {"worker-1", "worker-2"} |-> "api"]
MCHosts == {<<"kr", "co", "krx", "data">>, <<"kr", "co", "krx", "isin">>}
MCRules == << [suffix |-> <<"kr", "co", "krx", "data">>, gap |-> 2] >>
=============================================================================
