------------------------------ MODULE MCBench ------------------------------
(* Instances of Bench for model checking.                                  *)
EXTENDS Bench

Line(cmd, shape, warmup, maxInFlight, dsn, override, sha, allowDirty) ==
    [cmd |-> cmd, shape |-> shape, warmup |-> warmup, maxInFlight |-> maxInFlight, dsn |-> dsn,
     override |-> override, sha |-> sha, allowDirty |-> allowDirty]

Url(path) == [form |-> "url", path |-> path]
Keywords(values) == [form |-> "keywords", values |-> values]

(* A sweep that can saturate, a run of each other shape, with the flags    *)
(* varied between them: one is all warm-up, one is against a database      *)
(* nobody gave up.                                                         *)
MCFlags ==
    {Line("sweep", "doorbuster", 1, 1, Url("bench"), FALSE, TRUE, FALSE),
     Line("run", "doorbuster", 1, 2, Url("bench"), FALSE, FALSE, FALSE),
     Line("run", "zipf", 2, 2, Url("other"), TRUE, FALSE, TRUE),
     Line("sweep", "uncontended", 1, 2, Keywords({"other", "bench"}), FALSE, TRUE, FALSE),
     Line("run", "hot-deep", 1, 2, Url("other"), FALSE, TRUE, FALSE)}
=============================================================================
