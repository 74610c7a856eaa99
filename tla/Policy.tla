------------------------------- MODULE Policy -------------------------------
(***************************************************************************)
(* The policy engine's decisions (internal/policy/engine.go) and the model *)
(* router's (internal/models/router.go): first matching rule, else the     *)
(* default.  An empty field of a rule matches everything.                  *)
(***************************************************************************)
EXTENDS Naturals, Sequences, FiniteSets, FiniteSetsExt

\* RuleMatch.  requires_gpu is "", "true" or "false".
AnyMatch ==
    [tenant |-> "", jobType |-> "", taskType |-> "", model |-> "", class |-> "",
     priority |-> "", isolation |-> "", locality |-> "", gpu |-> ""]

Rules == [effect : STRING, match : [DOMAIN AnyMatch -> STRING]]

\* The fields that only an assignment has, the ones a submission has and an
\* assignment has not or has with another value, and the ones both have, the
\* assignment from the inputs of the task.
TaskFields == {"taskType", "isolation", "locality", "gpu"}
JobFields == {"jobType", "priority", "gpu"}
InputFields == {"model", "class"}

matches(rule, in) == \A f \in DOMAIN rule : rule[f] \in {"", in[f]}

normalizeAction(v) == IF v \in {"allow", "deny"} THEN v ELSE ""

\* NewFromConfig: an effect it does not know denies, a default it does not
\* know allows.
Effect(rule) == IF normalizeAction(rule.effect) = "allow" THEN "allow" ELSE "deny"
DefaultAction(cfg) == IF normalizeAction(cfg.default) = "deny" THEN "deny" ELSE "allow"

\* A decision names the rule it follows from; 0 is the default action.
Decision(allowed, quota, rule) == [allowed |-> allowed, quota |-> quota, rule |-> rule]
Hits(cfg, in) == {i \in DOMAIN cfg.rules : matches(cfg.rules[i].match, in)}

evaluateRules(cfg, in) ==
    IF Hits(cfg, in) = {}
    THEN Decision(DefaultAction(cfg) = "allow", FALSE, 0)
    ELSE LET first == Min(Hits(cfg, in))
         IN Decision(Effect(cfg.rules[first]) = "allow", FALSE, first)

\* A missing quota and a quota of 0 set no limit.
QuotaReached(quotas, tenant, running) ==
    tenant \in DOMAIN quotas /\ quotas[tenant] > 0 /\ running >= quotas[tenant]

\* Variant: one job too many.
quotaOffByOne(cfg, in, running) ==
    IF running > 0 /\ QuotaReached(cfg.maxRunningJobs, in.tenant, running - 1)
    THEN Decision(FALSE, TRUE, 0)
    ELSE evaluateRules(cfg, [AnyMatch EXCEPT
             !.tenant = in.tenant, !.jobType = in.type, !.model = in.model,
             !.class = in.class, !.priority = in.priority, !.gpu = "false"])

\* The pointer to requires_gpu is nil at submission, which reads as false.
EvaluateSubmit(cfg, in, running) ==
    IF QuotaReached(cfg.maxRunningJobs, in.tenant, running)
    THEN Decision(FALSE, TRUE, 0)
    ELSE evaluateRules(cfg, [AnyMatch EXCEPT
             !.tenant = in.tenant, !.jobType = in.type, !.model = in.model,
             !.class = in.class, !.priority = in.priority, !.gpu = "false"])

\* Variant: the model is not passed.
assignmentWithoutModel(cfg, tenant, task, worker, running) ==
    IF QuotaReached(cfg.maxRunningTasks, tenant, running)
    THEN Decision(FALSE, TRUE, 0)
    ELSE evaluateRules(cfg, [AnyMatch EXCEPT
             !.tenant = tenant, !.taskType = task.type, !.class = task.inputs.class,
             !.isolation = task.inputs.isolation, !.locality = worker.locality,
             !.gpu = worker.gpu])

\* The tenant is the job's; model, classification and isolation are the inputs
\* of the task.
EvaluateAssignment(cfg, tenant, task, worker, running) ==
    IF QuotaReached(cfg.maxRunningTasks, tenant, running)
    THEN Decision(FALSE, TRUE, 0)
    ELSE evaluateRules(cfg, [AnyMatch EXCEPT
             !.tenant = tenant, !.taskType = task.type, !.model = task.inputs.model,
             !.class = task.inputs.class, !.isolation = task.inputs.isolation,
             !.locality = worker.locality, !.gpu = worker.gpu])

----------------------------------------------------------------------------

\* Route: a rule that matches may replace the backend and the model.
RouteHits(routes, in) ==
    {i \in DOMAIN routes.rules :
        /\ routes.rules[i].latency \in {"", in.latency}
        /\ routes.rules[i].reasoning \in {"", in.reasoning}
        /\ routes.rules[i].class \in {"", in.class}}
Or(v, default) == IF v # "" THEN v ELSE default

Route(routes, in) ==
    LET base == [backend |-> routes.backend, model |-> Or(in.model, routes.model)]
        hits == RouteHits(routes, in)
    IN IF hits = {} THEN base
       ELSE LET rule == routes.rules[Min(hits)]
            IN [backend |-> Or(rule.backend, base.backend),
                model |-> Or(rule.model, base.model)]
============================================================================
