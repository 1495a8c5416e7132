---------------------------- MODULE MCWorkspace ----------------------------
(***************************************************************************)
(* Small instances of the parts of Workspace.                              *)
(***************************************************************************)
EXTENDS Workspace

\* A package with a service of the same name, a part of the system, and a package of another kind.
MCSections == <<"apt", "npm", "custom-services">>
MCMachines == {{<<"apt", "nginx">>, <<"apt", "libc6">>, <<"custom-services", "nginx">>},
               {<<"apt", "libc6">>, <<"npm", "pm2">>, <<"custom-services", "nginx">>}}
MCSystemNames == [s \in {"apt", "custom-services"} |-> IF s = "apt" THEN {"libc6"} ELSE {"sshd"}]

-----------------------------------------------------------------------------
\* A calendar for the part "cron": hours of 2 minutes, days of 2 hours, a week
\* of 3 days, months of 2 and 3 days in turn.  Every expression over it and
\* starts in the first day are searched, for one year and more.
MCLast == 47
MCHorizon == 22

Hours == [t \in 0..MCLast |-> (t \div 2) % 2]
Days == [t \in 0..MCLast |-> t \div 4]
DayOfYear(t) == Days[t] % 5
MonthOf(t) == IF DayOfYear(t) < 2 THEN 1 ELSE 2

MCCalendar ==
    [t \in 0..MCLast |->
        [minute |-> t % 2, hour |-> Hours[t],
         dayOfMonth |-> IF MonthOf(t) = 1 THEN DayOfYear(t) + 1 ELSE DayOfYear(t) - 1,
         month |-> MonthOf(t), dayOfWeek |-> Days[t] % 3]]

MCNextHour == [t \in 0..MCLast |-> 2 * (t \div 2) + 2]
MCNextDay == [t \in 0..MCLast |-> 4 * Days[t] + 4]
MCNextMonth ==
    [t \in 0..MCLast |-> 4 * (Days[t] + (IF MonthOf(t) = 1 THEN 2 ELSE 5) - DayOfYear(t))]

Some(S) == SUBSET S \ {{}}
MCExprs == [minute : Some(0..1), hour : Some(0..1), dayOfMonth : Some(1..3),
            month : Some(1..2), dayOfWeek : Some(0..2)]
MCFroms == 0..3

-----------------------------------------------------------------------------
\* Forms like those of the catalog (nginx, mongodb, vaultwarden), and one whose
\* conditions are chained.
Field(n, t, d, r, w) == [name |-> n, type |-> t, default |-> d, required |-> r, when |-> w]
When(n, eq, v) == [on |-> n, equal |-> eq, value |-> v]

MCSchemas ==
    {<<Field("domain", "text", "a", TRUE, Always), Field("proxy", "boolean", "true", FALSE, Always),
       Field("upstream", "text", "", TRUE, When("proxy", TRUE, "true"))>>,
     <<Field("user", "text", "a", TRUE, When("auth", TRUE, "true")),
       Field("pass", "password", Unset, TRUE, When("auth", TRUE, "true")),
       Field("auth", "boolean", "true", FALSE, Always)>>,
     <<Field("host", "text", "", FALSE, Always), Field("from", "text", Unset, TRUE, When("host", FALSE, ""))>>,
     <<Field("mode", "text", "a", FALSE, Always), Field("tls", "boolean", "true", FALSE, When("mode", TRUE, "a")),
       Field("mail", "text", Unset, TRUE, When("tls", TRUE, "true"))>>}
=============================================================================
