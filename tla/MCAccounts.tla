------------------------------ MODULE MCAccounts ------------------------------
(***************************************************************************)
(* One user u1, one administrator a1; the behaviours begin with stores     *)
(* that agree, that do not, or with half of the story missing, and with    *)
(* the jobs that then meet.                                                *)
(***************************************************************************)
EXTENDS Accounts

CONSTANTS u1, a1, d1, d2, l1, l2, g1, g2, f1, f2

MCWrites ==
    {"keepUser", "keepSub", "clearSub", "clearUser", "refillUser", "push", "edit", "set", "toggle", "status",
     "confirm", "drop", "remove", "fetch", "dropActor", "clearActor", "apply", "restore", "provision",
     "create", "point", "compare", "lock", "pending", "aim", "extend", "mark", "discount", "done", "unlock", "points", "days", "issue", "flush"}

Person(role, current) == [points |-> 1, discount |-> 0, role |-> role, blocked |-> FALSE, current |-> current]
People(current) == u1 :> Person("USER", current) @@ a1 :> Person("DEV", 2)

Sub(id, uuid, days, trial) ==
    [id |-> id, account |-> uuid, status |-> "ACTIVE", trial |-> trial, staff |-> FALSE, days |-> days,
     traffic_limit |-> 0, device_limit |-> 0, internal_squads |-> 0, external_squad |-> 0]
Acc(uuid, days) ==
    [uuid |-> uuid, status |-> "ACTIVE", days |-> days, staff |-> FALSE, devices |-> 1,
     traffic_limit |-> 0, device_limit |-> 0, internal_squads |-> 0, external_squad |-> 0]

Bills(s) == (IF s = None THEN <<>> ELSE 1 :> s) @@ 2 :> Sub(2, 2, Today + 1, FALSE)
Panel(acc) == u1 :> acc @@ a1 :> Acc(2, Today + 1)

Agreeing(trial, days, plan) ==
    [people |-> People(1), subscriptions |-> Bills(Sub(1, 1, days, trial)), panel |-> Panel(Acc(1, days)),
     apart |-> {}, agenda |-> plan]
Nothing(plan) ==
    [people |-> People(None), subscriptions |-> Bills(None), panel |-> Panel(None), apart |-> {}, agenda |-> plan]
Apart(sub, acc, plan) ==
    [people |-> People(IF sub = None THEN None ELSE 1), subscriptions |-> Bills(sub), panel |-> Panel(acc),
     apart |-> {u1}, agenda |-> plan]

Alone1(n) == [jobs |-> {d1}, at |-> "MENU", rooms |-> Windows, edits |-> n, faults |-> 1]
With(j, w, rooms) == [jobs |-> {d1, j}, at |-> w, rooms |-> rooms \cup {"MAIN"}, edits |-> 1, faults |-> 0]
Two(w) == [jobs |-> {d1, d2}, at |-> w, rooms |-> {w}, edits |-> 2, faults |-> 0]
Stale(w) == [jobs |-> {d1}, at |-> w, rooms |-> Windows, edits |-> 1, faults |-> 0]
Without(js) == [jobs |-> js, at |-> "MENU", rooms |-> {}, edits |-> 0, faults |-> 1]
Days == {"SUBSCRIPTION", "EXPIRE_TIME"}
MCStart ==
    {Agreeing(FALSE, Today + 1, [Alone1(2) EXCEPT !.faults = 0]), Agreeing(FALSE, Today + 1, Alone1(1)),
     Agreeing(FALSE, Today - 1, Alone1(1)), Nothing(Alone1(1)),
     Apart(Sub(1, 1, Today + 1, FALSE), [Acc(1, Today) EXCEPT !.status = "DISABLED", !.traffic_limit = 1], Alone1(1)),
     Apart(None, Acc(1, Today + 1), Alone1(1)), Apart(Sub(1, 1, Today + 1, FALSE), None, Alone1(1)),
     Apart(None, [Acc(1, Today - 1) EXCEPT !.status = "DISABLED"], Alone1(1)),
     Apart([Sub(1, 1, Today + 1, FALSE) EXCEPT !.status = "DELETED"], Acc(1, Today + 1), Alone1(1))}
    \cup {Nothing(Stale(w)) : w \in {"SUBSCRIPTION", "EXPIRE_TIME"}}
    \cup {Apart(Sub(1, 1, Today + 1, FALSE), None, Stale(w)) : w \in {"SUBSCRIPTION", "EXPIRE_TIME", "DEVICES_LIST"}}
    \cup {Agreeing(FALSE, Today + 1, plan) : plan \in {Two("POINTS"), Two("EXPIRE_TIME"), With(l1, "SUBSCRIPTION", Days),
                                                       With(g1, "SUBSCRIPTION", Days), With(g2, "MENU", {"POINTS"})}}
    \cup {Agreeing(FALSE, Today + 1, Without({l1, l2})), Agreeing(TRUE, Today, Without({g1, g2, f1})),
          Agreeing(FALSE, Today, Without({f1, f2}))}
    \cup {Agreeing(t, Today, Without({l1, f1})) : t \in BOOLEAN}
    \cup {Nothing(With(f1, "SUBSCRIPTION_DURATION", {}))}

Both(x, y) == d1 :> x @@ d2 :> y
MCActor == Both(a1, a1)
MCTarget == Both(u1, u1)
MCRewardOf == g1 :> "r1" @@ g2 :> "r2"
MCKind == [r1 |-> "EXTRA_DAYS", r2 |-> "POINTS"]
MCAmount == [r1 |-> 1, r2 |-> 1]
MCDeltas == {1, -1}
MCSums == {1, -2}
=============================================================================
