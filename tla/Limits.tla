------------------------------- MODULE Limits -------------------------------
(***************************************************************************)
(* The plan's limits on what a workspace may hold (guards.ts, cache.ts and *)
(* the plan checks of apartment.service.ts and office.service.ts).  The    *)
(* entitlements middleware judges a creation by counts it may have kept    *)
(* for CacheLife; for units, estates, areas and assets (Checked) the       *)
(* service then counts again; residents and requests rest on the           *)
(* middleware alone.  The creation is one more call.                       *)
(***************************************************************************)
EXTENDS Requests

CONSTANTS Kinds, Checked, Limit, MaxHeld, CacheLife

ASSUME CheckedAreKinds == Checked \subseteq Kinds
ASSUME LimitNat == Limit \in Nat
ASSUME MaxHeldNat == MaxHeld \in Nat /\ CacheLife \in Nat

VARIABLES
    held,      \* per kind: how many rows the workspace holds
    usage      \* the cached counts, until when they count, and NoUsage without

limitVars == <<held, usage>>

NoUsage == [until |-> Never]

LimitsInit ==
    /\ held = [k \in Kinds |-> 0]
    /\ usage = NoUsage

Counted == usage # NoUsage /\ usage.until >= now

AfterGuard(k) == IF k \in Checked THEN "check" ELSE "create"

\* The middleware: the cached counts if there are any, else three reads.
EntitlementsGuard(i, k) ==
    /\ IF Counted
       THEN /\ usage.held[k] < Limit
            /\ Begin(i, [op |-> "create", rows |-> {k}, kind |-> k, step |-> AfterGuard(k)])
       ELSE Begin(i, [op |-> "create", rows |-> {k}, kind |-> k, step |-> "count"])
    /\ UNCHANGED limitVars

CountUsage(i) ==
    LET r == req[i] IN
    /\ r # Idle /\ r.step = "count"
    /\ Proceed(i, [op |-> "create", rows |-> r.rows, kind |-> r.kind, step |-> "cache", held |-> held])
    /\ UNCHANGED limitVars

ComputeAndCache(i) ==
    LET r == req[i] IN
    /\ r # Idle /\ r.step = "cache"
    /\ usage' = [until |-> now + CacheLife, held |-> r.held]
    /\ IF r.held[r.kind] < Limit
       THEN Proceed(i, [op |-> "create", rows |-> r.rows, kind |-> r.kind, step |-> AfterGuard(r.kind)])
       ELSE End(i)
    /\ UNCHANGED held

\* Mutant: the limit is compared with > in place of >=.
AssertPlanLimitMutant(i) ==
    LET r == req[i] IN
    /\ r # Idle /\ r.step = "check"
    /\ IF held[r.kind] > Limit THEN End(i) ELSE Proceed(i, [r EXCEPT !.step = "create"])
    /\ UNCHANGED limitVars

AssertPlanLimit(i) ==
    LET r == req[i] IN
    /\ r # Idle /\ r.step = "check"
    /\ IF held[r.kind] >= Limit THEN End(i) ELSE Proceed(i, [r EXCEPT !.step = "create"])
    /\ UNCHANGED limitVars

CreateRow(i) ==
    LET r == req[i] IN
    /\ r # Idle /\ r.step = "create"
    /\ held[r.kind] < MaxHeld
    /\ held' = [held EXCEPT ![r.kind] = @ + 1]
    /\ End(i)
    /\ UNCHANGED usage

DeleteRow(k) ==
    /\ held[k] > 0
    /\ held' = [held EXCEPT ![k] = @ - 1]
    /\ Once(k)
    /\ UNCHANGED usage

\* Members who come and go, and payments, drop the cached counts; creations do not.
CacheBust ==
    /\ usage # NoUsage
    /\ usage' = NoUsage
    /\ UNCHANGED <<requestVars, held>>

LimitsStep(i) ==
    \/ \E k \in Kinds : EntitlementsGuard(i, k)
    \/ CountUsage(i)
    \/ ComputeAndCache(i)
    \/ AssertPlanLimit(i)
    \/ CreateRow(i)

LimitsNext ==
    \/ \E i \in Slots : LimitsStep(i)
    \/ \E k \in Kinds : DeleteRow(k)
    \/ CacheBust
    \/ (Tick \/ \E i \in Slots : Abort(i)) /\ UNCHANGED limitVars

-----------------------------------------------------------------------------

LimitsTypeOK ==
    /\ held \in [Kinds -> 0..MaxHeld]
    /\ usage = NoUsage \/ usage \in [until : 1..(MaxTime + CacheLife), held : [Kinds -> 0..MaxHeld]]

\* However old the counts the middleware judges by, a kind the service counts again
\* never passes the limit of the plan, unless two creations of it count together.
LimitsHold ==
    \A k \in Checked \ contested : held[k] <= Limit

=============================================================================
