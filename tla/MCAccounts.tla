----------------------------- MODULE MCAccounts -----------------------------
EXTENDS Accounts

CONSTANTS r1, r2, monthly, yearly

MCKeysOf == (r1 :> {"browser", "first"}) @@ (r2 :> {"browser", "second"})
MCUserOf == (r1 :> "ann") @@ (r2 :> "ann")
MCMonths == (monthly :> 1) @@ (yearly :> 2)
MCRetention == (monthly :> 1) @@ (yearly :> 3)
=============================================================================
